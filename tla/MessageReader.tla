---------------------------- MODULE MessageReader ----------------------------
(***************************************************************************)
(* The receiving ends of WireProtocol: the loop of RtspStreamer's          *)
(* HandleClient, which reads requests and frames for as long as the        *)
(* connection lasts, and that of HttpStreamer's, which reads one request.  *)
(* TCP delivers what the client sent in pieces of any size, at any time;   *)
(* the loop limits how long it waits for the next message (60 s) and for   *)
(* the rest of one that has begun (5 s; HTTP: for all of it).              *)
(*                                                                         *)
(* Time passes in steps of 250 ms, the interval of RTSP's select, and only *)
(* while the loop waits: a message that is being handled counts against no *)
(* deadline, since they are set anew after it.                             *)
(***************************************************************************)
EXTENDS WireProtocol

CONSTANTS Chunk,             \* the most recv returns: 4096, HTTP 2048
          IdleLimit,         \* 60 s
          AssemblyLimit,     \* 5 s
          Messages,          \* what clients send: bytes, and what they deserve
          MaxMessages        \* bound on how many

Handled == {"Request", "Interleaved"}
Verdicts == Handled \cup {"Invalid", "TooLarge"}

ASSUME ReaderAssumption ==
  /\ MaxHeader \in Nat /\ MaxBody \in Nat /\ MaxFrame \in Nat
  /\ Chunk \in Nat \ {0} /\ MaxMessages \in Nat
  /\ AssemblyLimit \in Nat \ {0} /\ IdleLimit \in Nat /\ AssemblyLimit <= IdleLimit
  /\ Messages \subseteq [bytes : Seq(Symbols), verdict : Verdicts]

\* What a message deserves is what Extract says of all of it and nothing else.
ASSUME MessagesAssumption ==
  \A m \in Messages, r \in BOOLEAN :
    r \/ m.verdict # "Interleaved" =>
      /\ Len(m.bytes) <= MaxBuffered
      /\ Extract(m.bytes, r).result = m.verdict
      /\ m.verdict \in Handled => Extract(m.bytes, r).size = Len(m.bytes)

\* The longest that Extract waits for more of, a header with most of its body or
\* most of a frame, leaves room in the buffer for what one recv returns.
ASSUME RoomAssumption ==
  /\ MaxBuffered \in Nat
  /\ MaxHeader + Chunk <= MaxBuffered
  /\ MaxHeader + MaxBody - 1 + Chunk <= MaxBuffered
  /\ MaxFrame + 2 + Chunk <= MaxBuffered

VARIABLES rtsp,              \* which of the two loops
          sent,              \* history: the messages the client has sent
          wire,              \* sent and not yet received
          buffer,            \* received and not yet extracted
          handled,           \* the messages extracted, as they were
          reader,            \* the loop: what it does next, or how it ended
          left,              \* time to the deadline
          age,               \* history: since the loop has had the first byte of
                             \* a message whose end it has not
          quiet              \* history: since the last message, or the start

vars == <<rtsp, sent, wire, buffer, handled, reader, left, age, quiet>>

Limit == IF rtsp THEN IdleLimit ELSE AssemblyLimit

Least(m, n) == IF m < n THEN m ELSE n

Init ==
  /\ rtsp \in BOOLEAN
  /\ sent = <<>> /\ wire = <<>> /\ buffer = <<>> /\ handled = <<>>
  /\ reader = "extract"
  /\ left = Limit
  /\ age = 0 /\ quiet = 0

-----------------------------------------------------------------------------
(* The client, and what ends the connection from outside the loop *)

\* HTTP clients send no frames.
Send(m) ==
  /\ Len(sent) < MaxMessages
  /\ rtsp \/ m.verdict # "Interleaved"
  /\ sent' = Append(sent, m)
  /\ wire' = wire \o m.bytes
  /\ UNCHANGED <<rtsp, buffer, handled, reader, left, age, quiet>>

\* recv returns 0 or fails; or select returns and Stop or SetEnabled(false) has
\* lowered the flag.
Interrupted ==
  /\ reader = "wait"
  /\ reader' = "gone"
  /\ UNCHANGED <<rtsp, sent, wire, buffer, handled, left, age, quiet>>

-----------------------------------------------------------------------------
(* The loop *)

Extracted == Extract(buffer, rtsp)

\* Variant: the deadline is not looked at.
NeverLate == FALSE

Late == left = 0

\* Extract wants more: the loop goes on to wait unless the time is up. HTTP
\* answers 408 then.
AsksForMore ==
  /\ reader = "extract" /\ Extracted.result = "NeedMore"
  /\ reader' = IF Late THEN "late" ELSE "wait"
  /\ UNCHANGED <<rtsp, sent, wire, buffer, handled, left, age, quiet>>

\* The loop ends. HTTP answers 400 or 413.
Refuses ==
  /\ reader = "extract" /\ Extracted.result \in {"Invalid", "TooLarge"}
  /\ reader' = Extracted.result
  /\ UNCHANGED <<rtsp, sent, wire, buffer, handled, left, age, quiet>>

\* Variant: what came with a message is given up with it.
NothingKept(n) == <<>>

Kept(n) == SubSeq(buffer, n + 1, Len(buffer))

\* After a message RTSP goes on, unless the message makes it end the connection:
\* TEARDOWN, another version, or a frame that is no RTCP of this session.
Handles(goesOn) ==
  LET rest == Kept(Extracted.size) IN
  /\ reader = "extract" /\ Extracted.result \in Handled
  /\ handled' = Append(handled, SubSeq(buffer, 1, Extracted.size))
  /\ buffer' = rest
  /\ left' = IF rest = <<>> THEN Limit ELSE AssemblyLimit
  /\ reader' = IF rtsp /\ goesOn THEN "extract" ELSE "done"
  /\ age' = 0 /\ quiet' = 0
  /\ UNCHANGED <<rtsp, sent, wire>>

\* Variant: the first bytes of a message leave the deadline where it is.
KeepsDeadline(l) == l

AfterFirstByte(l) == Least(l, AssemblyLimit)

Receive(n) ==
  /\ reader = "wait" /\ n <= Len(wire)
  /\ buffer' = buffer \o SubSeq(wire, 1, n)
  /\ wire' = SubSeq(wire, n + 1, Len(wire))
  /\ left' = IF buffer = <<>> THEN AfterFirstByte(left) ELSE left
  /\ reader' = "extract"
  /\ UNCHANGED <<rtsp, sent, handled, age, quiet>>

\* 250 ms without data: RTSP looks at its flags and its deadline, HTTP waits on
\* in recv.
Tick ==
  /\ reader = "wait" /\ left > 0
  /\ left' = left - 1
  /\ age' = IF buffer = <<>> THEN 0 ELSE age + 1
  /\ quiet' = quiet + 1
  /\ reader' = IF rtsp THEN "extract" ELSE "wait"
  /\ UNCHANGED <<rtsp, sent, wire, buffer, handled>>

\* HTTP: recv ends without data at the deadline, and nothing is answered.
RecvTimesOut ==
  /\ ~rtsp /\ reader = "wait" /\ left = 0
  /\ reader' = "late"
  /\ UNCHANGED <<rtsp, sent, wire, buffer, handled, left, age, quiet>>

-----------------------------------------------------------------------------
Loop == \/ AsksForMore \/ Refuses \/ RecvTimesOut
        \/ \E goesOn \in BOOLEAN : Handles(goesOn)

Next == \/ \E m \in Messages : Send(m)
        \/ \E n \in 1..Chunk : Receive(n)
        \/ Interrupted
        \/ Loop \/ Tick

Spec == Init /\ [][Next]_vars

\* The loop's thread runs, and so does the clock.
FairSpec == Spec /\ WF_vars(Loop) /\ WF_vars(Tick)

-----------------------------------------------------------------------------
(* Properties *)

TypeOK ==
  /\ rtsp \in BOOLEAN
  /\ sent \in Seq(Messages)
  /\ wire \in Seq(Symbols) /\ buffer \in Seq(Symbols)
  /\ handled \in Seq(Seq(Symbols))
  /\ reader \in {"extract", "wait", "Invalid", "TooLarge", "late", "gone", "done"}
  /\ left \in Nat /\ age \in Nat /\ quiet \in Nat

\* Whatever pieces the messages arrive in, the loop takes off exactly what was
\* sent, message by message: none is split, joined with the next, read as one of
\* another kind or passed over, none that is refused or follows such a one is handled,
\* and the loop waits only while the next one is not complete.
MessagesIntact ==
  LET next == Len(handled) + 1 IN
  /\ Len(handled) <= Len(sent)
  /\ \A i \in 1..Len(handled) : /\ handled[i] = sent[i].bytes
                                /\ sent[i].verdict \in Handled
  /\ reader \in {"Invalid", "TooLarge"} => sent[next].verdict = reader
  /\ reader = "wait" /\ buffer # <<>> =>
       /\ Len(buffer) < Len(sent[next].bytes)
       /\ buffer = SubSeq(sent[next].bytes, 1, Len(buffer))

\* The buffer never gets as large as the limit that Extract looks at first: a
\* connection is not refused for bytes of several messages that came at once.
BufferBounded == Len(buffer) <= MaxBuffered

\* A message that has begun is given 5 s at most and a connection without one
\* 60 s, however the client spreads its bytes; and nobody is turned away for
\* being late who has taken neither.
TimeLimits ==
  /\ age <= AssemblyLimit /\ quiet <= Limit
  /\ reader = "late" => age = AssemblyLimit \/ quiet = Limit

\* A client that has said all it says is let go: its place among the sessions or
\* clients becomes free without anything happening on the connection.
ConnectionEnds == <>(reader \notin {"extract", "wait"})
=============================================================================
