------------------------ MODULE RtspStreamer_proofs ------------------------
(***************************************************************************)
(* The RTSP server is correct for every set of sessions, limit on sessions *)
(* and set of requests: no stream thread loses what it uses, responses and *)
(* frames do not mix while a session goes on, every handler thread is in a *)
(* list, and Stop leaves nothing behind.                                   *)
(*                                                                         *)
(* The argument is one invariant per session, over where its handler and   *)
(* its stream are, and one about the lists of sessions.                    *)
(***************************************************************************)
EXTENDS RtspStreamer, TLAPS

-----------------------------------------------------------------------------
(* The inductive invariant *)

Records == [running : BOOLEAN, playing : BOOLEAN, setup : BOOLEAN,
            transport : {"udp", "tcp"}, udp : BOOLEAN,
            tcp : {"none", "up", "down", "closed"},
            subscriber : {"none", "open", "stopped"},
            finished : BOOLEAN,
            wire : {"whole", "frame", "response", "mixed"}]

AfterStates == {"none", "setup", "respond", "start", "close"}

\* The type invariant by parts; that no session is in two lists is StopInv's.
FlagTypes == running \in BOOLEAN /\ enabled \in BOOLEAN /\ disabling \in BOOLEAN
ListTypes == /\ sessions \subseteq Sessions /\ joinList \subseteq Sessions
             /\ acceptor \in {"accept", "accepted", "done"}
             /\ stopper \in {"none", "joinAccept", "interrupt", "joinHandlers", "stopped"}
ThreadTypes == /\ handler \in [Sessions -> HandlerStates]
               /\ after \in [Sessions -> AfterStates]
               /\ request \in [Sessions -> Requests \cup {NoRequest}]
               /\ stream \in [Sessions -> StreamStates]
LocalTypes == closing \in [Sessions -> BOOLEAN] /\ play \in [Sessions -> BOOLEAN]
SessionTypes == session \in [Sessions -> Records]

Types == FlagTypes /\ ListTypes /\ ThreadTypes /\ LocalTypes /\ SessionTypes

\* Here the handler has joined the stream, or has none yet.
Still == {"none", "setup", "start", "close", "done"}

\* Where StopStream returns is known exactly while it runs.
ReturnInv(s) == after[s] # "none" <=> handler[s] \in {"stop", "join"}

\* While the handler is past a join nothing of a stream is left; in the join
\* isPlaying is false, and nobody but this handler sets it.
QuietInv(s) ==
  /\ handler[s] \in Still => stream[s] = "none" /\ session[s].subscriber = "none"
  /\ session[s].playing =>
       stream[s] \notin {"none", "ended"} \/ handler[s] \in {"exit", "stop"}

\* A stream has a subscriber, and is only started on what a SETUP agreed on:
\* PLAY is accepted in a session that is set up, and no SETUP comes in between.
SetupInv(s) ==
  /\ stream[s] \notin {"none", "ended"} => session[s].setup /\ session[s].subscriber # "none"
  /\ play[s] => session[s].setup /\ handler[s] \in {"respond", "sending", "answered"}
  /\ handler[s] = "start" \/ after[s] = "start" => session[s].setup
  /\ session[s].setup /\ session[s].transport = "udp" => session[s].udp \/ handler[s] = "done"

\* The sockets are closed by the handler's last step and by nothing else.
EndInv(s) ==
  /\ session[s].finished <=> handler[s] = "done"
  /\ session[s].tcp = "closed" <=> handler[s] = "done"
  /\ handler[s] = "done" => ~session[s].udp

SendInv(s) == ~(handler[s] = "sending" /\ stream[s] = "sending")

SessionInv(s) == ReturnInv(s) /\ QuietInv(s) /\ SetupInv(s) /\ EndInv(s) /\ SendInv(s)

\* A handler runs only for a session in one of the lists.
ListInv == \A s \in Sessions : Live(s) => s \in sessions \cup joinList

\* Stop has begun exactly when m_running is false. Once it has taken the
\* sessions the accept loop is over and adds none.
StopInv ==
  /\ running <=> stopper = "none"
  /\ stopper \in {"interrupt", "joinHandlers", "stopped"} => acceptor = "done" /\ sessions = {}
  /\ stopper \notin {"interrupt", "joinHandlers"} => joinList = {}

RtspInv == Types /\ ListInv /\ StopInv /\ \A s \in Sessions : SessionInv(s)

-----------------------------------------------------------------------------
(* One session at a time *)

Others(s) ==
  \A t \in Sessions \ {s} :
    /\ handler'[t] = handler[t] /\ after'[t] = after[t] /\ play'[t] = play[t]
    /\ stream'[t] = stream[t] /\ session'[t] = session[t]

\* A step of one session keeps the invariant if it keeps that session's part.
LEMMA OneSessionKeeps ==
  ASSUME RtspInv, NEW s \in Sessions, Live(s),
         UNCHANGED server, Others(s),
         ThreadTypes', LocalTypes', SessionTypes', SessionInv(s)'
  PROVE  RtspInv'
<1>1. UNCHANGED <<running, enabled, sessions, acceptor, stopper, joinList, disabling>>
  BY DEF server
<1>2. FlagTypes' /\ ListTypes' /\ StopInv'
  BY <1>1 DEF RtspInv, Types, FlagTypes, ListTypes, StopInv
<1>3. ASSUME NEW t \in Sessions \ {s}
      PROVE  SessionInv(t)' /\ (Live(t)' <=> Live(t))
  <2>1. SessionInv(t)
    BY DEF RtspInv
  <2> QED
    BY <2>1 DEF Others, SessionInv, ReturnInv, QuietInv, SetupInv, EndInv, SendInv, Live
<1>4. ListInv'
  BY <1>1, <1>3 DEF RtspInv, ListInv
<1> QED
  BY <1>2, <1>3, <1>4 DEF RtspInv, Types

\* The same for a step that moves the handler or the stream and leaves the
\* shared fields alone.
LEMMA HandlerMoves ==
  ASSUME RtspInv, NEW s \in Sessions, Live(s), NEW to \in HandlerStates,
         Goto(s, to), UNCHANGED <<server, stream, session>>,
         after' \in [Sessions -> AfterStates],
         \A t \in Sessions \ {s} : after'[t] = after[t] /\ play'[t] = play[t],
         request' \in [Sessions -> Requests \cup {NoRequest}],
         LocalTypes', SessionInv(s)'
  PROVE  RtspInv'
<1>1. ThreadTypes' /\ SessionTypes'
  BY DEF RtspInv, Types, ThreadTypes, SessionTypes, Goto
<1>2. Others(s)
  BY DEF RtspInv, Types, ThreadTypes, Goto, Others
<1> QED
  BY <1>1, <1>2, OneSessionKeeps

\* What a step of the handler does to the session's part when it stays outside
\* of StopStream and of the places where no stream is.
Roaming == {"check", "wait", "process", "respond", "sending", "answered", "exit"}

LEMMA RoamingKeeps ==
  ASSUME RtspInv, NEW s \in Sessions, NEW to \in Roaming,
         handler[s] \in Roaming \ {"exit"},
         Goto(s, to), UNCHANGED <<server, after, stream, session>>,
         \A t \in Sessions \ {s} : play'[t] = play[t],
         play'[s] => session[s].setup /\ to \in {"respond", "sending", "answered"},
         to = "sending" => stream[s] # "sending",
         request' \in [Sessions -> Requests \cup {NoRequest}], LocalTypes'
  PROVE  RtspInv'
<1>1. Types /\ SessionInv(s) /\ Live(s) /\ to \in HandlerStates
  BY DEF RtspInv, Live, Roaming, HandlerStates
<1>2. handler'[s] = to
  BY <1>1 DEF Types, ThreadTypes, Goto
<1>3. ReturnInv(s)' /\ QuietInv(s)' /\ EndInv(s)' /\ SendInv(s)'
  BY <1>1, <1>2 DEF SessionInv, ReturnInv, QuietInv, EndInv, SendInv, Roaming, Still
<1>4. SetupInv(s)'
  BY <1>1, <1>2 DEF SessionInv, SetupInv, ReturnInv, Roaming
<1> QED
  BY <1>1, <1>3, <1>4, HandlerMoves DEF SessionInv, Types, ThreadTypes

-----------------------------------------------------------------------------
(* The handler thread outside of StopStream *)

\* Between requests no PLAY is outstanding.
LEMMA NoPlay ==
  ASSUME RtspInv, NEW s \in Sessions, handler[s] \in {"check", "wait", "process"}
  PROVE  ~play[s]
BY DEF RtspInv, SessionInv, SetupInv

LEMMA LoopKeeps ==
  ASSUME RtspInv, NEW s \in Sessions, Check(s) \/ Wait(s) \/ Receive(s) \/ GiveUp(s)
  PROVE  RtspInv'
<1>1. /\ handler[s] \in {"check", "wait", "process"}
      /\ UNCHANGED <<server, after, closing, play, stream, session>>
  BY DEF Check, Wait, Receive, GiveUp, locals
<1>2. \E to \in {"check", "wait", "process", "exit"} : Goto(s, to)
  BY DEF Check, Wait, Receive, GiveUp
<1>3. request' \in [Sessions -> Requests \cup {NoRequest}]
  BY DEF RtspInv, Types, ThreadTypes, Check, Wait, Receive, GiveUp, Forget, locals
<1>4. LocalTypes' /\ ~play'[s]
  BY <1>1, NoPlay DEF RtspInv, Types, LocalTypes
<1> QED
  BY <1>1, <1>2, <1>3, <1>4, RoamingKeeps DEF Roaming

\* Into StopStream.
LEMMA CallKeeps ==
  ASSUME RtspInv, NEW s \in Sessions, handler[s] \in Roaming,
         NEW next \in AfterStates \ {"none"}, CallStop(s, next),
         UNCHANGED <<server, stream, session>>,
         \A t \in Sessions \ {s} : play'[t] = play[t], ~play'[s],
         next = "start" => session[s].setup,
         request' \in [Sessions -> Requests \cup {NoRequest}], LocalTypes'
  PROVE  RtspInv'
<1>1. Types /\ SessionInv(s) /\ Live(s)
  BY DEF RtspInv, Live, Roaming
<1>2. /\ handler'[s] = "stop" /\ after'[s] = next
      /\ after' \in [Sessions -> AfterStates]
      /\ \A t \in Sessions \ {s} : after'[t] = after[t]
  BY <1>1 DEF Types, ThreadTypes, CallStop, Goto
<1>3. ReturnInv(s)' /\ QuietInv(s)' /\ EndInv(s)' /\ SendInv(s)'
  BY <1>1, <1>2 DEF SessionInv, ReturnInv, QuietInv, EndInv, SendInv, Roaming, Still
<1>4. SetupInv(s)'
  BY <1>1, <1>2 DEF SessionInv, SetupInv, Roaming
<1> QED
  BY <1>1, <1>2, <1>3, <1>4, HandlerMoves DEF SessionInv, CallStop, HandlerStates

\* PLAY is only accepted in a session that is set up.
LEMMA ProcessKeeps ==
  ASSUME RtspInv, NEW s \in Sessions, Process(s)
  PROVE  RtspInv'
<1>1. /\ Types /\ handler[s] = "process" /\ ~play[s]
      /\ UNCHANGED <<server, stream, session>>
  BY NoPlay DEF RtspInv, Process
<1>2. /\ closing' \in [Sessions -> BOOLEAN] /\ play' \in [Sessions -> BOOLEAN]
      /\ \A t \in Sessions \ {s} : play'[t] = play[t]
  BY <1>1 DEF Process, Types, LocalTypes
<1>3. request' \in [Sessions -> Requests \cup {NoRequest}]
  BY <1>1 DEF Process, Types, ThreadTypes, Forget
<1>4. CASE request[s].method = "RTCP"
  <2>1. /\ Goto(s, IF session[s].setup /\ request[s].valid THEN "check" ELSE "exit")
        /\ UNCHANGED <<after, play>>
    BY <1>4 DEF Process
  <2> QED
    BY <1>1, <1>2, <1>3, <2>1, RoamingKeeps DEF Roaming, LocalTypes
<1>5. CASE handler' = [handler EXCEPT ![s] = "respond"]
  <2>1. UNCHANGED after
    BY <1>1, <1>5 DEF Process, Goto, CallStop, Types, ThreadTypes
  <2>2. play'[s] => session[s].setup
    BY <1>1, <1>5 DEF Process, Goto, CallStop, Types, ThreadTypes, LocalTypes,
                      WrongSession, NeedsSession
  <2> QED
    BY <1>1, <1>2, <1>3, <1>5, <2>1, <2>2, RoamingKeeps DEF Roaming, LocalTypes, Goto
<1>6. CASE \E next \in {"setup", "respond"} : CallStop(s, next) /\ ~play'[s]
  BY <1>1, <1>2, <1>3, <1>6, CallKeeps DEF Roaming, LocalTypes, AfterStates
<1> QED
  BY <1>1, <1>4, <1>5, <1>6 DEF Process, Goto, Types, LocalTypes

LEMMA AnswerKeeps ==
  ASSUME RtspInv, NEW s \in Sessions, Respond(s) \/ Answered(s)
  PROVE  RtspInv'
<1>1. /\ Types /\ handler[s] \in {"respond", "answered"}
      /\ UNCHANGED <<server, stream, session>>
      /\ request' \in [Sessions -> Requests \cup {NoRequest}]
      /\ play[s] => session[s].setup
  BY DEF RtspInv, SessionInv, SetupInv, Respond, Answered, locals, Types, ThreadTypes
<1>2. /\ closing' \in [Sessions -> BOOLEAN] /\ play' \in [Sessions -> BOOLEAN]
      /\ \A t \in Sessions \ {s} : play'[t] = play[t]
  BY <1>1 DEF Types, LocalTypes, Respond, Answered, locals
<1>3. CASE Respond(s)
  BY <1>1, <1>2, <1>3, RoamingKeeps DEF Respond, SendFree, locals, Roaming, LocalTypes
<1>4. CASE Answered(s)
  <2>1. ~play'[s]
    BY <1>1, <1>4 DEF Answered, Types, LocalTypes
  <2>2. CASE StartsStream(s)
    BY <1>1, <1>2, <1>4, <2>1, <2>2, CallKeeps
       DEF Answered, StartsStream, Roaming, LocalTypes, AfterStates
  <2>3. CASE ~StartsStream(s)
    BY <1>1, <1>2, <1>4, <2>1, <2>3, RoamingKeeps DEF Answered, Roaming, LocalTypes
  <2> QED
    BY <2>2, <2>3
<1> QED
  BY <1>3, <1>4

-----------------------------------------------------------------------------
(* The steps that change the fields both threads share *)

\* Only the fields of one session change, together with the places of its two
\* threads and where StopStream returns.
LEMMA Changed ==
  ASSUME RtspInv, NEW s \in Sessions, Live(s),
         NEW x \in Records, session' = [session EXCEPT ![s] = x],
         UNCHANGED <<server, closing, play>>, ThreadTypes',
         \A t \in Sessions \ {s} :
           handler'[t] = handler[t] /\ after'[t] = after[t] /\ stream'[t] = stream[t],
         SessionInv(s)'
  PROVE  RtspInv'
<1>1. LocalTypes' /\ SessionTypes' /\ Others(s)
  BY DEF RtspInv, Types, LocalTypes, SessionTypes, Others
<1> QED
  BY <1>1, OneSessionKeeps

\* A record of shared fields, by its fields.
LEMMA Fields ==
  ASSUME NEW w \in Records
  PROVE  /\ w = [running |-> w.running, playing |-> w.playing, setup |-> w.setup,
                 transport |-> w.transport, udp |-> w.udp, tcp |-> w.tcp,
                 subscriber |-> w.subscriber, finished |-> w.finished,
                 wire |-> w.wire]
         /\ w.running \in BOOLEAN /\ w.playing \in BOOLEAN /\ w.setup \in BOOLEAN
         /\ w.transport \in {"udp", "tcp"} /\ w.udp \in BOOLEAN
         /\ w.tcp \in {"none", "up", "down", "closed"}
         /\ w.subscriber \in {"none", "open", "stopped"} /\ w.finished \in BOOLEAN
         /\ w.wire \in {"whole", "frame", "response", "mixed"}
BY DEF Records

\* Interrupt neither closes the socket nor ends the stream's resources.
LEMMA InterruptedFields ==
  ASSUME NEW w \in Records
  PROVE  /\ Interrupted(w) \in Records
         /\ Interrupted(w).playing = w.playing /\ Interrupted(w).setup = w.setup
         /\ Interrupted(w).transport = w.transport /\ Interrupted(w).udp = w.udp
         /\ Interrupted(w).subscriber = w.subscriber
         /\ Interrupted(w).finished = w.finished
         /\ Interrupted(w).tcp = "closed" <=> w.tcp = "closed"
         /\ Interrupted(w).wire = w.wire /\ ~Interrupted(w).running
<1> DEFINE down == IF w.tcp = "up" THEN "down" ELSE w.tcp
<1>1. Interrupted(w) = [w EXCEPT !.running = FALSE, !.tcp = down]
  BY DEF Interrupted
<1>2. /\ down \in {"none", "up", "down", "closed"}
      /\ down = "closed" <=> w.tcp = "closed"
  BY Fields
<1> HIDE DEF down
<1>3. ASSUME NEW t \in {"none", "up", "down", "closed"}
      PROVE  LET x == [w EXCEPT !.running = FALSE, !.tcp = t] IN
             /\ x \in Records /\ x.tcp = t /\ ~x.running
             /\ x.playing = w.playing /\ x.setup = w.setup
             /\ x.transport = w.transport /\ x.udp = w.udp
             /\ x.subscriber = w.subscriber /\ x.finished = w.finished
             /\ x.wire = w.wire
  BY <1>3, Fields DEF Records
<1> QED
  BY <1>1, <1>2, <1>3

\* What has gone out on the connection is a field by itself.
LEMMA WireFields ==
  ASSUME NEW w \in Records, NEW rest \in {"whole", "frame", "response"},
         NEW x, x = [w EXCEPT !.wire = Then(w.wire, rest)]
  PROVE  /\ x \in Records /\ x.wire = Then(w.wire, rest)
         /\ x.running = w.running /\ x.playing = w.playing /\ x.setup = w.setup
         /\ x.transport = w.transport /\ x.udp = w.udp /\ x.tcp = w.tcp
         /\ x.subscriber = w.subscriber /\ x.finished = w.finished
BY Fields DEF Then, Records

\* The response is out, whole or in part, or not at all.
SentFields(s) ==
  \E x \in Records :
    /\ session' = [session EXCEPT ![s] = x]
    /\ \/ x = session[s] /\ closing'[s]
       \/ /\ \E rest \in {"whole", "response"} :
               /\ x = [session[s] EXCEPT !.wire = Then(session[s].wire, rest)]
               /\ rest = "response" => closing'[s]

LEMMA SentWrites ==
  ASSUME Types, NEW s \in Sessions, Sent(s)
  PROVE  SentFields(s)
<1> DEFINE w == session[s]
<1>1. /\ w \in Records /\ session = [session EXCEPT ![s] = w]
      /\ closing \in [Sessions -> BOOLEAN]
  BY DEF Types, SessionTypes, LocalTypes
<1>2. CASE session' = [session EXCEPT ![s].wire = Then(@, "whole")]
  BY <1>1, <1>2, WireFields DEF SentFields
<1>3. CASE closing' = [closing EXCEPT ![s] = TRUE] /\ UNCHANGED session
  BY <1>1, <1>3 DEF SentFields
<1>4. CASE /\ closing' = [closing EXCEPT ![s] = TRUE]
           /\ session' = [session EXCEPT ![s].wire = Then(@, "response")]
  BY <1>1, <1>4, WireFields DEF SentFields
<1> QED
  BY <1>2, <1>3, <1>4 DEF Sent

LEMMA SentKeeps ==
  ASSUME RtspInv, NEW s \in Sessions, Sent(s)
  PROVE  RtspInv'
<1> DEFINE w == session[s]
<1>1. /\ Types /\ SessionInv(s) /\ handler[s] = "sending" /\ w \in Records /\ Live(s)
      /\ handler' = [handler EXCEPT ![s] = "answered"]
      /\ UNCHANGED <<server, after, request, play, stream>>
  BY DEF RtspInv, Types, SessionTypes, Sent, Goto, Live
<1>2. LocalTypes'
  BY <1>1 DEF Types, LocalTypes, Sent
<1>3. PICK x \in Records :
        /\ session' = [session EXCEPT ![s] = x]
        /\ \/ x = w
           \/ \E rest \in {"whole", "response"} :
                x = [w EXCEPT !.wire = Then(w.wire, rest)]
  BY <1>1, SentWrites DEF SentFields
<1>4. /\ x.playing = w.playing /\ x.setup = w.setup /\ x.transport = w.transport
      /\ x.udp = w.udp /\ x.subscriber = w.subscriber /\ x.finished = w.finished
      /\ x.tcp = w.tcp
  BY <1>1, <1>3, WireFields
<1>5. /\ handler'[s] = "answered" /\ session'[s] = x /\ ThreadTypes' /\ SessionTypes'
      /\ Others(s)
  BY <1>1, <1>3 DEF Types, ThreadTypes, SessionTypes, HandlerStates, Others
<1>6. SessionInv(s)'
  <2>1. ReturnInv(s)' /\ QuietInv(s)' /\ EndInv(s)' /\ SendInv(s)'
    BY <1>1, <1>4, <1>5 DEF SessionInv, ReturnInv, QuietInv, EndInv, SendInv, Still
  <2>2. SetupInv(s)'
    BY <1>1, <1>4, <1>5 DEF SessionInv, SetupInv
  <2> QED
    BY <2>1, <2>2 DEF SessionInv
<1> QED
  BY <1>1, <1>2, <1>5, <1>6, OneSessionKeeps

LEMMA StopStreamKeeps ==
  ASSUME RtspInv, NEW s \in Sessions, StopStream(s)
  PROVE  RtspInv'
<1> DEFINE w == session[s]
           x == [w EXCEPT !.playing = FALSE,
                          !.subscriber = IF @ = "open" THEN "stopped" ELSE @]
<1>1. /\ Types /\ SessionInv(s) /\ handler[s] = "stop" /\ w \in Records /\ Live(s)
      /\ UNCHANGED <<server, after, request, closing, play, stream>>
  BY DEF RtspInv, Types, SessionTypes, StopStream, locals, Live
<1>2. session' = [session EXCEPT ![s] = x] /\ handler' = [handler EXCEPT ![s] = "join"]
  BY DEF StopStream, Goto
<1>3. /\ x \in Records /\ x.playing = FALSE
      /\ x.setup = w.setup /\ x.transport = w.transport /\ x.udp = w.udp
      /\ x.tcp = w.tcp /\ x.finished = w.finished
      /\ x.subscriber = "none" <=> w.subscriber = "none"
  <2> DEFINE sub == IF w.subscriber = "open" THEN "stopped" ELSE w.subscriber
  <2>1. x = [w EXCEPT !.playing = FALSE, !.subscriber = sub]
    OBVIOUS
  <2>2. /\ sub \in {"none", "open", "stopped"}
        /\ sub = "none" <=> w.subscriber = "none"
    BY <1>1, Fields
  <2> HIDE DEF sub, x
  <2>3. ASSUME NEW u \in {"none", "open", "stopped"}
        PROVE  LET y == [w EXCEPT !.playing = FALSE, !.subscriber = u] IN
               /\ y \in Records /\ y.playing = FALSE /\ y.subscriber = u
               /\ y.setup = w.setup /\ y.transport = w.transport /\ y.udp = w.udp
               /\ y.tcp = w.tcp /\ y.finished = w.finished
    BY <1>1, <2>3, Fields DEF Records
  <2> QED
    BY <2>1, <2>2, <2>3
<1> HIDE DEF x
<1>4. /\ handler'[s] = "join" /\ session'[s] = x /\ ThreadTypes'
      /\ \A t \in Sessions \ {s} : handler'[t] = handler[t]
  BY <1>1, <1>2 DEF Types, ThreadTypes, SessionTypes, HandlerStates
<1>5. SessionInv(s)'
  <2>1. ReturnInv(s)' /\ QuietInv(s)' /\ EndInv(s)' /\ SendInv(s)'
    BY <1>1, <1>3, <1>4 DEF SessionInv, ReturnInv, QuietInv, EndInv, SendInv, Still
  <2>2. SetupInv(s)'
    BY <1>1, <1>3, <1>4 DEF SessionInv, SetupInv
  <2> QED
    BY <2>1, <2>2 DEF SessionInv
<1> QED
  BY <1>1, <1>2, <1>3, <1>4, <1>5, Changed

\* After the join nothing of the stream is left.
LEMMA JoinStreamKeeps ==
  ASSUME RtspInv, NEW s \in Sessions, JoinStream(s)
  PROVE  RtspInv'
<1> DEFINE w == session[s]
           x == [w EXCEPT !.subscriber = "none"]
<1>1. /\ Types /\ SessionInv(s) /\ handler[s] = "join" /\ w \in Records /\ Live(s)
      /\ stream[s] \in {"none", "ended"}
      /\ UNCHANGED <<server, request, closing, play>>
  BY DEF RtspInv, Types, SessionTypes, JoinStream, StreamOver, locals, Live
<1>2. /\ session' = [session EXCEPT ![s] = x] /\ handler' = [handler EXCEPT ![s] = after[s]]
      /\ stream' = [stream EXCEPT ![s] = "none"] /\ after' = [after EXCEPT ![s] = "none"]
  BY DEF JoinStream, Goto, StreamGoto
<1>3. /\ x \in Records /\ x.subscriber = "none" /\ x.playing = w.playing
      /\ x.setup = w.setup /\ x.transport = w.transport /\ x.udp = w.udp
      /\ x.tcp = w.tcp /\ x.finished = w.finished
  BY <1>1, Fields DEF Records
<1> HIDE DEF x
<1>4. after[s] \in {"setup", "respond", "start", "close"}
  BY <1>1 DEF SessionInv, ReturnInv, Types, ThreadTypes, AfterStates
<1>5. ~w.playing /\ ~play[s]
  BY <1>1 DEF SessionInv, QuietInv, SetupInv
<1>6. /\ handler'[s] = after[s] /\ after'[s] = "none" /\ stream'[s] = "none"
      /\ session'[s] = x /\ ThreadTypes'
      /\ \A t \in Sessions \ {s} :
           handler'[t] = handler[t] /\ after'[t] = after[t] /\ stream'[t] = stream[t]
  BY <1>1, <1>2, <1>4
     DEF Types, ThreadTypes, SessionTypes, HandlerStates, AfterStates, StreamStates
<1>7. SessionInv(s)'
  <2>1. ReturnInv(s)' /\ QuietInv(s)' /\ EndInv(s)' /\ SendInv(s)'
    BY <1>1, <1>3, <1>4, <1>5, <1>6
       DEF SessionInv, ReturnInv, QuietInv, EndInv, SendInv, Still
  <2>2. SetupInv(s)'
    BY <1>1, <1>3, <1>4, <1>5, <1>6 DEF SessionInv, SetupInv
  <2> QED
    BY <2>1, <2>2 DEF SessionInv
<1> QED
  BY <1>1, <1>2, <1>3, <1>6, <1>7, Changed

\* SETUP changes what was agreed on, with no stream there.
LEMMA SetupKeeps ==
  ASSUME RtspInv, NEW s \in Sessions, Setup(s)
  PROVE  RtspInv'
<1>1. PICK granted \in {TRUE, FALSE} :
        session' = [session EXCEPT ![s].transport = request[s].transport,
                                   ![s].setup = granted,
                                   ![s].udp = granted /\ request[s].transport = "udp"]
  BY DEF Setup
<1> DEFINE w == session[s]
           t == request[s].transport
           x == [w EXCEPT !.transport = t, !.setup = granted,
                          !.udp = granted /\ t = "udp"]
<1>2. /\ Types /\ SessionInv(s) /\ handler[s] = "setup" /\ w \in Records /\ Live(s)
      /\ UNCHANGED <<server, after, closing, play, stream>>
      /\ handler' = [handler EXCEPT ![s] = "respond"]
      /\ request' = [request EXCEPT ![s] = NoRequest]
  BY DEF RtspInv, Types, SessionTypes, Setup, Goto, Forget, Live
<1>3. t \in {"udp", "tcp"}
  BY <1>2, RtspAssumption DEF Types, ThreadTypes, NoRequest
<1>4. session' = [session EXCEPT ![s] = x]
  BY <1>1
<1>5. /\ x \in Records /\ x.transport = t /\ x.setup = granted
      /\ x.udp = (granted /\ t = "udp")
      /\ x.playing = w.playing /\ x.subscriber = w.subscriber
      /\ x.tcp = w.tcp /\ x.finished = w.finished
  BY <1>2, <1>3, Fields DEF Records
<1> HIDE DEF x, t
<1>6. /\ handler'[s] = "respond" /\ session'[s] = x /\ ThreadTypes'
      /\ \A u \in Sessions \ {s} : handler'[u] = handler[u]
  BY <1>2, <1>4 DEF Types, ThreadTypes, SessionTypes, HandlerStates
<1>7. SessionInv(s)'
  <2>1. stream[s] = "none" /\ ~play[s]
    BY <1>2 DEF SessionInv, QuietInv, SetupInv, Still
  <2>2. ReturnInv(s)' /\ QuietInv(s)' /\ EndInv(s)' /\ SendInv(s)'
    BY <1>2, <1>5, <1>6, <2>1 DEF SessionInv, ReturnInv, QuietInv, EndInv, SendInv, Still
  <2>3. SetupInv(s)'
    BY <1>2, <1>5, <1>6, <2>1 DEF SessionInv, SetupInv, ReturnInv
  <2> QED
    BY <2>2, <2>3 DEF SessionInv
<1> QED
  BY <1>2, <1>4, <1>5, <1>6, <1>7, Changed

\* A stream starts with a new subscriber, on what the last SETUP agreed on.
LEMMA StartStreamKeeps ==
  ASSUME RtspInv, NEW s \in Sessions, StartStream(s)
  PROVE  RtspInv'
<1> DEFINE w == session[s]
           x == [w EXCEPT !.subscriber = "open", !.playing = TRUE]
<1>1. /\ Types /\ SessionInv(s) /\ handler[s] = "start" /\ w \in Records /\ Live(s)
      /\ UNCHANGED <<server, after, request, closing, play>>
      /\ session' = [session EXCEPT ![s] = x]
  BY DEF RtspInv, Types, SessionTypes, StartStream, locals, Live
<1>2. /\ x \in Records /\ x.subscriber = "open" /\ x.playing = TRUE
      /\ x.setup = w.setup /\ x.transport = w.transport /\ x.udp = w.udp
      /\ x.tcp = w.tcp /\ x.finished = w.finished
  BY <1>1, Fields DEF Records
<1> HIDE DEF x
<1>3. /\ \/ handler'[s] = "check" /\ stream'[s] = "loop"
         \/ handler'[s] = "exit" /\ stream'[s] = "none"
      /\ \A t \in Sessions \ {s} : handler'[t] = handler[t] /\ stream'[t] = stream[t]
      /\ session'[s] = x
  BY <1>1 DEF StartStream, Goto, StreamGoto, Types, ThreadTypes, SessionTypes,
              SessionInv, QuietInv, Still
<1>4. ThreadTypes'
  BY <1>1 DEF StartStream, Goto, StreamGoto, Types, ThreadTypes, HandlerStates,
              StreamStates
<1>5. SessionInv(s)'
  <2>1. w.setup /\ ~play[s] /\ after[s] = "none"
    BY <1>1 DEF SessionInv, SetupInv, ReturnInv, Types, ThreadTypes
  <2>2. ReturnInv(s)' /\ QuietInv(s)' /\ EndInv(s)' /\ SendInv(s)'
    BY <1>1, <1>2, <1>3, <2>1 DEF SessionInv, ReturnInv, QuietInv, EndInv, SendInv, Still
  <2>3. SetupInv(s)'
    BY <1>1, <1>2, <1>3, <2>1 DEF SessionInv, SetupInv
  <2> QED
    BY <2>2, <2>3 DEF SessionInv
<1> QED
  BY <1>1, <1>2, <1>3, <1>4, <1>5, Changed

LEMMA ExitKeeps ==
  ASSUME RtspInv, NEW s \in Sessions, Exit(s)
  PROVE  RtspInv'
<1> DEFINE w == session[s]
           x == Interrupted(w)
<1>1. /\ Types /\ SessionInv(s) /\ handler[s] = "exit" /\ w \in Records /\ Live(s)
      /\ UNCHANGED <<server, request, closing, play, stream>>
      /\ session' = [session EXCEPT ![s] = x]
  BY DEF RtspInv, Types, SessionTypes, Exit, locals, Live
<1>2. /\ x \in Records /\ x.playing = w.playing /\ x.setup = w.setup
      /\ x.transport = w.transport /\ x.udp = w.udp /\ x.subscriber = w.subscriber
      /\ x.finished = w.finished /\ (x.tcp = "closed" <=> w.tcp = "closed")
  BY <1>1, InterruptedFields
<1> HIDE DEF x
<1>3. /\ handler'[s] = "stop" /\ after'[s] = "close" /\ session'[s] = x
      /\ \A t \in Sessions \ {s} : handler'[t] = handler[t] /\ after'[t] = after[t]
  BY <1>1 DEF Exit, ExitsThrough, CallStop, Goto, Types, ThreadTypes, SessionTypes
<1>4. ThreadTypes'
  BY <1>1 DEF Exit, ExitsThrough, CallStop, Goto, Types, ThreadTypes, HandlerStates,
              AfterStates
<1>5. SessionInv(s)'
  <2>1. ReturnInv(s)' /\ QuietInv(s)' /\ EndInv(s)' /\ SendInv(s)'
    BY <1>1, <1>2, <1>3 DEF SessionInv, ReturnInv, QuietInv, EndInv, SendInv, Still
  <2>2. SetupInv(s)'
    BY <1>1, <1>2, <1>3 DEF SessionInv, SetupInv
  <2> QED
    BY <2>1, <2>2 DEF SessionInv
<1> QED
  BY <1>1, <1>2, <1>3, <1>4, <1>5, Changed

\* The sockets are closed after the join, so no stream is left to miss them.
LEMMA CloseKeeps ==
  ASSUME RtspInv, NEW s \in Sessions, Close(s)
  PROVE  RtspInv'
<1> DEFINE w == session[s]
           x == [w EXCEPT !.tcp = "closed", !.udp = FALSE, !.finished = TRUE,
                          !.wire = "whole"]
<1>1. /\ Types /\ SessionInv(s) /\ handler[s] = "close" /\ w \in Records /\ Live(s)
      /\ UNCHANGED <<server, after, request, closing, play, stream>>
      /\ session' = [session EXCEPT ![s] = x]
  BY DEF RtspInv, Types, SessionTypes, Close, locals, Live
<1>2. /\ x \in Records /\ x.tcp = "closed" /\ x.udp = FALSE /\ x.finished = TRUE
      /\ x.playing = w.playing /\ x.setup = w.setup /\ x.transport = w.transport
      /\ x.subscriber = w.subscriber
  BY <1>1, Fields DEF Records
<1> HIDE DEF x
<1>3. /\ handler'[s] = "done" /\ session'[s] = x /\ ThreadTypes'
      /\ \A t \in Sessions \ {s} : handler'[t] = handler[t]
  BY <1>1 DEF Close, Goto, Types, ThreadTypes, SessionTypes, HandlerStates
<1>4. SessionInv(s)'
  <2>1. ReturnInv(s)' /\ QuietInv(s)' /\ EndInv(s)' /\ SendInv(s)'
    BY <1>1, <1>2, <1>3 DEF SessionInv, ReturnInv, QuietInv, EndInv, SendInv, Still
  <2>2. SetupInv(s)'
    BY <1>1, <1>2, <1>3 DEF SessionInv, SetupInv
  <2> QED
    BY <2>1, <2>2 DEF SessionInv
<1> QED
  BY <1>1, <1>2, <1>3, <1>4, Changed

-----------------------------------------------------------------------------
(* The stream thread *)

\* A stream thread runs only while its handler is where it can be joined.
LEMMA StreamMeansLive ==
  ASSUME RtspInv, NEW s \in Sessions, stream[s] # "none"
  PROVE  Live(s) /\ handler[s] \notin Still
BY DEF RtspInv, SessionInv, QuietInv, Live, Still

Running == {"loop", "pop", "have", "frame", "sending", "end"}

LEMMA StreamMovesKeeps ==
  ASSUME RtspInv, NEW s \in Sessions,
         StreamTest(s) \/ StreamPop(s) \/ StreamSend(s) \/ StreamLock(s)
  PROVE  RtspInv'
<1>1. /\ Types /\ SessionInv(s) /\ stream[s] \in Running /\ Live(s)
      /\ UNCHANGED <<server, handler, after, locals, session>>
  BY StreamMeansLive
     DEF RtspInv, Running, StreamTest, StreamPop, StreamSend, StreamLock
<1>2. \E to \in Running : StreamGoto(s, to) /\ (to = "sending" => handler[s] # "sending")
  BY DEF Running, StreamTest, StreamPop, StreamSend, StreamLock, SendFree
<1>3. /\ stream'[s] \in Running /\ (stream'[s] = "sending" => handler[s] # "sending")
      /\ \A t \in Sessions \ {s} : stream'[t] = stream[t]
  BY <1>1, <1>2 DEF StreamGoto, Types, ThreadTypes
<1>4. ThreadTypes' /\ LocalTypes' /\ SessionTypes'
  BY <1>1, <1>2 DEF StreamGoto, Types, ThreadTypes, LocalTypes, SessionTypes,
                    StreamStates, Running, locals
<1>5. Others(s)
  BY <1>1, <1>3 DEF Others, locals
<1>6. SessionInv(s)'
  BY <1>1, <1>3, StreamMeansLive
     DEF SessionInv, ReturnInv, QuietInv, SetupInv, EndInv, SendInv, Running, locals
<1> QED
  BY <1>1, <1>4, <1>5, <1>6, OneSessionKeeps

\* A frame goes out in parts, is left cut short, or ends the session.
FrameFields(s) ==
  \E x \in Records :
    /\ session' = [session EXCEPT ![s] = x]
    /\ \/ x = session[s] /\ ~MayRun(s)
       \/ x = SessionOver(session[s])
       \/ x = [session[s] EXCEPT !.wire = "whole"] /\ session[s].wire = "frame"
       \/ x = [session[s] EXCEPT !.wire = Then(session[s].wire, "whole")]
            /\ session[s].wire # "frame"

LEMMA FrameWrites ==
  ASSUME Types, NEW s \in Sessions, StreamSent(s)
  PROVE  FrameFields(s)
<1> DEFINE w == session[s]
<1>1. w \in Records /\ session = [session EXCEPT ![s] = w]
  BY DEF Types, SessionTypes
<1>2. CASE ~MayRun(s) /\ UNCHANGED session
  BY <1>1, <1>2 DEF FrameFields
<1>3. CASE session' = [session EXCEPT ![s] = SessionOver(@)]
  BY <1>1, <1>3, Fields DEF FrameFields, SessionOver, Records
<1>4. CASE session' = [session EXCEPT ![s].wire =
                        IF @ = "frame" THEN "whole" ELSE Then(@, "whole")]
  <2>1. CASE w.wire = "frame"
    BY <1>1, <1>4, <2>1, Fields DEF FrameFields, Records
  <2>2. CASE w.wire # "frame"
    BY <1>1, <1>4, <2>2, WireFields DEF FrameFields
  <2> QED
    BY <2>1, <2>2
<1> QED
  BY <1>2, <1>3, <1>4 DEF StreamSent

LEMMA StreamWritesKeeps ==
  ASSUME RtspInv, NEW s \in Sessions, StreamPart(s) \/ StreamSent(s) \/ StreamEnd(s)
  PROVE  RtspInv'
<1> DEFINE w == session[s]
<1>1. /\ Types /\ SessionInv(s) /\ stream[s] \in Running /\ w \in Records /\ Live(s)
      /\ handler[s] \notin Still
      /\ UNCHANGED <<server, handler, after, request, closing, play>>
  BY StreamMeansLive
     DEF RtspInv, Types, SessionTypes, Running, StreamPart, StreamSent, StreamEnd, locals
<1>2. CASE StreamPart(s) \/ StreamSent(s)
  <2>1. \E x \in Records :
          /\ session' = [session EXCEPT ![s] = x]
          /\ x.playing = w.playing /\ x.setup = w.setup
          /\ x.transport = w.transport /\ x.udp = w.udp /\ x.subscriber = w.subscriber
          /\ x.finished = w.finished /\ x.tcp = w.tcp
    <3>1. CASE StreamPart(s)
      <4>1. session' = [session EXCEPT ![s] = [w EXCEPT !.wire = Then(w.wire, "frame")]]
        BY <3>1 DEF StreamPart
      <4> QED
        <5> DEFINE x == [w EXCEPT !.wire = Then(w.wire, "frame")]
        <5>1. /\ x \in Records /\ x.playing = w.playing /\ x.setup = w.setup
              /\ x.transport = w.transport /\ x.udp = w.udp
              /\ x.subscriber = w.subscriber
              /\ x.finished = w.finished /\ x.tcp = w.tcp
          BY <1>1, WireFields
        <5> HIDE DEF x
        <5> QED
          BY <4>1, <5>1 DEF x
    <3>2. CASE StreamSent(s)
      <4>1. PICK x \in Records :
              /\ session' = [session EXCEPT ![s] = x]
              /\ x \in {w, SessionOver(w), [w EXCEPT !.wire = "whole"],
                        [w EXCEPT !.wire = Then(w.wire, "whole")]}
        BY <1>1, <3>2, FrameWrites DEF FrameFields
      <4> QED
        BY <1>1, <4>1, Fields DEF SessionOver
    <3> QED
      BY <1>2, <3>1, <3>2
  <2>2. PICK x \in Records :
          /\ session' = [session EXCEPT ![s] = x]
          /\ x.playing = w.playing /\ x.setup = w.setup
          /\ x.transport = w.transport /\ x.udp = w.udp /\ x.subscriber = w.subscriber
          /\ x.finished = w.finished /\ x.tcp = w.tcp
    BY <2>1
  <2>3. /\ stream'[s] \in {"loop", stream[s]} /\ session'[s] = x /\ ThreadTypes'
        /\ \A t \in Sessions \ {s} : stream'[t] = stream[t]
    BY <1>1, <1>2, <2>2
       DEF StreamPart, StreamSent, StreamGoto, Types, ThreadTypes, SessionTypes,
           StreamStates
  <2>4. SessionInv(s)'
    BY <1>1, <2>2, <2>3
       DEF SessionInv, ReturnInv, QuietInv, SetupInv, EndInv, SendInv, Running
  <2> QED
    BY <1>1, <2>2, <2>3, <2>4, Changed
<1>3. CASE StreamEnd(s)
  <2> DEFINE x == [w EXCEPT !.playing = FALSE]
  <2>1. session' = [session EXCEPT ![s] = x]
    BY <1>3 DEF StreamEnd
  <2>2. /\ x \in Records /\ x.playing = FALSE /\ x.setup = w.setup
        /\ x.transport = w.transport /\ x.udp = w.udp /\ x.subscriber = w.subscriber
        /\ x.finished = w.finished /\ x.tcp = w.tcp
    BY <1>1, Fields DEF Records
  <2> HIDE DEF x
  <2>3. /\ stream'[s] = "ended" /\ session'[s] = x /\ ThreadTypes'
        /\ \A t \in Sessions \ {s} : stream'[t] = stream[t]
    BY <1>1, <1>3, <2>1
       DEF StreamEnd, StreamGoto, Types, ThreadTypes, SessionTypes, StreamStates
  <2>4. SessionInv(s)'
    BY <1>1, <2>2, <2>3
       DEF SessionInv, ReturnInv, QuietInv, SetupInv, EndInv, SendInv, Running
  <2> QED
    BY <1>1, <2>1, <2>2, <2>3, <2>4, Changed
<1> QED
  BY <1>2, <1>3

-----------------------------------------------------------------------------
(* The accept thread, SetEnabled and Stop *)

\* A step that leaves every session alone.
LEMMA SameSessions ==
  ASSUME RtspInv, UNCHANGED <<handler, after, locals, stream, session>>,
         FlagTypes', ListTypes', ListInv', StopInv'
  PROVE  RtspInv'
<1>1. UNCHANGED <<handler, after, request, closing, play, stream, session>>
  BY DEF locals
<1>2. Types'
  BY <1>1 DEF RtspInv, Types, ThreadTypes, LocalTypes, SessionTypes
<1>3. \A s \in Sessions : SessionInv(s)'
  BY <1>1 DEF RtspInv, SessionInv, ReturnInv, QuietInv, SetupInv, EndInv, SendInv
<1> QED
  BY <1>2, <1>3 DEF RtspInv

LEMMA FlagsKeep ==
  ASSUME RtspInv, Accept \/ AcceptFails \/ Enable \/ Disable \/ Stop
  PROVE  RtspInv'
<1>1. /\ UNCHANGED <<handler, after, locals, stream, session>>
      /\ UNCHANGED <<sessions, joinList>>
  BY DEF Accept, AcceptFails, Enable, Disable, Stop
<1>2. FlagTypes'
  BY DEF RtspInv, Types, FlagTypes, Accept, AcceptFails, Enable, Disable, Stop
<1>3. ListTypes'
  BY DEF RtspInv, Types, ListTypes, Accept, AcceptFails, Enable, Disable, Stop
<1>4. ListInv'
  BY <1>1 DEF RtspInv, ListInv, Live
<1>5. StopInv'
  BY DEF RtspInv, StopInv, Accept, AcceptFails, Enable, Disable, Stop
<1> QED
  BY <1>1, <1>2, <1>3, <1>4, <1>5, SameSessions

\* Sessions pass from one list to the other, and off it when their handlers are
\* over.
LEMMA ListsKeep ==
  ASSUME RtspInv, StopTakesSessions \/ StopJoins
  PROVE  RtspInv'
<1>1. /\ UNCHANGED <<handler, after, locals, stream, session>>
      /\ UNCHANGED <<running, enabled, disabling, acceptor>>
  BY DEF StopTakesSessions, StopJoins
<1>2. FlagTypes' /\ ListTypes'
  BY <1>1 DEF RtspInv, Types, FlagTypes, ListTypes, StopTakesSessions, StopJoins
<1>3. ListInv'
  BY <1>1 DEF RtspInv, ListInv, StopInv, Live, StopTakesSessions, StopJoins
<1>4. StopInv'
  BY <1>1 DEF RtspInv, StopInv, StopTakesSessions, StopJoins, AcceptorOver
<1> QED
  BY <1>1, <1>2, <1>3, <1>4, SameSessions

\* An interrupt changes nothing that the sessions' invariant is about.
LEMMA InterruptKeeps ==
  ASSUME RtspInv, NEW S, NEW s \in Sessions,
         session' = [t \in Sessions |-> IF t \in S THEN Interrupted(session[t])
                                        ELSE session[t]],
         UNCHANGED <<handler, after, locals, stream>>
  PROVE  SessionInv(s)' /\ session'[s] \in Records
<1> DEFINE w == session[s]
           x == session'[s]
<1>1. /\ SessionInv(s) /\ w \in Records
      /\ UNCHANGED <<handler, after, play, stream>>
  BY DEF RtspInv, Types, SessionTypes, locals
<1>2. x \in {w, Interrupted(w)}
  OBVIOUS
<1> HIDE DEF x
<1>3. /\ x \in Records /\ x.playing = w.playing /\ x.setup = w.setup
      /\ x.transport = w.transport /\ x.udp = w.udp /\ x.subscriber = w.subscriber
      /\ x.finished = w.finished /\ (x.tcp = "closed" <=> w.tcp = "closed")
  BY <1>1, <1>2, InterruptedFields
<1>4. SessionInv(s)'
  BY <1>1, <1>3 DEF x, SessionInv, ReturnInv, QuietInv, SetupInv, EndInv, SendInv
<1> QED
  BY <1>3, <1>4 DEF x

LEMMA InterruptsKeep ==
  ASSUME RtspInv, DisableInterrupts \/ StopInterrupts
  PROVE  RtspInv'
<1>1. PICK S \in SUBSET Sessions :
        session' = [t \in Sessions |-> IF t \in S THEN Interrupted(session[t])
                                       ELSE session[t]]
  BY DEF RtspInv, Types, ListTypes, DisableInterrupts, StopInterrupts, ToInterrupt
<1>2. /\ UNCHANGED <<running, enabled, sessions, acceptor, joinList>>
      /\ UNCHANGED <<handler, after, locals, stream>>
      /\ disabling' \in BOOLEAN
  BY DEF RtspInv, Types, FlagTypes, DisableInterrupts, StopInterrupts
<1>3. \/ UNCHANGED stopper
      \/ stopper = "interrupt" /\ stopper' = "joinHandlers"
  BY DEF DisableInterrupts, StopInterrupts
<1>4. \A s \in Sessions : SessionInv(s)' /\ session'[s] \in Records
  BY <1>1, <1>2, InterruptKeeps
<1>5. Types'
  BY <1>1, <1>2, <1>3, <1>4
     DEF RtspInv, Types, FlagTypes, ListTypes, ThreadTypes, LocalTypes, SessionTypes, locals
<1>6. ListInv'
  BY <1>2 DEF RtspInv, ListInv, Live
<1>7. StopInv'
  BY <1>2, <1>3 DEF RtspInv, StopInv
<1> QED
  BY <1>4, <1>5, <1>6, <1>7 DEF RtspInv

\* A name that is taken again is that of a session whose threads are over.
LEMMA RegisterKeeps ==
  ASSUME RtspInv, Register
  PROVE  RtspInv'
<1> DEFINE kept == sessions \ Pruned
<1>1. /\ Types /\ acceptor = "accepted"
      /\ acceptor' = IF running THEN "accept" ELSE "done"
      /\ UNCHANGED <<running, enabled, stopper, joinList, disabling, after, request, stream>>
  BY DEF RtspInv, Register
<1>2. \A t \in Sessions : Live(t) => t \in kept \cup joinList
  BY DEF RtspInv, ListInv, SessionInv, EndInv, Pruned, Live
<1>3. stopper \notin {"interrupt", "joinHandlers", "stopped"}
  BY <1>1 DEF RtspInv, StopInv
<1>4. StopInv'
  BY <1>1, <1>3 DEF RtspInv, StopInv
<1>5. CASE sessions' = kept /\ UNCHANGED <<session, handler, closing, play>>
  <2>1. FlagTypes' /\ ListTypes'
    BY <1>1, <1>5 DEF Types, FlagTypes, ListTypes
  <2>2. ListInv'
    BY <1>1, <1>2, <1>5 DEF ListInv, Live
  <2> QED
    BY <1>1, <1>4, <1>5, <2>1, <2>2, SameSessions DEF locals
<1> DEFINE new == [Fresh EXCEPT !.running = TRUE, !.tcp = "up"]
<1>6. ASSUME NEW s \in FreeNames \cup Pruned,
             sessions' = kept \cup {s},
             session' = [session EXCEPT ![s] = new],
             Goto(s, "check"),
             closing' = [closing EXCEPT ![s] = FALSE],
             play' = [play EXCEPT ![s] = FALSE]
      PROVE  RtspInv'
  <2>1. s \in Sessions /\ ~Live(s)
    BY <1>1, <1>6 DEF RtspInv, Types, ListTypes, ListInv, SessionInv, EndInv, FreeNames,
                      Pruned, Live
  <2>2. /\ new \in Records /\ new.playing = FALSE /\ new.setup = FALSE
        /\ new.subscriber = "none" /\ new.finished = FALSE /\ new.tcp = "up"
    BY DEF Fresh, Records
  <2> HIDE DEF new
  <2>3. FlagTypes' /\ ListTypes'
    BY <1>1, <1>6, <2>1 DEF Types, FlagTypes, ListTypes
  <2>4. ThreadTypes' /\ LocalTypes' /\ SessionTypes'
    BY <1>1, <1>6, <2>1, <2>2
       DEF Types, ThreadTypes, LocalTypes, SessionTypes, Goto, HandlerStates
  <2>5. handler'[s] = "check" /\ session'[s] = new /\ ~play'[s]
    BY <1>1, <1>6, <2>1 DEF Types, ThreadTypes, LocalTypes, SessionTypes, Goto
  <2>6. stream[s] = "none" /\ after[s] = "none"
    BY <1>1, <2>1 DEF RtspInv, SessionInv, QuietInv, ReturnInv, Still, Live
  <2>7. SessionInv(s)'
    BY <1>1, <2>2, <2>5, <2>6
       DEF SessionInv, ReturnInv, QuietInv, SetupInv, EndInv, SendInv, Still
  <2>8. Others(s)
    BY <1>1, <1>6, <2>1 DEF Types, ThreadTypes, SessionTypes, Goto, Others
  <2>9. ASSUME NEW t \in Sessions \ {s}
        PROVE  SessionInv(t)' /\ (Live(t)' <=> Live(t))
    <3>1. SessionInv(t)
      BY DEF RtspInv
    <3> QED
      BY <2>8, <3>1 DEF Others, SessionInv, ReturnInv, QuietInv, SetupInv, EndInv, SendInv,
                        Live
  <2>10. ListInv'
    BY <1>1, <1>2, <1>6, <2>9 DEF ListInv
  <2> QED
    BY <1>4, <2>3, <2>4, <2>7, <2>9, <2>10 DEF RtspInv, Types
<1> QED
  BY <1>5, <1>6 DEF Register

-----------------------------------------------------------------------------
(* The theorems *)

LEMMA RtspStart == Init => RtspInv
<1> SUFFICES ASSUME Init PROVE RtspInv
  OBVIOUS
<1>1. FlagTypes /\ ListTypes /\ LocalTypes /\ ListInv /\ StopInv
  BY DEF Init, FlagTypes, ListTypes, LocalTypes, ListInv, StopInv, Live
<1>2. ThreadTypes
  BY DEF Init, ThreadTypes, HandlerStates, AfterStates, StreamStates
<1>3. SessionTypes
  BY DEF Init, SessionTypes, Fresh, Records
<1>4. \A s \in Sessions : SessionInv(s)
  BY DEF Init, SessionInv, ReturnInv, QuietInv, SetupInv, EndInv, SendInv, Fresh
<1> QED
  BY <1>1, <1>2, <1>3, <1>4 DEF RtspInv, Types

LEMMA RtspStep == RtspInv /\ [Next]_vars => RtspInv'
<1> SUFFICES ASSUME RtspInv, [Next]_vars PROVE RtspInv'
  OBVIOUS
<1>1. CASE Accept \/ AcceptFails \/ Enable \/ Disable \/ Stop
  BY <1>1, FlagsKeep
<1>2. CASE Register
  BY <1>2, RegisterKeeps
<1>3. ASSUME NEW s \in Sessions, Handler(s) \/ Receive(s) \/ GiveUp(s)
      PROVE  RtspInv'
  <2>1. CASE Check(s) \/ Wait(s) \/ Receive(s) \/ GiveUp(s)
    BY <2>1, LoopKeeps
  <2>2. CASE Process(s)
    BY <2>2, ProcessKeeps
  <2>3. CASE Setup(s)
    BY <2>3, SetupKeeps
  <2>4. CASE Respond(s) \/ Sent(s) \/ Answered(s)
    BY <2>4, AnswerKeeps, SentKeeps
  <2>5. CASE StartStream(s)
    BY <2>5, StartStreamKeeps
  <2>6. CASE StopStream(s)
    BY <2>6, StopStreamKeeps
  <2>7. CASE JoinStream(s)
    BY <2>7, JoinStreamKeeps
  <2>8. CASE Exit(s)
    BY <2>8, ExitKeeps
  <2>9. CASE Close(s)
    BY <2>9, CloseKeeps
  <2> QED
    BY <1>3, <2>1, <2>2, <2>3, <2>4, <2>5, <2>6, <2>7, <2>8, <2>9 DEF Handler
<1>4. ASSUME NEW s \in Sessions, Stream(s)
      PROVE  RtspInv'
  BY <1>4, StreamMovesKeeps, StreamWritesKeeps DEF Stream
<1>5. CASE StopTakesSessions \/ StopJoins
  BY <1>5, ListsKeep
<1>6. CASE DisableInterrupts \/ StopInterrupts
  BY <1>6, InterruptsKeep
<1>7. CASE UNCHANGED vars
  <2>1. /\ UNCHANGED <<handler, after, locals, stream, session>>
        /\ UNCHANGED <<running, enabled, sessions, acceptor, stopper, joinList, disabling>>
    BY <1>7 DEF vars, locals
  <2> QED
    BY <2>1, SameSessions
       DEF RtspInv, Types, FlagTypes, ListTypes, ListInv, StopInv, Live
<1> QED
  BY <1>1, <1>2, <1>3, <1>4, <1>5, <1>6, <1>7 DEF Next, Stopper

\* The inductive invariant holds in every reachable state.
THEOREM RtspInvariant == Spec => []RtspInv
<1> QED
  BY RtspStart, RtspStep, PTL DEF Spec

\* Every variable stays in its type, and no session is in both lists.
THEOREM RtspTypes == Spec => []TypeOK
<1>1. ASSUME RtspInv PROVE TypeOK
  <2>1. joinList \subseteq Sessions \ sessions
    BY <1>1 DEF RtspInv, Types, ListTypes, StopInv
  <2> QED
    BY <1>1, <2>1 DEF RtspInv, Types, FlagTypes, ListTypes, ThreadTypes, LocalTypes,
                SessionTypes, Records, AfterStates, TypeOK
<1> QED
  BY <1>1, RtspInvariant, PTL

\* A stream thread never meets a closed socket or a missing subscriber, and
\* isPlaying is never left set without a stream.
THEOREM StreamsKeepTheirResources == Spec => []StreamHasItsResources
<1>1. ASSUME RtspInv PROVE StreamHasItsResources
  <2> SUFFICES ASSUME NEW s \in Sessions
               PROVE  /\ Streaming(s) => /\ session[s].setup
                                         /\ session[s].subscriber # "none"
                                         /\ session[s].tcp # "closed"
                                         /\ session[s].transport = "udp" => session[s].udp
                      /\ session[s].playing => Streaming(s) \/ handler[s] \in {"exit", "stop"}
    BY DEF StreamHasItsResources
  <2>1. SessionInv(s)
    BY <1>1 DEF RtspInv
  <2>2. Streaming(s) => handler[s] # "done"
    BY <2>1 DEF SessionInv, QuietInv, Still, Streaming
  <2>3. Streaming(s) => /\ session[s].setup /\ session[s].subscriber # "none"
                        /\ session[s].tcp # "closed"
                        /\ session[s].transport = "udp" => session[s].udp
    BY <2>1, <2>2 DEF SessionInv, SetupInv, EndInv, Streaming
  <2>4. session[s].playing => Streaming(s) \/ handler[s] \in {"exit", "stop"}
    BY <2>1 DEF SessionInv, QuietInv, Streaming
  <2> QED
    BY <2>3, <2>4
<1> QED
  BY <1>1, RtspInvariant, PTL

\* Every running handler is in a list it is joined from, and a finished session
\* has given back all it had.
THEOREM EveryHandlerIsListed == Spec => []NoStrayHandler
<1>1. ASSUME RtspInv, NEW s \in Sessions, session[s].finished
      PROVE  /\ ~Streaming(s) /\ session[s].subscriber = "none"
             /\ session[s].tcp = "closed" /\ ~session[s].udp
  BY <1>1 DEF RtspInv, SessionInv, QuietInv, EndInv, Still, Streaming
<1>2. RtspInv => NoStrayHandler
  BY <1>1 DEF RtspInv, ListInv, NoStrayHandler
<1> QED
  BY <1>2, RtspInvariant, PTL

\* When Stop has returned there is no thread, no session and no subscriber.
THEOREM StopLeavesNothing == Spec => []StoppedIsQuiet
<1>1. ASSUME RtspInv, stopper = "stopped"
      PROVE  /\ acceptor = "done" /\ sessions = {}
             /\ \A s \in Sessions : ~Live(s) /\ ~Streaming(s)
                                    /\ session[s].subscriber = "none"
  <2>1. acceptor = "done" /\ sessions = {} /\ joinList = {}
    BY <1>1 DEF RtspInv, StopInv
  <2>2. \A s \in Sessions : ~Live(s)
    BY <1>1, <2>1 DEF RtspInv, ListInv
  <2> QED
    BY <1>1, <2>1, <2>2 DEF RtspInv, SessionInv, QuietInv, Still, Live, Streaming
<1>2. RtspInv => StoppedIsQuiet
  BY <1>1 DEF StoppedIsQuiet
<1> QED
  BY <1>2, RtspInvariant, PTL

-----------------------------------------------------------------------------
(* Why the joins end *)

\* A stream that is waited for has been told to end and has nothing to wait for.
Told(s) == handler[s] = "join" =>
             ~session[s].playing /\ session[s].subscriber # "open"

\* A session that was interrupted: its loops end, and its connection is dead.
Ended(s) == ~session[s].running /\ session[s].tcp # "up"

WaitInv ==
  /\ \A s \in Sessions : Told(s)
  /\ \A s \in sessions \cup joinList : handler[s] # "none"
  /\ stopper = "joinHandlers" => \A s \in joinList : Ended(s)

\* A handler joins a stream whose loop test fails and whose PopData returns at
\* once; Stop joins handlers that have begun, whose loop tests fail and whose
\* connections are shut down.
JoinsAreAnswered ==
  /\ \A s \in Sessions :
       handler[s] = "join" => ~GoesOn(s) /\ session[s].subscriber # "open"
  /\ stopper = "joinHandlers" =>
       \A s \in joinList : handler[s] # "none" /\ ~MayRun(s) /\ session[s].tcp # "up"

LEMMA WaitOne ==
  ASSUME RtspInv, WaitInv, NEW s \in Sessions, UNCHANGED server, Others(s),
         Told(s)', Ended(s) => Ended(s)',
         handler[s] # "none" => handler'[s] # "none"
  PROVE  WaitInv'
<1>1. UNCHANGED <<sessions, joinList, stopper>>
  BY DEF server
<1>2. \A t \in Sessions \ {s} : /\ handler'[t] = handler[t] /\ session'[t] = session[t]
                                /\ Told(t)' /\ (Ended(t) => Ended(t)')
  BY DEF WaitInv, Others, Told, Ended
<1>3. sessions \subseteq Sessions /\ joinList \subseteq Sessions
  BY DEF RtspInv, Types, ListTypes
<1> QED
  BY <1>1, <1>2, <1>3 DEF WaitInv

\* The handler's steps: only StopStream leads into the join, and no step turns
\* the session on again.
LEMMA WaitHandler ==
  ASSUME RtspInv, WaitInv, NEW s \in Sessions, Handler(s) \/ Receive(s) \/ GiveUp(s)
  PROVE  WaitInv'
<1> DEFINE w == session[s]
<1>1. Types /\ w \in Records /\ UNCHANGED server /\ SessionInv(s)
  BY DEF RtspInv, Types, SessionTypes, Handler, Receive, GiveUp, Check, Wait, Process,
         Setup, Respond, Sent, Answered, StartStream, StopStream, JoinStream, Exit, Close
<1> USE DEF Types, ThreadTypes, LocalTypes, SessionTypes, Goto, CallStop
<1>2. CASE Check(s) \/ Wait(s) \/ Receive(s) \/ GiveUp(s) \/ Respond(s)
           \/ Answered(s)
  <2>1. UNCHANGED <<session, stream>> /\ handler'[s] \notin {"join", "none"} /\ Others(s)
    BY <1>1, <1>2 DEF Check, Wait, Receive, GiveUp, Respond, Answered, locals, Others
  <2> QED
    BY <1>1, <2>1, WaitOne DEF Told, Ended
<1>3. CASE Process(s)
  <2>1. UNCHANGED <<session, stream>> /\ handler'[s] \notin {"join", "none"} /\ Others(s)
    BY <1>1, <1>3 DEF Process, Others
  <2> QED
    BY <1>1, <2>1, WaitOne DEF Told, Ended
<1>4. CASE StopStream(s)
  <2>1. /\ session'[s].playing = FALSE /\ session'[s].subscriber # "open"
        /\ session'[s].running = w.running /\ session'[s].tcp = w.tcp
        /\ handler'[s] = "join" /\ Others(s)
    BY <1>1, <1>4, Fields DEF StopStream, locals, Others
  <2> QED
    BY <1>1, <2>1, WaitOne DEF Told, Ended
<1>5. CASE JoinStream(s)
  <2>1. /\ session'[s].running = w.running /\ session'[s].tcp = w.tcp
        /\ handler'[s] = after[s] /\ after[s] \in AfterStates \ {"none"} /\ Others(s)
    BY <1>1, <1>5, Fields DEF JoinStream, StreamGoto, locals, Others, SessionInv, ReturnInv
  <2> QED
    BY <1>1, <2>1, WaitOne DEF Told, Ended, AfterStates
<1>6. CASE Setup(s)
  <2>1. /\ session'[s].running = w.running /\ session'[s].tcp = w.tcp
        /\ handler'[s] = "respond" /\ Others(s)
    BY <1>1, <1>6, Fields DEF Setup, Others
  <2> QED
    BY <1>1, <2>1, WaitOne DEF Told, Ended
<1>7. CASE StartStream(s)
  <2>1. /\ session'[s].running = w.running /\ session'[s].tcp = w.tcp
        /\ handler'[s] \in {"check", "exit"} /\ Others(s)
    BY <1>1, <1>7, Fields DEF StartStream, StreamGoto, locals, Others
  <2> QED
    BY <1>1, <2>1, WaitOne DEF Told, Ended
<1>8. CASE Exit(s)
  <2>1. /\ session'[s] = Interrupted(w) /\ handler'[s] = "stop" /\ Others(s)
    BY <1>1, <1>8 DEF Exit, ExitsThrough, locals, Others
  <2>2. Ended(s)'
    BY <1>1, <2>1, Fields DEF Interrupted, Ended
  <2> QED
    BY <1>1, <2>1, <2>2, WaitOne DEF Told
<1>9. CASE Close(s)
  <2>1. /\ session'[s].running = w.running /\ session'[s].tcp = "closed"
        /\ handler'[s] = "done" /\ Others(s)
    BY <1>1, <1>9, Fields DEF Close, locals, Others
  <2> QED
    BY <1>1, <2>1, WaitOne DEF Told, Ended
<1>10. CASE Sent(s)
  <2>1. session'[s].running = w.running /\ session'[s].tcp = w.tcp
    <3>1. PICK x \in Records :
            /\ session' = [session EXCEPT ![s] = x]
            /\ \/ x = w
               \/ \E rest \in {"whole", "response"} :
                    x = [w EXCEPT !.wire = Then(w.wire, rest)]
      BY <1>1, <1>10, SentWrites DEF SentFields
    <3> QED
      BY <1>1, <3>1, WireFields
  <2>2. handler'[s] = "answered" /\ Others(s)
    BY <1>1, <1>10 DEF Sent, Others
  <2> QED
    BY <1>1, <2>1, <2>2, WaitOne DEF Told, Ended
<1> QED
  BY <1>2, <1>3, <1>4, <1>5, <1>6, <1>7, <1>8, <1>9, <1>10 DEF Handler

\* The stream's steps take isPlaying and the session's flag away only.
LEMMA WaitStream ==
  ASSUME RtspInv, WaitInv, NEW s \in Sessions, Stream(s)
  PROVE  WaitInv'
<1> DEFINE w == session[s]
<1>1. /\ Types /\ w \in Records /\ UNCHANGED <<server, handler, after, locals>> /\ Told(s)
  BY DEF RtspInv, WaitInv, Types, SessionTypes, Stream, StreamTest, StreamPop, StreamSend,
         StreamLock, StreamPart, StreamSent, StreamEnd
<1> USE DEF Types, ThreadTypes, SessionTypes, StreamGoto
<1>2. CASE StreamTest(s) \/ StreamPop(s) \/ StreamSend(s) \/ StreamLock(s)
  <2>1. UNCHANGED session /\ Others(s)
    BY <1>1, <1>2 DEF StreamTest, StreamPop, StreamSend, StreamLock, locals, Others
  <2> QED
    BY <1>1, <2>1, WaitOne DEF Told, Ended
<1>3. CASE StreamPart(s) \/ StreamSent(s)
  <2>1. Others(s)
    BY <1>1, <1>3 DEF StreamPart, StreamSent, locals, Others
  <2>2. /\ session'[s].running = w.running \/ ~session'[s].running
        /\ session'[s].tcp = w.tcp /\ session'[s].playing = w.playing
        /\ session'[s].subscriber = w.subscriber
    <3>1. CASE StreamPart(s)
      BY <1>1, <3>1, WireFields DEF StreamPart
    <3>2. CASE StreamSent(s)
      <4>1. PICK x \in Records :
              /\ session' = [session EXCEPT ![s] = x]
              /\ x \in {w, SessionOver(w), [w EXCEPT !.wire = "whole"],
                        [w EXCEPT !.wire = Then(w.wire, "whole")]}
        BY <1>1, <3>2, FrameWrites DEF FrameFields
      <4> QED
        BY <1>1, <4>1, Fields DEF SessionOver
    <3> QED
      BY <1>3, <3>1, <3>2
  <2> QED
    BY <1>1, <2>1, <2>2, WaitOne DEF Told, Ended
<1>4. CASE StreamEnd(s)
  <2>1. /\ session'[s] = [w EXCEPT !.playing = FALSE] /\ Others(s)
    BY <1>1, <1>4 DEF StreamEnd, locals, Others
  <2> QED
    BY <1>1, <2>1, WaitOne, Fields DEF Told, Ended
<1> QED
  BY <1>2, <1>3, <1>4 DEF Stream

LEMMA WaitRegister ==
  ASSUME RtspInv, WaitInv, Register
  PROVE  WaitInv'
<1> DEFINE kept == sessions \ Pruned
<1>1. /\ Types /\ acceptor = "accepted" /\ stopper # "joinHandlers"
      /\ UNCHANGED <<stopper, joinList>>
  BY DEF RtspInv, StopInv, Register
<1>2. CASE sessions' = kept /\ UNCHANGED <<session, handler>>
  BY <1>1, <1>2 DEF WaitInv, Told
<1>3. ASSUME NEW s \in FreeNames \cup Pruned, sessions' = kept \cup {s},
             session' = [session EXCEPT ![s] = [Fresh EXCEPT !.running = TRUE, !.tcp = "up"]],
             Goto(s, "check")
      PROVE  WaitInv'
  <2>1. s \in Sessions
    BY <1>1, <1>3 DEF Types, ListTypes, FreeNames, Pruned
  <2>2. handler'[s] = "check"
    BY <1>1, <1>3, <2>1 DEF Types, ThreadTypes, Goto
  <2>3. \A t \in Sessions \ {s} : handler'[t] = handler[t] /\ session'[t] = session[t]
    BY <1>1, <1>3, <2>1 DEF Types, ThreadTypes, SessionTypes, Goto
  <2>4. sessions \subseteq Sessions /\ joinList \subseteq Sessions
    BY <1>1 DEF Types, ListTypes
  <2> QED
    BY <1>1, <1>3, <2>1, <2>2, <2>3, <2>4 DEF WaitInv, Told
<1> QED
  BY <1>2, <1>3 DEF Register

\* An interrupt ends a session, and never turns one on.
LEMMA WaitInterrupts ==
  ASSUME RtspInv, WaitInv, DisableInterrupts \/ StopInterrupts
  PROVE  WaitInv'
<1>1. PICK S \in SUBSET Sessions :
        /\ session' = [t \in Sessions |-> IF t \in S THEN Interrupted(session[t])
                                          ELSE session[t]]
        /\ StopInterrupts => S = joinList
  BY DEF RtspInv, Types, ListTypes, StopInv, DisableInterrupts, StopInterrupts, ToInterrupt
<1>2. /\ UNCHANGED <<sessions, joinList, handler>>
      /\ joinList \subseteq Sessions
      /\ stopper' = "joinHandlers" => StopInterrupts \/ stopper = "joinHandlers"
  BY DEF RtspInv, Types, ListTypes, DisableInterrupts, StopInterrupts
<1>3. ASSUME NEW t \in Sessions
      PROVE  /\ Told(t)' /\ (Ended(t) => Ended(t)') /\ (t \in S => Ended(t)')
  <2>1. session[t] \in Records /\ Told(t)
    BY DEF RtspInv, Types, SessionTypes, WaitInv
  <2>2. session'[t] = IF t \in S THEN Interrupted(session[t]) ELSE session[t]
    BY <1>1
  <2>3. /\ Interrupted(session[t]).running = FALSE /\ Interrupted(session[t]).tcp # "up"
        /\ Interrupted(session[t]).playing = session[t].playing
        /\ Interrupted(session[t]).subscriber = session[t].subscriber
    BY <2>1, Fields DEF Interrupted
  <2> QED
    BY <1>2, <2>1, <2>2, <2>3 DEF Told, Ended
<1> QED
  BY <1>1, <1>2, <1>3 DEF WaitInv

LEMMA WaitStep == RtspInv /\ WaitInv /\ [Next]_vars => WaitInv'
<1> SUFFICES ASSUME RtspInv, WaitInv, [Next]_vars PROVE WaitInv'
  OBVIOUS
<1>1. CASE Accept \/ AcceptFails \/ Enable \/ Disable \/ Stop
  <2>1. UNCHANGED <<handler, session, sessions, joinList>>
    BY <1>1 DEF Accept, AcceptFails, Enable, Disable, Stop
  <2>2. stopper' = "joinHandlers" => stopper = "joinHandlers"
    BY <1>1 DEF Accept, AcceptFails, Enable, Disable, Stop
  <2> QED
    BY <2>1, <2>2 DEF WaitInv, Told, Ended
<1>2. CASE StopTakesSessions \/ StopJoins
  <2>1. /\ UNCHANGED <<handler, session>> /\ stopper' # "joinHandlers"
        /\ sessions' \cup joinList' \subseteq sessions \cup joinList
    BY <1>2 DEF StopTakesSessions, StopJoins
  <2> QED
    BY <2>1 DEF WaitInv, Told
<1>3. CASE UNCHANGED vars
  BY <1>3 DEF vars, WaitInv, Told, Ended
<1> QED
  BY <1>1, <1>2, <1>3, WaitRegister, WaitHandler, WaitStream, WaitInterrupts
     DEF Next, Stopper

\* The safety half of StopReturns and RequestsAnswered: no join waits for a
\* thread that has not been told to end or that a client can hold up.
THEOREM EveryJoinIsAnswered == Spec => []JoinsAreAnswered
<1>1. Init => WaitInv
  BY DEF Init, WaitInv, Told
<1>2. ASSUME RtspInv, WaitInv PROVE JoinsAreAnswered
  BY <1>2 DEF RtspInv, Types, ListTypes, WaitInv, JoinsAreAnswered, Told, Ended,
              GoesOn, MayRun
<1> QED
  BY <1>1, <1>2, WaitStep, RtspInvariant, PTL DEF Spec

-----------------------------------------------------------------------------
(* What goes out on the connection *)

\* Where a cut message can be: a frame while it is being sent, or in a session that
\* ends; a cut response or a mixed one only behind the last answer.
WireOne(s) ==
  /\ session[s].wire = "frame" => stream[s] = "sending" \/ ~MayRun(s)
  /\ session[s].wire \in {"response", "mixed"} =>
       (~MayRun(s) \/ closing[s]) /\ ~Answering(s)

WireInv == \A s \in Sessions : WireOne(s)

\* A session whose threads stand still, and which may only be told to end.
LEMMA WireStays ==
  ASSUME NEW s \in Sessions, WireOne(s), MayRun(s)' => MayRun(s),
         session'[s].wire = session[s].wire,
         handler'[s] = handler[s], after'[s] = after[s], stream'[s] = stream[s],
         closing'[s] = closing[s]
  PROVE  WireOne(s)'
BY DEF WireOne, Answering

OthersClosing(s) == \A t \in Sessions \ {s} : closing'[t] = closing[t]

LEMMA WireOthers ==
  ASSUME WireInv, NEW s \in Sessions, UNCHANGED running, Others(s), OthersClosing(s),
         WireOne(s)'
  PROVE  WireInv'
<1>1. ASSUME NEW t \in Sessions \ {s} PROVE WireOne(t)'
  <2>1. WireOne(t) /\ MayRun(t)' = MayRun(t)
    BY DEF WireInv, MayRun, Others
  <2> QED
    BY <2>1, WireStays DEF Others, OthersClosing
<1> QED
  BY <1>1 DEF WireInv

\* The loop and the answers: after a cut or mixed message the handler is on none of
\* these steps but the test of its loop, which fails, and the way out.
LEMMA WireAnswers ==
  ASSUME RtspInv, WireInv, NEW s \in Sessions,
         \/ Check(s) \/ Wait(s) \/ Receive(s) \/ GiveUp(s) \/ Process(s)
         \/ Respond(s) \/ Answered(s)
  PROVE  WireInv'
<1>1. /\ Types /\ SessionInv(s) /\ WireOne(s)
      /\ UNCHANGED <<server, stream, session>> /\ UNCHANGED running
  BY DEF RtspInv, WireInv, Check, Wait, Receive, GiveUp, Process, Respond, Answered,
         locals, server
<1> USE DEF Types, ThreadTypes, LocalTypes, Goto, CallStop
<1>2. Others(s) /\ OthersClosing(s)
  BY <1>1 DEF Check, Wait, Receive, GiveUp, Process, Respond, Answered, locals, Others,
              OthersClosing
<1>3. MayRun(s)' = MayRun(s)
  BY <1>1 DEF MayRun
<1>4. CASE Check(s)
  <2>1. /\ UNCHANGED <<after, closing>>
        /\ handler'[s] \in {"wait", "process"} => MayRun(s) /\ ~closing[s]
        /\ handler'[s] \in {"wait", "process", "exit"}
    BY <1>1, <1>4 DEF Check
  <2>2. WireOne(s)'
    BY <1>1, <1>3, <1>4, <2>1 DEF WireOne, Answering, Check
  <2> QED
    BY <1>1, <1>2, <2>2, WireOthers
<1>5. CASE Answered(s)
  <2>1. /\ UNCHANGED closing /\ handler[s] = "answered"
        /\ \/ handler'[s] = "check" /\ after'[s] = after[s]
           \/ handler'[s] = "stop" /\ after'[s] = "start"
    BY <1>1, <1>5 DEF Answered
  <2>2. WireOne(s)'
    BY <1>1, <1>3, <2>1 DEF WireOne, Answering
  <2> QED
    BY <1>1, <1>2, <2>2, WireOthers
<1>6. CASE Wait(s) \/ Receive(s) \/ GiveUp(s) \/ Process(s) \/ Respond(s)
  <2>1. Answering(s)
    BY <1>6 DEF Answering, Wait, Receive, GiveUp, Process, Respond
  <2>2. session[s].wire \notin {"response", "mixed"}
    BY <1>1, <2>1 DEF WireOne
  <2>3. WireOne(s)'
    BY <1>1, <1>3, <2>2 DEF WireOne
  <2> QED
    BY <1>1, <1>2, <2>3, WireOthers
<1> QED
  BY <1>4, <1>5, <1>6

\* A response that is sent is the last one if it was cut, or goes behind a frame
\* that was.
LEMMA WireSent ==
  ASSUME RtspInv, WireInv, NEW s \in Sessions, Sent(s)
  PROVE  WireInv'
<1> DEFINE w == session[s]
<1>1. /\ Types /\ SessionInv(s) /\ WireOne(s) /\ w \in Records
      /\ handler[s] = "sending"
      /\ UNCHANGED <<server, after, request, play, stream>> /\ UNCHANGED running
  BY DEF RtspInv, WireInv, Types, SessionTypes, Sent, server
<1> USE DEF Types, ThreadTypes, LocalTypes, SessionTypes, Goto
<1>2. /\ handler'[s] = "answered" /\ closing'[s] \in BOOLEAN
      /\ Others(s) /\ OthersClosing(s)
  BY <1>1 DEF Sent, Others, OthersClosing
<1>3. after[s] = "none" /\ stream[s] # "sending"
  BY <1>1 DEF SessionInv, ReturnInv, SendInv
<1>4. w.wire \in {"whole", "frame"} /\ (w.wire = "frame" => ~MayRun(s))
  BY <1>1, <1>3, Fields DEF WireOne, Answering
<1>5. PICK x \in Records :
        /\ session' = [session EXCEPT ![s] = x]
        /\ \/ x = w /\ closing'[s]
           \/ /\ \E rest \in {"whole", "response"} :
                   /\ x = [w EXCEPT !.wire = Then(w.wire, rest)]
                   /\ rest = "response" => closing'[s]
  BY <1>1, SentWrites DEF SentFields
<1>6. session'[s] = x /\ x.running = w.running
  BY <1>1, <1>5, WireFields
<1>7. MayRun(s)' = MayRun(s)
  BY <1>1, <1>6 DEF MayRun
<1>8. \/ x.wire = w.wire
      \/ x.wire = "whole"
      \/ x.wire = "response" /\ closing'[s]
      \/ x.wire = "mixed" /\ ~MayRun(s)
  BY <1>1, <1>4, <1>5, WireFields DEF Then
<1>9. WireOne(s)'
  BY <1>1, <1>2, <1>3, <1>4, <1>6, <1>7, <1>8 DEF WireOne, Answering
<1> QED
  BY <1>1, <1>2, <1>9, WireOthers

\* The way through StopStream and out: it leads back to an answer only if it came
\* from a request, before which nothing was cut.
LEMMA WireStops ==
  ASSUME RtspInv, WireInv, NEW s \in Sessions,
         \/ Setup(s) \/ StartStream(s) \/ StopStream(s) \/ JoinStream(s)
         \/ Exit(s) \/ Close(s)
  PROVE  WireInv'
<1> DEFINE w == session[s]
<1>1. /\ Types /\ SessionInv(s) /\ WireOne(s) /\ w \in Records
      /\ UNCHANGED <<server, closing>> /\ UNCHANGED running
  BY DEF RtspInv, WireInv, Types, SessionTypes, Setup, StartStream, StopStream,
         JoinStream, Exit, Close, locals, server
<1> USE DEF Types, ThreadTypes, SessionTypes, Goto, StreamGoto, CallStop
<1>2. Others(s) /\ OthersClosing(s)
  BY <1>1 DEF Setup, StartStream, StopStream, JoinStream, Exit, ExitsThrough, Close,
              locals, Others, OthersClosing
<1>3. CASE Setup(s)
  <2>1. /\ session'[s].wire = w.wire /\ session'[s].running = w.running
        /\ UNCHANGED stream /\ handler[s] = "setup"
    BY <1>1, <1>3, Fields DEF Setup
  <2>2. w.wire \notin {"response", "mixed"}
    BY <1>1, <2>1 DEF WireOne, Answering
  <2>3. WireOne(s)'
    BY <1>1, <2>1, <2>2 DEF WireOne, MayRun
  <2> QED
    BY <1>1, <1>2, <2>3, WireOthers
<1>4. CASE StartStream(s)
  <2>1. /\ session'[s].wire = w.wire /\ session'[s].running = w.running
        /\ handler[s] = "start" /\ handler'[s] \in {"check", "exit"} /\ UNCHANGED after
    BY <1>1, <1>4, Fields DEF StartStream
  <2>2. stream[s] = "none"
    BY <1>1, <2>1 DEF SessionInv, QuietInv, Still
  <2>3. WireOne(s)'
    BY <1>1, <2>1, <2>2 DEF WireOne, MayRun, Answering
  <2> QED
    BY <1>1, <1>2, <2>3, WireOthers
<1>5. CASE StopStream(s)
  <2>1. /\ session'[s].wire = w.wire /\ session'[s].running = w.running
        /\ handler'[s] = "join" /\ UNCHANGED <<after, stream>>
    BY <1>1, <1>5, Fields DEF StopStream
  <2>2. WireOne(s)'
    BY <1>1, <2>1 DEF WireOne, MayRun, Answering
  <2> QED
    BY <1>1, <1>2, <2>2, WireOthers
<1>6. CASE JoinStream(s)
  <2>1. /\ session'[s].wire = w.wire /\ session'[s].running = w.running
        /\ handler'[s] = after[s] /\ after'[s] = "none" /\ stream[s] # "sending"
        /\ handler[s] = "join"
    BY <1>1, <1>6, Fields DEF JoinStream, StreamOver
  <2>2. after[s] \in {"setup", "respond", "start", "close"}
    BY <1>1, <2>1 DEF SessionInv, ReturnInv, AfterStates
  <2>3. WireOne(s)'
    BY <1>1, <2>1, <2>2 DEF WireOne, MayRun, Answering
  <2> QED
    BY <1>1, <1>2, <2>3, WireOthers
<1>7. CASE Exit(s)
  <2>1. /\ session'[s] = Interrupted(w) /\ handler'[s] = "stop" /\ after'[s] = "close"
        /\ UNCHANGED stream
    BY <1>1, <1>7 DEF Exit, ExitsThrough
  <2>2. session'[s].wire = w.wire /\ ~session'[s].running
    BY <1>1, <2>1, InterruptedFields
  <2>3. WireOne(s)'
    BY <1>1, <2>1, <2>2 DEF WireOne, MayRun, Answering
  <2> QED
    BY <1>1, <1>2, <2>3, WireOthers
<1>8. CASE Close(s)
  <2>1. session'[s].wire = "whole"
    BY <1>1, <1>8, Fields DEF Close
  <2> QED
    BY <1>1, <1>2, <2>1, WireOthers DEF WireOne
<1> QED
  BY <1>3, <1>4, <1>5, <1>6, <1>7, <1>8

\* A frame is begun, finished, or given up in a session that ends.
LEMMA WireStream ==
  ASSUME RtspInv, WireInv, NEW s \in Sessions, Stream(s)
  PROVE  WireInv'
<1> DEFINE w == session[s]
<1>1. /\ Types /\ SessionInv(s) /\ WireOne(s) /\ w \in Records
      /\ UNCHANGED <<server, handler, after, closing, play>> /\ UNCHANGED running
  BY DEF RtspInv, WireInv, Types, SessionTypes, Stream, StreamTest, StreamPop, StreamSend,
         StreamLock, StreamPart, StreamSent, StreamEnd, locals, server
<1> USE DEF Types, ThreadTypes, SessionTypes, StreamGoto
<1>2. Others(s) /\ OthersClosing(s)
  BY <1>1 DEF Stream, StreamTest, StreamPop, StreamSend, StreamLock, StreamPart,
              StreamSent, StreamEnd, locals, Others, OthersClosing
<1>3. CASE StreamTest(s) \/ StreamPop(s) \/ StreamSend(s) \/ StreamLock(s)
  <2>1. UNCHANGED session /\ stream[s] # "sending"
    BY <1>3 DEF StreamTest, StreamPop, StreamSend, StreamLock
  <2>2. WireOne(s)'
    BY <1>1, <2>1 DEF WireOne, MayRun, Answering
  <2> QED
    BY <1>1, <1>2, <2>2, WireOthers
<1>4. CASE StreamPart(s)
  <2>1. /\ session' = [session EXCEPT ![s] = [w EXCEPT !.wire = Then(w.wire, "frame")]]
        /\ w.wire # "frame" /\ stream[s] = "sending" /\ UNCHANGED stream
    BY <1>4 DEF StreamPart
  <2>2. session'[s].wire = Then(w.wire, "frame") /\ session'[s].running = w.running
    BY <1>1, <2>1, WireFields
  <2>3. WireOne(s)'
    BY <1>1, <2>1, <2>2, Fields DEF WireOne, MayRun, Answering, Then
  <2> QED
    BY <1>1, <1>2, <2>3, WireOthers
<1>5. CASE StreamSent(s)
  <2>1. PICK x \in Records :
          /\ session' = [session EXCEPT ![s] = x]
          /\ \/ x = w /\ ~MayRun(s)
             \/ x = SessionOver(w)
             \/ x = [w EXCEPT !.wire = "whole"] /\ w.wire = "frame"
             \/ x = [w EXCEPT !.wire = Then(w.wire, "whole")] /\ w.wire # "frame"
    BY <1>1, <1>5, FrameWrites DEF FrameFields
  <2>2. \/ x = w /\ ~MayRun(s)
        \/ x.wire = w.wire /\ ~x.running
        \/ x.wire = "whole"
        \/ x.wire = "mixed" /\ w.wire \in {"response", "mixed"} /\ x.running = w.running
    BY <1>1, <2>1, Fields DEF SessionOver, Then
  <2>3. session'[s] = x
    BY <1>1, <2>1
  <2>4. WireOne(s)'
    BY <1>1, <2>2, <2>3 DEF WireOne, MayRun, Answering
  <2> QED
    BY <1>1, <1>2, <2>4, WireOthers
<1>6. CASE StreamEnd(s)
  <2>1. /\ session'[s].wire = w.wire /\ session'[s].running = w.running
        /\ stream[s] # "sending"
    BY <1>1, <1>6, Fields DEF StreamEnd
  <2>2. WireOne(s)'
    BY <1>1, <2>1 DEF WireOne, MayRun, Answering
  <2> QED
    BY <1>1, <1>2, <2>2, WireOthers
<1> QED
  BY <1>3, <1>4, <1>5, <1>6 DEF Stream

LEMMA WireStep == RtspInv /\ WireInv /\ [Next]_vars => WireInv'
<1> SUFFICES ASSUME RtspInv, WireInv, [Next]_vars PROVE WireInv'
  OBVIOUS
<1>1. CASE Accept \/ AcceptFails \/ Enable \/ Disable \/ Stop \/ StopTakesSessions
           \/ StopJoins \/ UNCHANGED vars
  <2>1. /\ UNCHANGED <<handler, after, closing, stream, session>>
        /\ running' => running
    BY <1>1 DEF Accept, AcceptFails, Enable, Disable, Stop, StopTakesSessions,
                StopJoins, vars, locals
  <2>2. \A s \in Sessions : WireOne(s) /\ (MayRun(s)' => MayRun(s))
    BY <2>1 DEF WireInv, MayRun
  <2>3. \A s \in Sessions : WireOne(s)'
    BY <2>1, <2>2, WireStays
  <2> QED
    BY <2>3 DEF WireInv
<1>2. CASE Register
  <2>1. Types /\ UNCHANGED <<running, after, stream>>
    BY <1>2 DEF RtspInv, Register
  <2>2. ASSUME NEW s \in Sessions PROVE WireOne(s)'
    <3>1. \/ /\ session'[s] = session[s] /\ handler'[s] = handler[s]
             /\ closing'[s] = closing[s]
          \/ session'[s] = [Fresh EXCEPT !.running = TRUE, !.tcp = "up"]
      BY <1>2, <2>1
         DEF Register, Goto, Types, ListTypes, ThreadTypes, LocalTypes, SessionTypes,
             FreeNames, Pruned
    <3>2. CASE session'[s] = [Fresh EXCEPT !.running = TRUE, !.tcp = "up"]
      BY <3>2 DEF Fresh, WireOne
    <3>3. CASE session'[s] = session[s] /\ handler'[s] = handler[s]
               /\ closing'[s] = closing[s]
      BY <2>1, <3>3, WireStays DEF WireInv, MayRun
    <3> QED
      BY <3>1, <3>2, <3>3
  <2> QED
    BY <2>2 DEF WireInv
<1>3. CASE DisableInterrupts \/ StopInterrupts
  <2>1. /\ UNCHANGED <<running, handler, after, locals, stream>>
        /\ \E S \in SUBSET Sessions :
             session' = [t \in Sessions |-> IF t \in S THEN Interrupted(session[t])
                                            ELSE session[t]]
    BY <1>3 DEF RtspInv, Types, ListTypes, DisableInterrupts, StopInterrupts, ToInterrupt
  <2>2. ASSUME NEW s \in Sessions PROVE WireOne(s)'
    <3>1. WireOne(s) /\ session[s] \in Records
      BY DEF WireInv, RtspInv, Types, SessionTypes
    <3>2. session'[s] = session[s] \/ session'[s] = Interrupted(session[s])
      BY <2>1
    <3>3. session'[s].wire = session[s].wire /\ (session'[s].running => session[s].running)
      BY <3>1, <3>2, InterruptedFields
    <3>4. MayRun(s)' => MayRun(s)
      BY <2>1, <3>3 DEF MayRun
    <3> QED
      BY <2>1, <3>1, <3>3, <3>4, WireStays DEF locals
  <2> QED
    BY <2>2 DEF WireInv
<1> QED
  BY <1>1, <1>2, <1>3, WireAnswers, WireSent, WireStops, WireStream
     DEF Next, Stopper, Handler

\* Frames and responses share a connection. A frame is only cut short in a session
\* that ends, no response goes into one that is still being sent, and behind a
\* message that was cut the handler answers no further request.
THEOREM CutsEndTheSession == Spec => []CutEndsSession
<1>1. Init => WireInv
  BY DEF Init, WireInv, WireOne, Fresh
<1>2. ASSUME RtspInv, WireInv, NEW s \in Sessions
      PROVE  /\ session[s].wire = "frame" =>
                  (stream[s] = "sending" /\ handler[s] # "sending") \/ ~MayRun(s)
             /\ session[s].wire \in {"response", "mixed"} =>
                  (~MayRun(s) \/ closing[s]) /\ ~Answering(s)
  <2>1. WireOne(s) /\ SendInv(s)
    BY <1>2 DEF RtspInv, WireInv, SessionInv
  <2> QED
    BY <2>1 DEF WireOne, SendInv
<1>3. RtspInv /\ WireInv => CutEndsSession
  BY <1>2 DEF CutEndsSession
<1> QED
  BY <1>1, <1>3, WireStep, RtspInvariant, PTL DEF Spec
=============================================================================
