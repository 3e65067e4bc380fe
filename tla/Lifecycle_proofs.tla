-------------------------- MODULE Lifecycle_proofs --------------------------
(***************************************************************************)
(* The commands of ChannelSwitch and the process of Lifecycle are correct  *)
(* for every number of threads, broadcasts, commands and packets: the      *)
(* buffers never keep an old broadcast outside a switch, nothing is used   *)
(* after its end, and a shutdown cannot be undone.                         *)
(*                                                                         *)
(* Each step of Command is treated once, so that the lemmas serve both     *)
(* specifications: Spec, where anyone commands at any time, and LifeSpec,  *)
(* where main and the HTTP threads do.                                     *)
(***************************************************************************)
EXTENDS Lifecycle, TLAPS

-----------------------------------------------------------------------------
(* The inductive invariant of the commands *)

\* A call that retunes has a broadcast to tune to.
TargetInv ==
  \A c \in Commanders : Retunes(thread[c].op) => thread[c].target \in Broadcasts

\* Why a tune resets the hub: the broadcast has changed since the call began, or
\* is about to, because it still differs from the target.
TuneInv ==
  \A c \in Commanders :
    thread[c].op = "tune" =>
      /\ thread[c].at = "reset" => switched[c]
      /\ thread[c].at = "execute" /\ thread[c].tuneChanged =>
           switched[c] \/ broadcast # thread[c].target

SwitchInv == /\ TypeOK /\ window.open /\ TargetInv /\ TuneInv
             /\ OldDataOnlyDuringSwitch

-----------------------------------------------------------------------------
(* Records of calls *)

Calls == [at : {"idle", "query", "execute", "reset"}, op : AllOps \cup {"none"},
          target : Broadcasts \cup {"none"}, tuneChanged : BOOLEAN]

\* A returned call is one that does nothing.
LEMMA IdleCall ==
  /\ Idle \in Calls /\ Idle.at = "idle" /\ Idle.op = "none" /\ ~Idle.tuneChanged
  /\ ~Retunes("none")
BY DEF Idle, Calls, Retunes

\* Return leaves every other thread alone.
LEMMA ReturnCall ==
  ASSUME SwitchInv, NEW c \in Commanders, Return(c)
  PROVE  /\ thread' \in [Commanders -> Calls] /\ switched' \in [Commanders -> BOOLEAN]
         /\ thread'[c] = Idle
         /\ \A d \in Commanders : d # c => thread'[d] = thread[d] /\ switched'[d] = switched[d]
BY IdleCall DEF SwitchInv, TypeOK, Calls, Return

\* With the buffer as it is, old packets stay accounted for as long as the calls
\* that are about to reset the hub still are.
LEMMA SameBuffer ==
  ASSUME SwitchInv, UNCHANGED <<broadcast, missed, window, label>>,
         \A d \in Commanders : thread[d].at = "reset" => thread'[d].at = "reset"
  PROVE  OldDataOnlyDuringSwitch'
BY DEF SwitchInv, OldDataOnlyDuringSwitch, Stale

-----------------------------------------------------------------------------
(* The steps of Command *)

LEMMA CallKeepsSwitchInv ==
  ASSUME SwitchInv, NEW c \in Commanders, NEW op \in AllOps, NEW target,
         Retunes(op) => target \in Broadcasts,
         Call(c, op, target), sent' \in 0 .. MaxCommands
  PROVE  SwitchInv'
<1> DEFINE new == [at |-> IF op = "tune" THEN "query" ELSE "execute", op |-> op,
                   target |-> IF Retunes(op) THEN target ELSE "none",
                   tuneChanged |-> FALSE]
<1>1. new \in Calls
  BY DEF Calls
<1>2. /\ new.op = op /\ ~new.tuneChanged /\ new.at \in {"query", "execute"}
      /\ Retunes(op) => new.target \in Broadcasts
  OBVIOUS
<1>3. /\ thread[c].at = "idle"
      /\ thread' = [thread EXCEPT ![c] = new]
      /\ UNCHANGED <<broadcast, receiving, scanning, switched, missed, window, label>>
  BY DEF Call
<1> HIDE DEF new
<1>4. /\ thread' \in [Commanders -> Calls] /\ thread'[c] = new
      /\ \A d \in Commanders : d # c => thread'[d] = thread[d]
  BY <1>1, <1>3 DEF SwitchInv, TypeOK, Calls
<1>5. TypeOK'
  BY <1>3, <1>4 DEF SwitchInv, TypeOK, Calls
<1>6. TargetInv'
  BY <1>2, <1>3, <1>4 DEF SwitchInv, TargetInv
<1>7. TuneInv'
  BY <1>2, <1>3, <1>4 DEF SwitchInv, TuneInv
<1>8. OldDataOnlyDuringSwitch'
  BY <1>3, <1>4, SameBuffer
<1> QED
  BY <1>3, <1>5, <1>6, <1>7, <1>8 DEF SwitchInv

LEMMA QueryKeepsSwitchInv ==
  ASSUME SwitchInv, NEW c \in Commanders, QueryStatus(c)
  PROVE  SwitchInv'
<1> DEFINE t == thread[c]
           new == [t EXCEPT !.at = "execute", !.tuneChanged = Differs(t.target)]
<1>1. t \in Calls /\ Differs(t.target) \in BOOLEAN
  BY DEF SwitchInv, TypeOK, Calls, Differs
<1>2. /\ t.at = "query"
      /\ thread' = [thread EXCEPT ![c] = new]
      /\ UNCHANGED <<broadcast, receiving, scanning, switched, missed, window, label, sent>>
  BY DEF QueryStatus, SwitchInv, TypeOK
<1>3. /\ new \in Calls /\ new.op = t.op /\ new.target = t.target
      /\ new.at = "execute" /\ new.tuneChanged = Differs(t.target)
  BY <1>1 DEF Calls
<1> HIDE DEF new
<1>4. /\ thread' \in [Commanders -> Calls] /\ thread'[c] = new
      /\ \A d \in Commanders : d # c => thread'[d] = thread[d]
  BY <1>2, <1>3 DEF SwitchInv, TypeOK, Calls
<1>5. TypeOK'
  BY <1>2, <1>4 DEF SwitchInv, TypeOK, Calls
<1>6. TargetInv'
  BY <1>2, <1>3, <1>4 DEF SwitchInv, TargetInv
<1>7. TuneInv'
  BY <1>2, <1>3, <1>4 DEF SwitchInv, TuneInv, Differs
<1>8. OldDataOnlyDuringSwitch'
  BY <1>2, <1>4, SameBuffer
<1> QED
  BY <1>2, <1>5, <1>6, <1>7, <1>8 DEF SwitchInv

\* A query or an execution that fails: the call is over, nothing else happened.
LEMMA FailureKeepsSwitchInv ==
  ASSUME SwitchInv, NEW c \in Commanders, thread[c].at # "reset", Return(c),
         UNCHANGED <<broadcast, receiving, scanning, missed, window, label, sent>>
  PROVE  SwitchInv'
<1>1. TypeOK'
  BY ReturnCall DEF SwitchInv, TypeOK, Calls
<1>2. TargetInv' /\ TuneInv'
  BY ReturnCall, IdleCall DEF SwitchInv, TargetInv, TuneInv
<1>3. OldDataOnlyDuringSwitch'
  BY ReturnCall, SameBuffer
<1> QED
  BY <1>1, <1>2, <1>3 DEF SwitchInv

LEMMA ExecuteKeepsSwitchInv ==
  ASSUME SwitchInv, NEW c \in Commanders, Execute(c)
  PROVE  SwitchInv'
<1> DEFINE t == thread[c]
           new == IF ResetsHub(t) THEN [t EXCEPT !.at = "reset"] ELSE Idle
<1>1. t \in Calls /\ t.at = "execute" /\ (Retunes(t.op) => t.target \in Broadcasts)
  BY DEF SwitchInv, TypeOK, Calls, Execute, TargetInv
<1>2. /\ broadcast' = IF Retunes(t.op) THEN t.target ELSE broadcast
      /\ receiving' \in BOOLEAN /\ scanning' \in BOOLEAN
      /\ missed' = (missed \/ (t.op = "tune" /\ ~t.tuneChanged /\ broadcast' # broadcast))
      /\ thread' = [thread EXCEPT ![c] = new]
      /\ switched' = [d \in Commanders |-> thread'[d].op = "tune"
                                           /\ (switched[d] \/ broadcast' # broadcast)]
      /\ UNCHANGED <<window, label, sent>>
  BY DEF Execute, SwitchInv, TypeOK
<1>3. broadcast' \in Broadcasts
  BY <1>1, <1>2 DEF SwitchInv, TypeOK
<1>4. /\ new \in Calls /\ new.at \in {"idle", "reset"}
      /\ new.at = "reset" <=> ResetsHub(t)
      /\ ResetsHub(t) => new.op = t.op /\ new.target = t.target
      /\ ~ResetsHub(t) => new.op = "none"
  BY <1>1, IdleCall DEF Calls
<1> HIDE DEF new
<1>5. /\ thread' \in [Commanders -> Calls] /\ thread'[c] = new
      /\ \A d \in Commanders : d # c => thread'[d] = thread[d]
  BY <1>2, <1>4 DEF SwitchInv, TypeOK, Calls
<1>6. switched' \in [Commanders -> BOOLEAN] /\ missed' \in BOOLEAN
  BY <1>2 DEF SwitchInv, TypeOK
<1>7. TypeOK'
  BY <1>2, <1>3, <1>5, <1>6 DEF SwitchInv, TypeOK, Calls
<1>8. TargetInv'
  BY <1>1, <1>4, <1>5, IdleCall DEF SwitchInv, TargetInv
<1>9. TuneInv'
  <2> SUFFICES ASSUME NEW d \in Commanders, thread'[d].op = "tune"
               PROVE  /\ thread'[d].at = "reset" => switched'[d]
                      /\ thread'[d].at = "execute" /\ thread'[d].tuneChanged =>
                           switched'[d] \/ broadcast' # thread'[d].target
    BY DEF TuneInv
  <2>1. switched'[d] = (switched[d] \/ broadcast' # broadcast)
    BY <1>2
  <2>2. CASE d # c
    BY <1>5, <2>1, <2>2 DEF SwitchInv, TuneInv
  <2>3. CASE d = c
    <3>1. ResetsHub(t) /\ t.op = "tune"
      BY <1>4, <1>5, <2>3
    <3>2. t.tuneChanged
      BY <3>1 DEF ResetsHub
    <3>3. switched[c] \/ broadcast # t.target
      BY <1>1, <3>1, <3>2 DEF SwitchInv, TuneInv
    <3>4. broadcast' = t.target
      BY <1>2, <3>1 DEF Retunes
    <3> QED
      BY <1>4, <1>5, <2>1, <2>3, <3>1, <3>3, <3>4
  <2> QED
    BY <2>2, <2>3
<1>10. OldDataOnlyDuringSwitch'
  <2>1. CASE broadcast' = broadcast
    <3>1. missed' = missed
      BY <1>2, <2>1 DEF SwitchInv, TypeOK
    <3>2. \A d \in Commanders : thread[d].at = "reset" => thread'[d].at = "reset"
      BY <1>1, <1>5
    <3> QED
      BY <1>2, <2>1, <3>1, <3>2, SameBuffer
  <2>2. CASE broadcast' # broadcast
    <3>1. Retunes(t.op)
      BY <1>2, <2>2
    <3>2. CASE t.op = "tune" /\ ~t.tuneChanged
      BY <1>2, <2>2, <3>2 DEF OldDataOnlyDuringSwitch
    <3>3. CASE ~(t.op = "tune" /\ ~t.tuneChanged)
      <4>1. ResetsHub(t)
        BY <3>1, <3>3 DEF Retunes, ResetsHub
      <4> QED
        BY <1>4, <1>5, <4>1 DEF OldDataOnlyDuringSwitch
    <3> QED
      BY <3>2, <3>3
  <2> QED
    BY <2>1, <2>2
<1> QED
  BY <1>2, <1>7, <1>8, <1>9, <1>10 DEF SwitchInv

LEMMA ResetKeepsSwitchInv ==
  ASSUME SwitchInv, NEW c \in Commanders, ResetHub(c)
  PROVE  SwitchInv'
<1>1. /\ Return(c) /\ window' = Cleared(window)
      /\ UNCHANGED <<broadcast, receiving, scanning, missed, label, sent>>
  BY DEF ResetHub
<1>2. /\ window' \in Windows /\ window'.open = window.open
      /\ window'.low = window.high /\ window'.high = window.high
      /\ window.high \in Nat
  BY <1>1 DEF SwitchInv, TypeOK, Windows, Cleared
<1>3. TypeOK'
  BY <1>1, <1>2, ReturnCall DEF SwitchInv, TypeOK, Calls
<1>4. TargetInv' /\ TuneInv'
  BY <1>1, ReturnCall, IdleCall DEF SwitchInv, TargetInv, TuneInv
<1>5. ~Stale'
  BY <1>2 DEF Stale
<1> QED
  BY <1>2, <1>3, <1>4, <1>5 DEF SwitchInv, OldDataOnlyDuringSwitch

-----------------------------------------------------------------------------
(* The core's thread and the client's *)

\* One packet more: the start of the window moves forwards, never past its end.
LEMMA AppendedOne ==
  ASSUME NEW w \in Windows, w.low <= w.high
  PROVE  w.open => /\ Appended(w, 1) \in Windows
                   /\ Appended(w, 1).open = w.open
                   /\ Appended(w, 1).high = w.high + 1
                   /\ w.low <= Appended(w, 1).low
                   /\ Appended(w, 1).low <= w.high + 1
<1> DEFINE low == IF w.high + 1 - w.low > Capacity
                  THEN w.high + 1 - Capacity ELSE w.low
<1>1. /\ w.low \in Nat /\ w.high \in Nat /\ w.open \in BOOLEAN
      /\ Capacity \in Nat /\ Capacity >= 1
  BY SwitchAssumption DEF Windows
<1>2. low \in Nat /\ w.low <= low /\ low <= w.high + 1
  BY <1>1
<1> HIDE DEF low
<1>3. w = [low |-> w.low, high |-> w.high, open |-> w.open]
  BY DEF Windows
<1>4. CASE w.open
  <2>1. Appended(w, 1) = [w EXCEPT !.high = w.high + 1, !.low = low]
    BY <1>4 DEF Appended, low
  <2>2. Appended(w, 1) = [low |-> low, high |-> w.high + 1, open |-> w.open]
    BY <1>3, <2>1
  <2>3. Appended(w, 1) \in Windows
    BY <1>1, <1>2, <2>2 DEF Windows
  <2>4. /\ Appended(w, 1).open = w.open /\ Appended(w, 1).high = w.high + 1
        /\ Appended(w, 1).low = low
    BY <2>2
  <2> QED
    BY <1>2, <2>3, <2>4
<1> QED
  BY <1>4

\* A read of at most what is there.
LEMMA TakenSome ==
  ASSUME NEW w \in Windows, NEW n \in Nat
  PROVE  /\ Taken(w, n) \in Windows /\ Taken(w, n).open = w.open
         /\ Taken(w, n).high = w.high /\ Taken(w, n).low = w.low + n
BY DEF Windows, Taken

LEMMA PacketKeepsSwitchInv ==
  ASSUME SwitchInv, OnTs
  PROVE  SwitchInv'
<1>1. /\ label' = Append(label, broadcast) /\ window' = Appended(window, 1)
      /\ UNCHANGED <<broadcast, receiving, scanning, thread, switched, missed, sent>>
  BY DEF OnTs
<1>2. /\ window \in Windows /\ window.open
      /\ window.low \in Nat /\ window.high \in Nat /\ window.low <= window.high
      /\ window.high = Len(label) /\ label \in Seq(Broadcasts) /\ broadcast \in Broadcasts
  BY DEF SwitchInv, TypeOK, Windows
<1>3. /\ window' \in Windows /\ window'.open /\ window'.high = window.high + 1
      /\ window.low <= window'.low /\ window'.low <= window'.high
  BY <1>1, <1>2, AppendedOne
<1>4. window'.low \in Nat
  BY <1>3 DEF Windows
<1>8. /\ label' \in Seq(Broadcasts) /\ Len(label') = Len(label) + 1
      /\ label'[Len(label) + 1] = broadcast
      /\ \A i \in 1 .. Len(label) : label'[i] = label[i]
  BY <1>1, <1>2
<1>9. window'.high = Len(label')
  BY <1>2, <1>3, <1>8
<1>10. TypeOK'
  BY <1>1, <1>3, <1>8, <1>9 DEF SwitchInv, TypeOK
<1>11. TargetInv' /\ TuneInv'
  BY <1>1 DEF SwitchInv, TargetInv, TuneInv
<1>12. Stale' => Stale
  <2> SUFFICES ASSUME NEW p \in window'.low .. window.high, label'[p + 1] # broadcast
               PROVE  Stale
    BY <1>1, <1>2, <1>3, <1>4 DEF Stale
  <2>1. p # window.high
    BY <1>2, <1>8
  <2>2. p \in window.low .. window.high - 1 /\ p + 1 \in 1 .. Len(label)
    BY <1>2, <1>3, <1>4, <2>1
  <2>3. label[p + 1] # broadcast
    BY <1>8, <2>2
  <2> QED
    BY <2>2, <2>3 DEF Stale
<1> QED
  BY <1>1, <1>3, <1>10, <1>11, <1>12 DEF SwitchInv, OldDataOnlyDuringSwitch

LEMMA PopKeepsSwitchInv ==
  ASSUME SwitchInv, NEW n \in 1 .. Capacity, PopData(n)
  PROVE  SwitchInv'
<1>1. /\ n \in Nat /\ n <= window.high - window.low /\ window' = Taken(window, n)
      /\ UNCHANGED <<broadcast, receiving, scanning, thread, switched, missed, label, sent>>
  BY SwitchAssumption DEF PopData, CanTake, Buffered
<1>2. /\ window \in Windows /\ window.open /\ window.low \in Nat /\ window.high \in Nat
      /\ window.low <= window.high
  BY DEF SwitchInv, TypeOK, Windows
<1>3. /\ window' \in Windows /\ window'.open = window.open
      /\ window'.high = window.high /\ window'.low = window.low + n
  BY <1>1, <1>2, TakenSome
<1>4. TypeOK'
  BY <1>1, <1>2, <1>3 DEF SwitchInv, TypeOK
<1>5. TargetInv' /\ TuneInv'
  BY <1>1 DEF SwitchInv, TargetInv, TuneInv
<1>6. Stale' => Stale
  BY <1>1, <1>2, <1>3 DEF Stale
<1> QED
  BY <1>1, <1>2, <1>3, <1>4, <1>5, <1>6 DEF SwitchInv, OldDataOnlyDuringSwitch

\* The core starts or ends a scan or the reception: none of the buffers' business.
LEMMA CoreKeepsSwitchInv ==
  ASSUME SwitchInv, receiving' \in BOOLEAN, scanning' \in BOOLEAN,
         UNCHANGED <<broadcast, thread, switched, missed, window, label, sent>>
  PROVE  SwitchInv'
BY DEF SwitchInv, TypeOK, TargetInv, TuneInv, OldDataOnlyDuringSwitch, Stale

-----------------------------------------------------------------------------
(* The commands by themselves: Spec *)

LEMMA SwitchInit == Init => SwitchInv
<1> SUFFICES ASSUME Init PROVE SwitchInv
  OBVIOUS
<1>1. window \in Windows /\ window.open /\ window.low = 0 /\ window.high = 0
  BY DEF Init, EmptyAt, Windows
<1>2. thread \in [Commanders -> Calls] /\ switched \in [Commanders -> BOOLEAN]
  BY IdleCall DEF Init
<1>3. label \in Seq(Broadcasts) /\ Len(label) = 0 /\ sent \in 0 .. MaxCommands
  BY SwitchAssumption DEF Init
<1>4. TypeOK
  <2>1. broadcast \in Broadcasts /\ receiving \in BOOLEAN /\ scanning \in BOOLEAN
        /\ missed \in BOOLEAN
    BY DEF Init
  <2>2. window.low <= window.high /\ window.high = Len(label)
    BY <1>1, <1>3
  <2> QED
    BY <1>1, <1>2, <1>3, <2>1, <2>2 DEF TypeOK, Calls
<1>5. TargetInv /\ TuneInv
  BY IdleCall DEF Init, TargetInv, TuneInv
<1>6. ~Stale
  BY <1>1 DEF Stale
<1> QED
  BY <1>1, <1>4, <1>5, <1>6 DEF SwitchInv, OldDataOnlyDuringSwitch

\* One step of a thread that is inside Command.
LEMMA CarryKeepsSwitchInv ==
  ASSUME SwitchInv, NEW c \in Commanders, Carry(c)
  PROVE  SwitchInv'
<1>1. CASE QueryStatus(c)
  BY <1>1, QueryKeepsSwitchInv
<1>2. CASE QueryFails(c) \/ ExecuteFails(c)
  BY <1>2, FailureKeepsSwitchInv DEF QueryFails, ExecuteFails
<1>3. CASE Execute(c)
  BY <1>3, ExecuteKeepsSwitchInv
<1>4. CASE ResetHub(c)
  BY <1>4, ResetKeepsSwitchInv
<1> QED
  BY <1>1, <1>2, <1>3, <1>4 DEF Carry

\* By whatever route it comes, a command is a request for one of the core's.
LEMMA SentRequest ==
  ASSUME NEW c, NEW op, NEW b, Send(c, op, b)
  PROVE  Request(c, op, b)
BY DEF Send, ChannelRequest, TuneRequest, StreamRequest

LEMMA SendKeepsSwitchInv ==
  ASSUME SwitchInv, NEW c \in Commanders, NEW op \in Ops, NEW b \in Broadcasts,
         Send(c, op, b)
  PROVE  SwitchInv'
<1>1. op \in AllOps /\ Call(c, op, b)
  BY SwitchAssumption, SentRequest DEF Request
<1>2. sent' \in 0 .. MaxCommands
  BY SwitchAssumption, SentRequest DEF Request, SwitchInv, TypeOK
<1> QED
  BY <1>1, <1>2, CallKeepsSwitchInv

LEMMA ScanEndsKeepsSwitchInv ==
  ASSUME SwitchInv, ScanEnds
  PROVE  SwitchInv'
BY CoreKeepsSwitchInv DEF ScanEnds, SwitchInv, TypeOK

LEMMA NothingKeepsSwitchInv ==
  ASSUME SwitchInv, UNCHANGED vars
  PROVE  SwitchInv'
BY DEF vars, SwitchInv, TypeOK, TargetInv, TuneInv, OldDataOnlyDuringSwitch, Stale

LEMMA SwitchStep == SwitchInv /\ [Next]_vars => SwitchInv'
<1> SUFFICES ASSUME SwitchInv, [Next]_vars PROVE SwitchInv'
  OBVIOUS
<1>1. ASSUME NEW c \in Commanders, NEW op \in Ops, NEW b \in Broadcasts, Send(c, op, b)
      PROVE SwitchInv'
  BY <1>1, SendKeepsSwitchInv
<1>2. ASSUME NEW c \in Commanders, Carry(c) PROVE SwitchInv'
  BY <1>2, CarryKeepsSwitchInv
<1>3. CASE OnTs
  BY <1>3, PacketKeepsSwitchInv
<1>4. CASE ScanEnds
  BY <1>4, ScanEndsKeepsSwitchInv
<1>5. ASSUME NEW n \in 1 .. Capacity, PopData(n) PROVE SwitchInv'
  BY <1>5, PopKeepsSwitchInv
<1>6. CASE UNCHANGED vars
  BY <1>6, NothingKeepsSwitchInv
<1> QED
  BY <1>1, <1>2, <1>3, <1>4, <1>5, <1>6 DEF Next

\* A returning reset of a tune was due: the broadcast had changed under the call.
LEMMA ResetWasDue ==
  ASSUME SwitchInv, NEW c \in Commanders, thread[c].op = "tune", thread[c].at = "reset"
  PROVE  switched[c]
BY DEF SwitchInv, TuneInv

\* Commands of any number of threads at any time: type correctness, and no packet
\* of an old broadcast is left once the calls that switched have reset the hub.
THEOREM SwitchInvariant == Spec => []SwitchInv
<1> QED
  BY SwitchInit, SwitchStep, PTL DEF Spec

\* A tune only empties the buffers if the broadcast changed during the call.
THEOREM RetuneKeepsTheBuffer == Spec => RetuneKeepsBuffer
<1> DEFINE Due == \A c \in Commanders :
                    thread[c].op = "tune" /\ thread[c].at = "reset" /\ thread'[c].at = "idle"
                      => switched[c]
<1>1. SwitchInv => [Due]_vars
  BY ResetWasDue
<1> QED
  BY <1>1, SwitchInvariant, PTL DEF RetuneKeepsBuffer

-----------------------------------------------------------------------------
(* The order of main *)

\* The steps of main by number, and the places the code jumps to or looks at.
LEMMA PlaceDomain == DOMAIN Order = 1 .. 23
BY DEF Order

LEMMA Places ==
  /\ Order[1] = "load" /\ Order[2] = "initialize" /\ Order[3] = "udp"
  /\ Order[4] = "rtp" /\ Order[5] = "rtsp" /\ Order[6] = "http"
  /\ Order[7] = "resume" /\ Order[8] = "tray" /\ Order[9] = "loop"
  /\ Order[10] = "close http" /\ Order[11] = "join http" /\ Order[12] = "shutdown"
  /\ Order[13] = "stop rtsp" /\ Order[14] = "stop rtp" /\ Order[15] = "stop udp"
  /\ Order[16] = "stop" /\ Order[17] = "destroy http" /\ Order[18] = "destroy rtsp"
  /\ Order[19] = "destroy rtp" /\ Order[20] = "destroy udp"
  /\ Order[21] = "destroy core" /\ Order[22] = "destroy hub" /\ Order[23] = "over"
BY DEF Order

LEMMA PlaceFacts ==
  /\ Place("join http") = 11 /\ Place("shutdown") = 12 /\ Place("stop rtsp") = 13
  /\ Place("destroy http") = 17 /\ Place("destroy core") = 21
<1>1. ASSUME NEW i \in 1 .. 23
      PROVE  /\ Order[i] = "join http" <=> i = 11
             /\ Order[i] = "shutdown" <=> i = 12
             /\ Order[i] = "stop rtsp" <=> i = 13
             /\ Order[i] = "destroy http" <=> i = 17
             /\ Order[i] = "destroy core" <=> i = 21
  <2>1. \/ i = 1 \/ i = 2 \/ i = 3 \/ i = 4 \/ i = 5 \/ i = 6 \/ i = 7 \/ i = 8 \/ i = 9
        \/ i = 10 \/ i = 14 \/ i = 15 \/ i = 16 \/ i = 18 \/ i = 19 \/ i = 20
        \/ i = 11 \/ i = 12 \/ i = 13 \/ i = 17 \/ i = 21 \/ i = 22 \/ i = 23
    OBVIOUS
  <2> QED
    BY <2>1, Places
<1>2. /\ \A i \in DOMAIN Order : i \in 1 .. 23
      /\ {11, 12, 13, 17, 21} \subseteq DOMAIN Order
  BY PlaceDomain
<1>3. Place("join http") = 11
  BY <1>1, <1>2 DEF Place
<1>4. Place("shutdown") = 12
  BY <1>1, <1>2 DEF Place
<1>5. Place("stop rtsp") = 13
  BY <1>1, <1>2 DEF Place
<1>6. Place("destroy http") = 17
  BY <1>1, <1>2 DEF Place
<1>7. Place("destroy core") = 21
  BY <1>1, <1>2 DEF Place
<1> QED
  BY <1>3, <1>4, <1>5, <1>6, <1>7

LEMMA AtPlace ==
  ASSUME main \in 1 .. 23
  PROVE  /\ At("load") <=> main = 1
         /\ At("initialize") <=> main = 2
         /\ At("udp") <=> main = 3
         /\ At("rtp") <=> main = 4
         /\ At("rtsp") <=> main = 5
         /\ At("http") <=> main = 6
         /\ At("resume") <=> main = 7
         /\ At("tray") <=> main = 8
         /\ At("loop") <=> main = 9
         /\ At("close http") <=> main = 10
         /\ At("join http") <=> main = 11
         /\ At("shutdown") <=> main = 12
         /\ At("stop rtsp") <=> main = 13
         /\ At("stop rtp") <=> main = 14
         /\ At("stop udp") <=> main = 15
         /\ At("stop") <=> main = 16
         /\ At("destroy http") <=> main = 17
         /\ At("destroy rtsp") <=> main = 18
         /\ At("destroy rtp") <=> main = 19
         /\ At("destroy udp") <=> main = 20
         /\ At("destroy core") <=> main = 21
         /\ At("destroy hub") <=> main = 22
<1>1. ASSUME NEW i \in 1 .. 23
      PROVE  /\ Order[i] = "load" <=> i = 1
             /\ Order[i] = "initialize" <=> i = 2
             /\ Order[i] = "udp" <=> i = 3
             /\ Order[i] = "rtp" <=> i = 4
             /\ Order[i] = "rtsp" <=> i = 5
             /\ Order[i] = "http" <=> i = 6
             /\ Order[i] = "resume" <=> i = 7
             /\ Order[i] = "tray" <=> i = 8
             /\ Order[i] = "loop" <=> i = 9
             /\ Order[i] = "close http" <=> i = 10
             /\ Order[i] = "join http" <=> i = 11
             /\ Order[i] = "shutdown" <=> i = 12
             /\ Order[i] = "stop rtsp" <=> i = 13
             /\ Order[i] = "stop rtp" <=> i = 14
             /\ Order[i] = "stop udp" <=> i = 15
             /\ Order[i] = "stop" <=> i = 16
             /\ Order[i] = "destroy http" <=> i = 17
             /\ Order[i] = "destroy rtsp" <=> i = 18
             /\ Order[i] = "destroy rtp" <=> i = 19
             /\ Order[i] = "destroy udp" <=> i = 20
             /\ Order[i] = "destroy core" <=> i = 21
             /\ Order[i] = "destroy hub" <=> i = 22
  <2>0. \/ i = 1 \/ i = 2 \/ i = 3 \/ i = 4 \/ i = 5 \/ i = 6 \/ i = 7 \/ i = 8 \/ i = 9
        \/ i = 10 \/ i = 11 \/ i = 12 \/ i = 13 \/ i = 14 \/ i = 15 \/ i = 16 \/ i = 17
        \/ i = 18 \/ i = 19 \/ i = 20 \/ i = 21 \/ i = 22 \/ i = 23
    OBVIOUS
  <2>1. /\ Order[i] = "load" <=> i = 1
        /\ Order[i] = "initialize" <=> i = 2
        /\ Order[i] = "udp" <=> i = 3
    BY <2>0, Places
  <2>2. /\ Order[i] = "rtp" <=> i = 4
        /\ Order[i] = "rtsp" <=> i = 5
        /\ Order[i] = "http" <=> i = 6
    BY <2>0, Places
  <2>3. /\ Order[i] = "resume" <=> i = 7
        /\ Order[i] = "tray" <=> i = 8
        /\ Order[i] = "loop" <=> i = 9
    BY <2>0, Places
  <2>4. /\ Order[i] = "close http" <=> i = 10
        /\ Order[i] = "join http" <=> i = 11
        /\ Order[i] = "shutdown" <=> i = 12
    BY <2>0, Places
  <2>5. /\ Order[i] = "stop rtsp" <=> i = 13
        /\ Order[i] = "stop rtp" <=> i = 14
        /\ Order[i] = "stop udp" <=> i = 15
    BY <2>0, Places
  <2>6. /\ Order[i] = "stop" <=> i = 16
        /\ Order[i] = "destroy http" <=> i = 17
        /\ Order[i] = "destroy rtsp" <=> i = 18
    BY <2>0, Places
  <2>7. /\ Order[i] = "destroy rtp" <=> i = 19
        /\ Order[i] = "destroy udp" <=> i = 20
    BY <2>0, Places
  <2>8. /\ Order[i] = "destroy core" <=> i = 21
        /\ Order[i] = "destroy hub" <=> i = 22
    BY <2>0, Places
  <2> QED
    BY <2>1, <2>2, <2>3, <2>4, <2>5, <2>6, <2>7, <2>8
<1> QED
  BY <1>1 DEF At

-----------------------------------------------------------------------------
(* The inductive invariant of the process *)

\* Where main is when it is inside Command, and with what.
MainInv ==
  thread[Main].at # "idle" =>
    \/ main \in {1, 2, 12, 16} /\ thread[Main].op = Order[main]
    \/ main = 7 /\ thread[Main].op \in {"scan", "restore"}

Serving == part["http"] = "up"

\* An HTTP thread is in Command only for a request it serves, and requests are
\* only there between the start of the HTTP server and the end of its Stop.
ServeInv ==
  /\ Serving => main \in 7 .. 10
  /\ \A c \in HttpThreads : /\ handler[c] # "none" => main \in 7 .. 11
                            /\ thread[c].at # "idle" => handler[c] = "served"

\* No part outlives its destructor, whether main has stopped it or not.
PartsInv ==
  /\ part["http"] # "off" => main <= 17
  /\ part["rtsp"] # "off" => main <= 18
  /\ part["rtp"] # "off" => main <= 19
  /\ part["udp"] # "off" => main <= 20

\* Nothing comes out of a core that is gone.
CoreInv == main > 21 => ~receiving /\ ~scanning

LifeInv == SwitchInv /\ LifeTypeOK /\ MainInv /\ ServeInv /\ PartsInv /\ CoreInv

\* The types of what main, the HTTP threads and the user change.
ProcessTypes ==
  /\ main \in 1 .. 23
  /\ handler \in [HttpThreads -> {"none", "admitted", "served"}]
  /\ part \in [Parts -> {"off", "threadless", "up"}]
  /\ tray \in BOOLEAN /\ quit \in BOOLEAN

LEMMA LifeTypes ==
  /\ LifeInv => ProcessTypes /\ SwitchInv /\ TypeOK
  /\ SwitchInv' /\ ProcessTypes' => LifeTypeOK'
BY PlaceDomain DEF LifeInv, LifeTypeOK, ProcessTypes, SwitchInv

LEMMA LifeInitially == LifeInit => LifeInv
<1> SUFFICES ASSUME LifeInit PROVE LifeInv
  OBVIOUS
<1>1. SwitchInv
  BY SwitchInit DEF LifeInit
<1>2. ProcessTypes
  <2>1. main \in 1 .. 23 /\ handler \in [HttpThreads -> {"none", "admitted", "served"}]
    BY DEF LifeInit
  <2>2. /\ part \in [Parts -> {"off", "threadless", "up"}]
        /\ tray \in BOOLEAN /\ quit \in BOOLEAN
    BY DEF LifeInit
  <2> QED
    BY <2>1, <2>2 DEF ProcessTypes
<1>3. \A c \in Commanders : thread[c].at = "idle"
  BY IdleCall DEF LifeInit, Init
<1>4. LifeTypeOK
  BY <1>1, <1>2, PlaceDomain DEF LifeTypeOK, ProcessTypes, SwitchInv
<1> QED
  BY <1>1, <1>3, <1>4, MainAssumption
  DEF LifeInit, LifeInv, MainInv, ServeInv, PartsInv, CoreInv, HttpThreads, Serving, Parts

-----------------------------------------------------------------------------
(* The steps of main *)

\* main moves on while it commands nothing. What it has to respect: the server
\* serves only between its start and its Stop, no request is left behind, and the
\* core is silent once it is destroyed.
LEMMA MoveKeepsLifeInv ==
  ASSUME LifeInv, SwitchInv', UNCHANGED <<thread, handler>>, ProcessTypes',
         thread[Main].at = "idle",
         Serving' => main' \in 7 .. 10, PartsInv',
         (\E c \in HttpThreads : handler[c] # "none") => main' \in 7 .. 11,
         main' > 21 => ~receiving' /\ ~scanning'
  PROVE  LifeInv'
<1>1. LifeTypeOK'
  BY LifeTypes
<1>2. MainInv' /\ CoreInv'
  BY DEF MainInv, CoreInv
<1>3. ServeInv'
  BY DEF LifeInv, ServeInv, Serving
<1> QED
  BY <1>1, <1>2, <1>3 DEF LifeInv

\* Outside its commands main is not in Command.
LEMMA MainIsIdle ==
  ASSUME LifeInv, main \notin {1, 2, 7, 12, 16}
  PROVE  thread[Main].at = "idle"
BY DEF LifeInv, MainInv

\* Before the HTTP server starts and after its Stop there are no requests.
LEMMA NobodyServed ==
  ASSUME LifeInv, main \notin 7 .. 11
  PROVE  /\ ~Serving
         /\ \A c \in HttpThreads : handler[c] = "none" /\ thread[c].at = "idle"
BY LifeTypes DEF LifeInv, ServeInv, Serving, ProcessTypes

LEMMA MainCallsKeeps ==
  ASSUME LifeInv, MainCalls
  PROVE  LifeInv'
<1>1. /\ ProcessTypes /\ SwitchInv
      /\ UNCHANGED <<sent, main, part, handler, tray, quit>>
  BY LifeTypes DEF MainCalls, process
<1>2. PICK op \in AllOps, target \in Broadcasts \cup {"none"} :
         /\ Retunes(op) => target \in Broadcasts
         /\ Call(Main, op, target)
         /\ \/ main \in {1, 2, 12, 16} /\ op = Order[main]
            \/ main = 7 /\ op \in {"scan", "restore"}
  <2>1. ASSUME NEW op \in {"load", "initialize", "shutdown", "stop"}, At(op),
               Call(Main, op, "none")
        PROVE  /\ op \in AllOps /\ ~Retunes(op)
               /\ main \in {1, 2, 12, 16} /\ op = Order[main]
    BY <1>1, <2>1, AtPlace DEF AllOps, Retunes, At, ProcessTypes
  <2>2. ASSUME At("resume")
        PROVE  /\ main = 7 /\ "scan" \in AllOps /\ "restore" \in AllOps
               /\ ~Retunes("scan")
    BY <1>1, <2>2, AtPlace DEF AllOps, Retunes, ProcessTypes
  <2> QED
    BY <2>1, <2>2 DEF MainCalls
<1>3. sent' \in 0 .. MaxCommands
  BY <1>1 DEF SwitchInv, TypeOK
<1>4. SwitchInv'
  BY <1>1, <1>2, <1>3, CallKeepsSwitchInv, MainAssumption
<1>5. /\ \A c \in HttpThreads : thread'[c] = thread[c]
      /\ thread'[Main].op = op
      /\ UNCHANGED <<receiving, scanning>>
  BY <1>1, <1>2, MainAssumption DEF Call, SwitchInv, TypeOK, HttpThreads
<1>6. LifeTypeOK'
  BY <1>1, <1>4, LifeTypes DEF ProcessTypes
<1>7. MainInv' /\ ServeInv' /\ PartsInv' /\ CoreInv'
  BY <1>1, <1>2, <1>5 DEF LifeInv, MainInv, ServeInv, PartsInv, CoreInv, Serving
<1> QED
  BY <1>4, <1>6, <1>7 DEF LifeInv

\* What a step inside Command does to the calls and to the core.
LEMMA CarryEffect ==
  ASSUME SwitchInv, NEW c \in Commanders, Carry(c)
  PROVE  /\ thread[c].at # "idle"
         /\ \A d \in Commanders : d # c => thread'[d] = thread[d]
         /\ thread'[c].at # "idle" => thread'[c].op = thread[c].op
<1>1. CASE QueryStatus(c)
  BY <1>1 DEF QueryStatus, SwitchInv, TypeOK
<1>2. CASE QueryFails(c) \/ ExecuteFails(c) \/ ResetHub(c)
  BY <1>2, ReturnCall, IdleCall DEF QueryFails, ExecuteFails, ResetHub
<1>3. CASE Execute(c)
  BY <1>3, IdleCall DEF Execute, SwitchInv, TypeOK
<1> QED
  BY <1>1, <1>2, <1>3 DEF Carry

LEMMA MainReturnsKeeps ==
  ASSUME LifeInv, MainReturns
  PROVE  LifeInv'
<1>1. Carry(Main)
  BY DEF MainReturns, Carry
<1>2. SwitchInv'
  BY <1>1, CarryKeepsSwitchInv, MainAssumption DEF LifeInv
<1>3. /\ thread[Main].at # "idle"
      /\ thread'[Main].at # "idle" => thread'[Main].op = thread[Main].op
      /\ \A c \in HttpThreads : thread'[c] = thread[c]
  BY <1>1, CarryEffect, MainAssumption DEF LifeInv, HttpThreads
<1>4. /\ main \in {1, 2, 7, 12, 16}
      /\ main' = IF thread'[Main].at = "idle" THEN main + 1 ELSE main
      /\ UNCHANGED <<part, handler, tray, quit>>
  BY <1>3 DEF LifeInv, MainInv, MainReturns
<1>5. ProcessTypes' /\ main' <= 17
  BY <1>4, LifeTypes DEF ProcessTypes
<1>6. MainInv'
  BY <1>3, <1>4 DEF LifeInv, MainInv
<1>7. ServeInv'
  BY <1>3, <1>4 DEF LifeInv, ServeInv, Serving
<1>8. PartsInv' /\ CoreInv'
  BY <1>5 DEF PartsInv, CoreInv, ProcessTypes
<1> QED
  BY <1>2, <1>5, <1>6, <1>7, <1>8, LifeTypes DEF LifeInv

\* A failed load: main goes to the destructors, and nothing has been started.
LEMMA LoadFailsKeeps ==
  ASSUME LifeInv, LoadFails
  PROVE  LifeInv'
<1>1. ProcessTypes /\ SwitchInv /\ Carry(Main) /\ Return(Main)
  BY LifeTypes DEF LoadFails, Carry, ExecuteFails
<1>2. SwitchInv'
  BY <1>1, CarryKeepsSwitchInv, MainAssumption
<1>3. /\ main = 1 /\ main' = 17
      /\ UNCHANGED <<part, handler, tray, quit>>
  BY <1>1, AtPlace, PlaceFacts DEF LoadFails, LeaveRun, GoTo, ProcessTypes
<1>4. /\ thread'[Main].at = "idle"
      /\ \A c \in HttpThreads : thread'[c] = thread[c]
  BY <1>1, ReturnCall, IdleCall, MainAssumption DEF HttpThreads
<1>5. ProcessTypes'
  BY <1>1, <1>3 DEF ProcessTypes
<1>6. MainInv' /\ PartsInv' /\ CoreInv'
  BY <1>3, <1>4 DEF MainInv, PartsInv, CoreInv
<1>7. ServeInv'
  BY <1>3, <1>4, NobodyServed DEF ServeInv, Serving
<1> QED
  BY <1>2, <1>5, <1>6, <1>7, LifeTypes DEF LifeInv

\* The starts: nothing is served until the HTTP server has started. A start that
\* fails leads on or to main's own stops, one that throws to the destructors.
LEMMA StartKeeps ==
  ASSUME LifeInv, NEW p \in Parts, Start(p) \/ StartFails(p) \/ StartThrows(p)
  PROVE  LifeInv'
<1>1. ProcessTypes /\ SwitchInv /\ At(p) /\ UNCHANGED <<vars, handler, tray, quit>>
  BY LifeTypes DEF Start, StartFails, StartThrows
<1>2. SwitchInv'
  BY <1>1, NothingKeepsSwitchInv
<1>3. \/ p = "udp" /\ main = 3
      \/ p = "rtp" /\ main = 4
      \/ p = "rtsp" /\ main = 5
      \/ p = "http" /\ main = 6
  <2>1. main \in 1 .. 23
    BY <1>1 DEF ProcessTypes
  <2> QED
    BY <1>1, <2>1, AtPlace DEF Parts
<1>4. /\ thread[Main].at = "idle" /\ ~Serving
      /\ \A c \in HttpThreads : handler[c] = "none"
  BY <1>3, MainIsIdle, NobodyServed
<1>5. CASE Start(p)
  <2>1. main' = main + 1 /\ part' = [part EXCEPT ![p] = "up"]
    BY <1>5 DEF Start, GoOn
  <2>2. main' \in 1 .. 7
    BY <1>3, <2>1
  <2>3. Serving' => main' = 7
    <3>1. CASE p = "http"
      BY <1>3, <2>1, <3>1
    <3>2. CASE p # "http"
      BY <1>1, <1>4, <2>1, <3>2 DEF Serving, ProcessTypes, Parts
    <3> QED
      BY <3>1, <3>2
  <2>4. ProcessTypes' /\ PartsInv'
    BY <1>1, <2>1, <2>2 DEF ProcessTypes, PartsInv
  <2> QED
    BY <1>1, <1>2, <1>4, <2>2, <2>3, <2>4, MoveKeepsLifeInv DEF vars
<1>6. CASE StartFails(p)
  <2>1. main' \in {5, 6, 13, 17} /\ part' = part
    <3>1. CASE p = "udp"
      BY <1>6, <3>1, PlaceFacts DEF StartFails, LeaveRun, GoTo
    <3>2. CASE p = "http"
      BY <1>6, <3>2, PlaceFacts DEF StartFails, GoTo
    <3>3. CASE p = "rtp"
      BY <1>3, <1>6, <3>3 DEF StartFails, GoOn
    <3>4. CASE p = "rtsp"
      BY <1>3, <1>6, <3>4 DEF StartFails, GoOn
    <3> QED
      BY <3>1, <3>2, <3>3, <3>4 DEF Parts
  <2>2. ProcessTypes' /\ PartsInv' /\ ~(main' > 21) /\ ~Serving'
    BY <1>1, <1>4, <2>1 DEF ProcessTypes, PartsInv, Serving
  <2> QED
    BY <1>1, <1>2, <1>4, <2>1, <2>2, MoveKeepsLifeInv DEF vars
<1>7. CASE StartThrows(p)
  <2>1. main' = 17 /\ part' = [part EXCEPT ![p] = "threadless"]
    BY <1>7, PlaceFacts DEF StartThrows, LeaveRun, GoTo
  <2>2. ~Serving'
    BY <1>1, <1>4, <2>1 DEF Serving, ProcessTypes, Parts
  <2>3. ProcessTypes' /\ PartsInv'
    BY <1>1, <2>1 DEF ProcessTypes, PartsInv
  <2> QED
    BY <1>1, <1>2, <1>4, <2>1, <2>2, <2>3, MoveKeepsLifeInv DEF vars
<1> QED
  BY <1>5, <1>6, <1>7

\* main's steps from the resumption to the end of the HTTP server.
LEMMA LoopKeeps ==
  ASSUME LifeInv, NothingToResume \/ InitializeTray \/ RunMessageLoop
                  \/ CloseHttp \/ JoinHttp
  PROVE  LifeInv'
<1>1. ProcessTypes /\ SwitchInv /\ UNCHANGED <<vars, handler, quit>> /\ main' = main + 1
  BY LifeTypes DEF NothingToResume, InitializeTray, RunMessageLoop, CloseHttp, JoinHttp,
                   GoOn
<1>2. SwitchInv'
  BY <1>1, NothingKeepsSwitchInv
<1>3. \/ main \in {7, 8, 9} /\ part' = part
      \/ main = 10 /\ part' = [part EXCEPT !["http"] = "off"]
      \/ main = 11 /\ part' = part /\ HandlersGone
  <2>1. CASE NothingToResume
    BY <1>1, <2>1, AtPlace DEF NothingToResume, ProcessTypes
  <2>2. CASE InitializeTray
    BY <1>1, <2>2, AtPlace DEF InitializeTray, ProcessTypes
  <2>3. CASE RunMessageLoop
    BY <1>1, <2>3, AtPlace DEF RunMessageLoop, ProcessTypes
  <2>4. CASE CloseHttp
    BY <1>1, <2>4, AtPlace DEF CloseHttp, Off, ProcessTypes
  <2>5. CASE JoinHttp
    BY <1>1, <2>5, AtPlace DEF JoinHttp, ProcessTypes
  <2> QED
    BY <2>1, <2>2, <2>3, <2>4, <2>5
<1>4. thread[Main].at = "idle"
  <2>1. CASE main = 7
    <3>1. ~At("tray") /\ ~At("loop") /\ ~At("close http") /\ ~At("join http")
      BY <2>1, Places DEF At
    <3>2. NothingToResume
      BY <3>1 DEF InitializeTray, RunMessageLoop, CloseHttp, JoinHttp
    <3> QED
      BY <3>2 DEF NothingToResume
  <2>2. CASE main # 7
    BY <1>3, <2>2, MainIsIdle
  <2> QED
    BY <2>1, <2>2
<1>5. main' \in 8 .. 12
  BY <1>1, <1>3
<1>6. tray' \in BOOLEAN /\ part' \in [Parts -> {"off", "threadless", "up"}]
  BY <1>1, <1>3 DEF NothingToResume, InitializeTray, RunMessageLoop, CloseHttp, JoinHttp,
                    ProcessTypes
<1>7. ProcessTypes' /\ PartsInv'
  BY <1>1, <1>5, <1>6 DEF ProcessTypes, PartsInv
<1>8. Serving' => main' \in 7 .. 10
  <2>1. CASE main \in {7, 8, 9}
    BY <1>1, <2>1
  <2>2. CASE main = 10
    BY <1>1, <1>3, <2>2 DEF Serving, ProcessTypes, Parts
  <2>3. CASE main = 11
    <3>1. ~Serving
      BY <2>3 DEF LifeInv, ServeInv
    <3> QED
      BY <1>3, <2>3, <3>1 DEF Serving
  <2> QED
    BY <1>3, <2>1, <2>2, <2>3
<1>9. (\E c \in HttpThreads : handler[c] # "none") => main' \in 7 .. 11
  BY <1>1, <1>3 DEF HandlersGone
<1> QED
  BY <1>1, <1>2, <1>4, <1>5, <1>7, <1>8, <1>9, MoveKeepsLifeInv DEF vars

\* The rest of the shutdown, after the last request and main's own commands.
LEMMA EndKeeps ==
  ASSUME LifeInv, StopStreamer \/ DestroyPart \/ DestroyCore \/ DestroyHub
  PROVE  LifeInv'
<1>1. /\ ProcessTypes /\ SwitchInv /\ main' = main + 1
      /\ UNCHANGED <<broadcast, thread, switched, missed, window, label, sent,
                     handler, tray, quit>>
  BY LifeTypes DEF StopStreamer, DestroyPart, DestroyCore, DestroyHub, GoOn, vars
<1>2. part' = part \/ \E p \in Parts : part' = [part EXCEPT ![p] = "off"]
  BY DEF StopStreamer, DestroyPart, Destructor, DestroyCore, DestroyHub, Off, Parts
<1>3. \/ main \in {13, 14, 15} /\ UNCHANGED <<receiving, scanning>>
      \/ /\ UNCHANGED <<receiving, scanning>>
         /\ \/ main = 17 /\ part' = [part EXCEPT !["http"] = "off"]
            \/ main = 18 /\ part' = [part EXCEPT !["rtsp"] = "off"]
            \/ main = 19 /\ part' = [part EXCEPT !["rtp"] = "off"]
            \/ main = 20 /\ part' = [part EXCEPT !["udp"] = "off"]
      \/ main = 21 /\ ~receiving' /\ ~scanning' /\ part' = part
      \/ main = 22 /\ UNCHANGED <<receiving, scanning>> /\ part' = part
  <2>1. CASE StopStreamer
    BY <1>1, <2>1, AtPlace DEF StopStreamer, ProcessTypes, vars
  <2>2. CASE DestroyPart
    BY <1>1, <2>2, AtPlace DEF DestroyPart, Destructor, Off, ProcessTypes, vars
  <2>3. CASE DestroyCore
    BY <1>1, <2>3, AtPlace DEF DestroyCore, ProcessTypes
  <2>4. CASE DestroyHub
    BY <1>1, <2>4, AtPlace DEF DestroyHub, ProcessTypes, vars
  <2> QED
    BY <2>1, <2>2, <2>3, <2>4
<1>4. receiving' \in BOOLEAN /\ scanning' \in BOOLEAN
  BY <1>1 DEF StopStreamer, DestroyPart, DestroyCore, DestroyHub, vars, SwitchInv, TypeOK
<1>5. SwitchInv'
  BY <1>1, <1>4, CoreKeepsSwitchInv
<1>6. /\ thread[Main].at = "idle" /\ ~Serving
      /\ \A c \in HttpThreads : handler[c] = "none"
  BY <1>3, MainIsIdle, NobodyServed
<1>7. ProcessTypes'
  BY <1>1, <1>2, <1>3 DEF ProcessTypes
<1>8. \A q \in Parts : part'[q] \in {part[q], "off"}
  BY <1>1, <1>2 DEF ProcessTypes
<1>9. PartsInv'
  <2>1. PartsInv
    BY DEF LifeInv
  <2>2. main = 17 => part'["http"] = "off"
    BY <1>1, <1>3 DEF ProcessTypes, Parts
  <2>3. main = 18 => part'["rtsp"] = "off"
    BY <1>1, <1>3 DEF ProcessTypes, Parts
  <2>4. main = 19 => part'["rtp"] = "off"
    BY <1>1, <1>3 DEF ProcessTypes, Parts
  <2>5. main = 20 => part'["udp"] = "off"
    BY <1>1, <1>3 DEF ProcessTypes, Parts
  <2> QED
    BY <1>1, <1>8, <2>1, <2>2, <2>3, <2>4, <2>5 DEF PartsInv, Parts, ProcessTypes
<1>10. ~Serving'
  BY <1>6, <1>8 DEF Serving, Parts
<1>11. main' > 21 => ~receiving' /\ ~scanning'
  BY <1>1, <1>3 DEF LifeInv, CoreInv
<1> QED
  BY <1>1, <1>5, <1>6, <1>7, <1>9, <1>10, <1>11, MoveKeepsLifeInv

LEMMA MainStepsKeep ==
  ASSUME LifeInv, MainSteps
  PROVE  LifeInv'
BY MainCallsKeeps, MainReturnsKeeps, LoadFailsKeeps, StartKeeps, LoopKeeps, EndKeeps
   DEF MainSteps

-----------------------------------------------------------------------------
(* The HTTP threads, the core, the clients and the user *)

LEMMA HttpThreadFacts ==
  ASSUME NEW c \in HttpThreads
  PROVE  c \in Commanders /\ c # Main
BY DEF HttpThreads

LEMMA AdmitKeeps ==
  ASSUME LifeInv, NEW c \in HttpThreads, Admit(c)
  PROVE  LifeInv'
<1>1. /\ ProcessTypes /\ SwitchInv /\ main \in 7 .. 10
      /\ handler' = [handler EXCEPT ![c] = "admitted"] /\ handler[c] = "none"
      /\ UNCHANGED <<vars, main, part, tray, quit>>
  BY LifeTypes DEF Admit, LifeInv, ServeInv, Serving
<1>2. SwitchInv'
  BY <1>1, NothingKeepsSwitchInv
<1>3. ProcessTypes'
  BY <1>1 DEF ProcessTypes
<1>4. MainInv' /\ PartsInv' /\ CoreInv'
  BY <1>1 DEF LifeInv, MainInv, PartsInv, CoreInv, vars
<1>5. ServeInv'
  BY <1>1 DEF LifeInv, ServeInv, Serving, ProcessTypes, vars
<1> QED
  BY <1>2, <1>3, <1>4, <1>5, LifeTypes DEF LifeInv

LEMMA CommandKeeps ==
  ASSUME LifeInv, NEW c \in HttpThreads, Command(c)
  PROVE  LifeInv'
<1>1. /\ ProcessTypes /\ SwitchInv /\ main \in 7 .. 11
      /\ handler' = [handler EXCEPT ![c] = "served"]
      /\ UNCHANGED <<main, part, tray, quit>>
  BY LifeTypes DEF Command, LifeInv, ServeInv
<1>2. PICK op \in Ops, b \in Broadcasts : Send(c, op, b)
  BY DEF Command
<1>3. SwitchInv'
  BY <1>1, <1>2, SendKeepsSwitchInv, HttpThreadFacts
<1>4. /\ \A d \in Commanders : d # c => thread'[d] = thread[d]
      /\ UNCHANGED <<receiving, scanning>>
  BY <1>1, <1>2, HttpThreadFacts, SentRequest DEF Request, Call, SwitchInv, TypeOK
<1>5. ProcessTypes'
  BY <1>1 DEF ProcessTypes
<1>6. MainInv' /\ PartsInv' /\ CoreInv'
  BY <1>1, <1>4, HttpThreadFacts, MainAssumption DEF LifeInv, MainInv, PartsInv, CoreInv
<1>7. ServeInv'
  <2> SUFFICES ASSUME NEW d \in HttpThreads
               PROVE  /\ handler'[d] # "none" => main' \in 7 .. 11
                      /\ thread'[d].at # "idle" => handler'[d] = "served"
    BY <1>1 DEF LifeInv, ServeInv, Serving
  <2>1. CASE d = c
    BY <1>1, <2>1 DEF ProcessTypes
  <2>2. CASE d # c
    BY <1>1, <1>4, <2>2, HttpThreadFacts DEF LifeInv, ServeInv, Serving, ProcessTypes
  <2> QED
    BY <2>1, <2>2
<1> QED
  BY <1>3, <1>5, <1>6, <1>7, LifeTypes DEF LifeInv

LEMMA ServesKeeps ==
  ASSUME LifeInv, NEW c \in HttpThreads, Serves(c)
  PROVE  LifeInv'
<1>1. /\ ProcessTypes /\ SwitchInv /\ Carry(c) /\ c \in Commanders /\ c # Main
      /\ UNCHANGED <<main, part, handler, tray, quit>>
  BY LifeTypes, HttpThreadFacts DEF Serves, process
<1>2. SwitchInv'
  BY <1>1, CarryKeepsSwitchInv
<1>3. /\ thread[c].at # "idle"
      /\ \A d \in Commanders : d # c => thread'[d] = thread[d]
  BY <1>1, CarryEffect
<1>4. main \in 7 .. 11 /\ handler[c] = "served"
  BY <1>3 DEF LifeInv, ServeInv
<1>5. ProcessTypes'
  BY <1>1 DEF ProcessTypes
<1>6. MainInv' /\ PartsInv' /\ CoreInv'
  BY <1>1, <1>3, <1>4, MainAssumption DEF LifeInv, MainInv, PartsInv, CoreInv
<1>7. ServeInv'
  BY <1>1, <1>3, <1>4, HttpThreadFacts DEF LifeInv, ServeInv, Serving
<1> QED
  BY <1>2, <1>5, <1>6, <1>7, LifeTypes DEF LifeInv

LEMMA LeaveKeeps ==
  ASSUME LifeInv, NEW c \in HttpThreads, Leave(c)
  PROVE  LifeInv'
<1>1. /\ ProcessTypes /\ SwitchInv /\ thread[c].at = "idle"
      /\ handler' = [handler EXCEPT ![c] = "none"]
      /\ UNCHANGED <<vars, main, part, tray, quit>>
  BY LifeTypes DEF Leave
<1>2. SwitchInv'
  BY <1>1, NothingKeepsSwitchInv
<1>3. ProcessTypes'
  BY <1>1 DEF ProcessTypes
<1>4. MainInv' /\ PartsInv' /\ CoreInv'
  BY <1>1 DEF LifeInv, MainInv, PartsInv, CoreInv, vars
<1>5. ServeInv'
  BY <1>1 DEF LifeInv, ServeInv, Serving, ProcessTypes, vars
<1> QED
  BY <1>2, <1>3, <1>4, <1>5, LifeTypes DEF LifeInv

LEMMA OthersKeep ==
  ASSUME LifeInv, CoreSteps \/ Clients, UNCHANGED process
  PROVE  LifeInv'
<1>1. /\ ProcessTypes /\ SwitchInv
      /\ UNCHANGED <<main, part, handler, tray, quit>>
  BY LifeTypes DEF process
<1>2. SwitchInv'
  BY <1>1, PacketKeepsSwitchInv, ScanEndsKeepsSwitchInv, PopKeepsSwitchInv
     DEF CoreSteps, Clients
<1>3. UNCHANGED <<thread, receiving>> /\ (scanning' = scanning \/ ~scanning')
  BY DEF CoreSteps, Clients, OnTs, ScanEnds, PopData
<1>4. ProcessTypes'
  BY <1>1 DEF ProcessTypes
<1>5. MainInv' /\ ServeInv' /\ PartsInv' /\ CoreInv'
  BY <1>1, <1>3 DEF LifeInv, MainInv, ServeInv, PartsInv, CoreInv, Serving
<1> QED
  BY <1>2, <1>4, <1>5, LifeTypes DEF LifeInv

LEMMA UserKeeps ==
  ASSUME LifeInv, Exit \/ Interrupt \/ UNCHANGED lifeVars
  PROVE  LifeInv'
<1>1. /\ ProcessTypes /\ SwitchInv
      /\ UNCHANGED <<vars, main, part, handler>>
      /\ tray' \in {tray, FALSE} /\ quit' \in {quit, TRUE}
  BY LifeTypes DEF Exit, Interrupt, lifeVars, process
<1>2. SwitchInv'
  BY <1>1, NothingKeepsSwitchInv
<1>3. ProcessTypes'
  BY <1>1 DEF ProcessTypes
<1>4. MainInv' /\ ServeInv' /\ PartsInv' /\ CoreInv'
  BY <1>1 DEF LifeInv, MainInv, ServeInv, PartsInv, CoreInv, Serving, vars
<1> QED
  BY <1>2, <1>3, <1>4, LifeTypes DEF LifeInv

LEMMA LifeStep == LifeInv /\ [LifeNext]_lifeVars => LifeInv'
<1> SUFFICES ASSUME LifeInv, [LifeNext]_lifeVars PROVE LifeInv'
  OBVIOUS
<1>1. CASE MainSteps
  BY <1>1, MainStepsKeep
<1>2. ASSUME NEW c \in HttpThreads, Admit(c) \/ Command(c) \/ Serves(c) \/ Leave(c)
      PROVE LifeInv'
  BY <1>2, AdmitKeeps, CommandKeeps, ServesKeeps, LeaveKeeps
<1>3. CASE (CoreSteps \/ Clients) /\ UNCHANGED process
  BY <1>3, OthersKeep
<1>4. CASE Exit \/ Interrupt \/ UNCHANGED lifeVars
  BY <1>4, UserKeeps
<1> QED
  BY <1>1, <1>2, <1>3, <1>4 DEF LifeNext

-----------------------------------------------------------------------------
(* The theorems about the process *)

\* Every reachable state of the process satisfies the inductive invariant.
THEOREM LifeInvariant == LifeSpec => []LifeInv
<1> QED
  BY LifeInitially, LifeStep, PTL DEF LifeSpec

\* Type correctness of the process and of the commands in it.
THEOREM LifeTypesHold == LifeSpec => []LifeTypeOK
<1>1. LifeInv => LifeTypeOK
  BY DEF LifeInv
<1> QED
  BY <1>1, LifeInvariant, PTL

\* TunerClient::Command in the running server: whatever main and the requests do
\* at once, no packet of an old broadcast is left once the calls that switched
\* have reset the hub.
THEOREM NoOldData == LifeSpec => []OldDataOnlyDuringSwitch
<1>1. LifeInv => OldDataOnlyDuringSwitch
  BY DEF LifeInv, SwitchInv
<1> QED
  BY <1>1, LifeInvariant, PTL

\* main.cpp's order of destruction: nobody is inside the core after its end, no
\* callback comes to a destroyed hub, and no request outlives Stop of the server.
THEOREM NothingIsUsedAfterItsEnd == LifeSpec => []NothingUsedAfterItsEnd
<1>1. LifeInv => NothingUsedAfterItsEnd
  <2> SUFFICES ASSUME LifeInv PROVE NothingUsedAfterItsEnd
    OBVIOUS
  <2>1. main \in 1 .. 23
    BY LifeTypes DEF ProcessTypes
  <2>2. ASSUME main > 21
        PROVE  /\ \A c \in Commanders : thread[c].at = "idle"
               /\ ~receiving /\ ~scanning
               /\ \A p \in Parts : part[p] = "off"
    <3>1. thread[Main].at = "idle"
      BY <2>2, MainIsIdle
    <3>2. \A c \in HttpThreads : thread[c].at = "idle"
      BY <2>2, NobodyServed
    <3>3. \A p \in Parts : part[p] = "off"
      BY <2>1, <2>2 DEF LifeInv, PartsInv, Parts
    <3> QED
      BY <2>2, <3>1, <3>2, <3>3 DEF HttpThreads, LifeInv, CoreInv
  <2>3. (\E c \in HttpThreads : handler[c] # "none") => main <= 11
    BY <2>1, NobodyServed
  <2> QED
    BY <2>2, <2>3, PlaceFacts DEF NothingUsedAfterItsEnd, Past
<1> QED
  BY <1>1, LifeInvariant, PTL

\* Also within the process a tune only empties the buffers when it was due.
THEOREM RetuneKeepsTheBufferInProcess == LifeSpec => RetuneKeepsBuffer
<1> DEFINE Due == \A c \in Commanders :
                    thread[c].op = "tune" /\ thread[c].at = "reset" /\ thread'[c].at = "idle"
                      => switched[c]
<1>1. LifeInv => [Due]_vars
  BY ResetWasDue DEF LifeInv
<1> QED
  BY <1>1, LifeInvariant, PTL DEF RetuneKeepsBuffer

\* After the scanner's shutdown nothing is tuned, no scan and no reception begins:
\* the requests that could ask for it are over, and main itself only stops.
THEOREM ShutdownStaysFinal == LifeSpec => ShutdownIsFinal
<1> DEFINE Final == Past("shutdown") => /\ broadcast' = broadcast
                                        /\ scanning' => scanning
                                        /\ receiving' => receiving
<1>1. LifeInv /\ [LifeNext]_lifeVars => [Final]_lifeVars
  <2> SUFFICES ASSUME LifeInv, LifeNext, main > 12
               PROVE  /\ broadcast' = broadcast
                      /\ scanning' => scanning
                      /\ receiving' => receiving
    BY PlaceFacts DEF Past
  <2>1. /\ ~Serving
        /\ \A c \in HttpThreads : handler[c] = "none" /\ thread[c].at = "idle"
    <3>1. main \notin 7 .. 11
      OBVIOUS
    <3> QED
      BY <3>1, NobodyServed
  <2>2. CASE MainReturns
    <3>1. CASE Execute(Main)
      <4>1. thread[Main].at # "idle" /\ main = 16 /\ thread[Main].op = Order[16]
        BY <3>1 DEF Execute, LifeInv, MainInv
      <4> QED
        BY <3>1, <4>1, Places DEF Execute, Retunes
    <3> QED
      BY <2>2, <3>1 DEF MainReturns, ResetHub, ExecuteFails
  <2>3. CASE MainSteps /\ ~MainReturns
    <3>1. CASE MainCalls \/ LoadFails
      <4>1. UNCHANGED <<broadcast, receiving, scanning>>
        BY <3>1 DEF MainCalls, Call, LoadFails, ExecuteFails
      <4> QED
        BY <4>1
    <3>2. CASE DestroyCore
      BY <3>2 DEF DestroyCore
    <3>3. CASE ~(MainCalls \/ LoadFails \/ DestroyCore)
      <4>1. UNCHANGED vars
        BY <2>3, <3>3 DEF MainSteps, NothingToResume, Start, StartFails, StartThrows,
                          InitializeTray, RunMessageLoop, CloseHttp, JoinHttp,
                          StopStreamer, DestroyPart, DestroyHub
      <4> QED
        BY <4>1 DEF vars
    <3> QED
      BY <3>1, <3>2, <3>3
  <2>4. ASSUME NEW c \in HttpThreads, Admit(c) \/ Command(c) \/ Serves(c) \/ Leave(c)
        PROVE FALSE
    <3>1. ~Serves(c)
      BY <2>1, CarryEffect, HttpThreadFacts DEF Serves, LifeInv
    <3> QED
      BY <2>1, <2>4, <3>1 DEF Admit, Command, Leave, Serving
  <2>5. CASE (CoreSteps \/ Clients) /\ UNCHANGED process
    <3>1. UNCHANGED <<broadcast, receiving>> /\ (scanning' = scanning \/ ~scanning')
      BY <2>5 DEF CoreSteps, Clients, OnTs, ScanEnds, PopData
    <3> QED
      BY <3>1
  <2>6. CASE Exit \/ Interrupt
    BY <2>6 DEF Exit, Interrupt, vars
  <2> QED
    BY <2>2, <2>3, <2>4, <2>5, <2>6 DEF LifeNext
<1> QED
  BY <1>1, LifeInvariant, PTL DEF LifeSpec, ShutdownIsFinal
=============================================================================
