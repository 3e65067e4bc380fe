--------------------------- MODULE ChannelSwitch ---------------------------
(***************************************************************************)
(* TunerClient::Command (src/src/TunerClient.cpp) and the buffers it has   *)
(* to clear. Several HTTP threads send commands to the tuner core at once; *)
(* the core runs one at a time, but Command itself is three steps: it asks *)
(* for the current channel ("tune" only), has the core execute, and resets *)
(* the hub if the broadcast changed. The core's own thread pushes packets  *)
(* of whatever is tuned between any two of them.                           *)
(*                                                                         *)
(* The core is external (a DLL without source): it is modelled by what     *)
(* docs/DLL_API.md says and src/ relies on. One subscriber stands for all, *)
(* since the hub resets them all; label tells each packet's broadcast.     *)
(***************************************************************************)
EXTENDS StreamWindow, Sequences

CONSTANTS Commanders,        \* threads that send commands
          Broadcasts,        \* a channel with its modulation
          Ops,               \* commands in use
          MaxPackets,        \* bound on the packets received
          MaxCommands        \* bound on the commands sent

AllOps == {"load", "initialize", "tune", "select", "restore", "scan", "stop", "cancel",
           "shutdown"}

ASSUME SwitchAssumption == /\ Capacity \in Nat \ {0}
                           /\ Ops \subseteq AllOps
                           /\ MaxPackets \in Nat /\ MaxCommands \in Nat

VARIABLES broadcast,         \* core: what the device is tuned to
          receiving,         \* core: packets are arriving
          scanning,          \* core: a scan runs, the callback is suspended
          thread,            \* each Command call: step, op, target, tuneChanged
          switched,          \* history: broadcast changed since this tune began
          missed,            \* history: a tune switched that had seen no need to
          window,            \* the subscriber's buffer
          label,             \* the broadcast of each packet, by position
          sent               \* commands sent

vars == <<broadcast, receiving, scanning, thread, switched, missed, window, label, sent>>

Idle == [at |-> "idle", op |-> "none", target |-> "none", tuneChanged |-> FALSE]

Init ==
  /\ broadcast \in Broadcasts
  /\ receiving = FALSE /\ scanning = FALSE
  /\ thread = [c \in Commanders |-> Idle]
  /\ switched = [c \in Commanders |-> FALSE]
  /\ missed = FALSE
  /\ window = EmptyAt(0) /\ label = <<>>
  /\ sent = 0

-----------------------------------------------------------------------------
(* TunerClient::Command *)

Retunes(op) == op \in {"tune", "select", "restore"}

\* Only "tune" looks at the status before it executes.
Call(c, op, target) ==
  /\ thread[c].at = "idle"
  /\ thread' = [thread EXCEPT ![c] =
       [at |-> IF op = "tune" THEN "query" ELSE "execute", op |-> op,
        target |-> IF Retunes(op) THEN target ELSE "none", tuneChanged |-> FALSE]]
  /\ UNCHANGED <<broadcast, receiving, scanning, switched, missed, window, label>>

Return(c) ==
  /\ thread' = [thread EXCEPT ![c] = Idle]
  /\ switched' = [switched EXCEPT ![c] = FALSE]

\* A command of an HTTP request: of the dashboard's, by its route, of /api/tune, or
\* of a /stream, which tunes before it subscribes.
Request(c, op, target) ==
  /\ sent < MaxCommands /\ sent' = sent + 1
  /\ op \in Ops /\ Call(c, op, target)

ChannelRequest(c, op, target) ==
  op \in {"scan", "cancel", "select", "stop"} /\ Request(c, op, target)

TuneRequest(c, op, target) == op = "tune" /\ Request(c, op, target)

StreamRequest(c, op, target) == op = "tune" /\ Request(c, op, target)

Send(c, op, target) == \/ ChannelRequest(c, op, target)
                       \/ TuneRequest(c, op, target) \/ StreamRequest(c, op, target)

\* Variant: every tune counts as a change.
AnyTuneDiffers(target) == TRUE

Differs(target) == broadcast # target

QueryStatus(c) ==
  /\ thread[c].at = "query"
  /\ thread' = [thread EXCEPT ![c].at = "execute",
                              ![c].tuneChanged = Differs(thread[c].target)]
  /\ UNCHANGED <<broadcast, receiving, scanning, switched, missed, window, label, sent>>

\* The status query throws: Command leaves with the exception.
QueryFails(c) ==
  /\ thread[c].at = "query"
  /\ Return(c)
  /\ UNCHANGED <<broadcast, receiving, scanning, missed, window, label, sent>>

\* Variant: a selected broadcast leaves the buffers as they are.
ResetsUnlessSelected(t) == t.op \in {"restore", "scan", "stop"} \/ t.tuneChanged

ResetsHub(t) == t.op \in {"select", "restore", "scan", "stop"} \/ t.tuneChanged

\* The core carries the command out; the call goes on to the reset or returns.
\* During a scan it refuses to tune and to scan again; a cancel only asks the
\* scan to end, a stop ends it, and a shutdown waits for its end.
Execute(c) ==
  LET t == thread[c] IN
  /\ t.at = "execute"
  /\ scanning => t.op \in {"stop", "cancel"}
  /\ broadcast' = IF Retunes(t.op) THEN t.target ELSE broadcast
  /\ receiving' = IF Retunes(t.op) THEN TRUE
                  ELSE IF t.op = "stop" THEN FALSE ELSE receiving
  /\ scanning' = (t.op = "scan" \/ (scanning /\ t.op # "stop"))
  /\ missed' = (missed \/ (t.op = "tune" /\ ~t.tuneChanged /\ broadcast' # broadcast))
  /\ thread' = [thread EXCEPT ![c] = IF ResetsHub(t) THEN [t EXCEPT !.at = "reset"]
                                     ELSE Idle]
  /\ switched' = [d \in Commanders |-> thread'[d].op = "tune"
                                      /\ (switched[d] \/ broadcast' # broadcast)]
  /\ UNCHANGED <<window, label, sent>>

\* The core refuses: the broadcast stays as it was and so do the buffers.
ExecuteFails(c) ==
  /\ thread[c].at = "execute"
  /\ thread[c].op = "shutdown" => ~scanning
  /\ Return(c)
  /\ UNCHANGED <<broadcast, receiving, scanning, missed, window, label, sent>>

ResetHub(c) ==
  /\ thread[c].at = "reset"
  /\ window' = Cleared(window)
  /\ Return(c)
  /\ UNCHANGED <<broadcast, receiving, scanning, missed, label, sent>>

-----------------------------------------------------------------------------
(* The core's thread and the client's *)

\* OnTs: a packet of the tuned broadcast reaches the hub; not during a scan.
OnTs ==
  /\ receiving /\ ~scanning
  /\ Len(label) < MaxPackets
  /\ label' = Append(label, broadcast)
  /\ window' = Appended(window, 1)
  /\ UNCHANGED <<broadcast, receiving, scanning, thread, switched, missed, sent>>

\* A finished scan restores the reception it interrupted.
ScanEnds ==
  /\ scanning
  /\ scanning' = FALSE
  /\ UNCHANGED <<broadcast, receiving, thread, switched, missed, window, label, sent>>

PopData(n) ==
  /\ CanTake(window, n)
  /\ window' = Taken(window, n)
  /\ UNCHANGED <<broadcast, receiving, scanning, thread, switched, missed, label, sent>>

-----------------------------------------------------------------------------
Carry(c) == \/ QueryStatus(c) \/ QueryFails(c)
            \/ Execute(c) \/ ExecuteFails(c)
            \/ ResetHub(c)

Next == \/ \E c \in Commanders :
             \/ \E op \in Ops, b \in Broadcasts : Send(c, op, b)
             \/ Carry(c)
        \/ OnTs \/ ScanEnds
        \/ \E n \in 1..Capacity : PopData(n)

Spec == Init /\ [][Next]_vars

-----------------------------------------------------------------------------
(* Properties *)

TypeOK ==
  /\ broadcast \in Broadcasts
  /\ receiving \in BOOLEAN /\ scanning \in BOOLEAN
  /\ thread \in [Commanders -> [at : {"idle", "query", "execute", "reset"},
                                op : AllOps \cup {"none"},
                                target : Broadcasts \cup {"none"},
                                tuneChanged : BOOLEAN]]
  /\ switched \in [Commanders -> BOOLEAN] /\ missed \in BOOLEAN
  /\ window \in Windows
  /\ window.low <= window.high /\ window.high = Len(label)
  /\ label \in Seq(Broadcasts)
  /\ sent \in 0..MaxCommands

\* Packets of an earlier broadcast are still buffered. Positions count from 0.
Stale == \E p \in window.low .. window.high - 1 : label[p + 1] # broadcast

\* TunerClient.cpp: once a command that switched the broadcast has succeeded,
\* nothing of the broadcast before is left in the buffers. Whatever threads do at
\* once, old packets are only there while some call is between its execution and
\* its reset, but for one case: a tune that switches though the status it had
\* looked at was its target already.
OldDataOnlyDuringSwitch ==
  Stale /\ ~missed => \E c \in Commanders : thread[c].at = "reset"

\* The same without the exception, as far as all callers are concerned: when no
\* command is under way clients are only given the tuned broadcast.
QuietMeansCurrent ==
  (\A c \in Commanders : thread[c].at = "idle") => ~Stale

\* Tuning to the broadcast that is already tuned does not take buffered data
\* away from the clients (docs: a player that joins the same broadcast). A tune
\* only resets when the broadcast changed during the call, by it or another one.
RetuneKeepsBuffer ==
  [][\A c \in Commanders :
       thread[c].op = "tune" /\ thread[c].at = "reset" /\ thread'[c].at = "idle"
         => switched[c]]_vars

=============================================================================
