-------------------------- MODULE DropOldestQueue --------------------------
(***************************************************************************)
(* What TsSubscriber promises its two users.  The tuner thread appends     *)
(* without ever waiting for the client; the client receives the stream in  *)
(* order, gaps only where it fell more than Capacity behind; a channel     *)
(* change clears the queue; a closed queue neither accepts nor delivers.   *)
(* No ring, no index and no wake-up is mentioned here.                     *)
(***************************************************************************)
EXTENDS StreamWindow, Sequences

CONSTANTS PushSizes, PopSizes   \* what one append and one take may move

VARIABLES window,            \* the run of the stream that is buffered
          chunk              \* the last data handed to the client

qvars == <<window, chunk>>

QInit == window = EmptyAt(0) /\ chunk = <<>>

QAppend(n) == window.open /\ window' = Appended(window, n) /\ UNCHANGED chunk

QTake(n) ==
  /\ CanTake(window, n)
  /\ chunk' = Oldest(window, n)
  /\ window' = Taken(window, n)

QClear == window' = Cleared(window) /\ UNCHANGED chunk

QClose == window' = Closed(window) /\ UNCHANGED chunk

QNext == \/ \E n \in PushSizes : QAppend(n)
         \/ \E n \in PopSizes : QTake(n)
         \/ QClear
         \/ QClose

QSpec == QInit /\ [][QNext]_qvars
=============================================================================
