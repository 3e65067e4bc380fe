---------------------------- MODULE StreamWindow ----------------------------
(***************************************************************************)
(* What one subscriber of the TS fan-out may still deliver, as a window    *)
(* of the transport stream.  Positions number the data in the order the    *)
(* tuner produced it, so a window low .. high-1 is a run without gaps:     *)
(* a bounded queue that makes room by forgetting its oldest data keeps     *)
(* exactly such a run.  Pure operators, used by the abstract queue         *)
(* (DropOldestQueue) and by the hub that owns many queues (TsBroadcaster). *)
(***************************************************************************)
EXTENDS Naturals

CONSTANT Capacity            \* the most a window holds

Windows == [low : Nat, high : Nat, open : BOOLEAN]

\* A subscriber created when the stream is at position p holds nothing.
EmptyAt(p) == [low |-> p, high |-> p, open |-> TRUE]

Buffered(w) == w.high - w.low

\* n more units: the newest Capacity of them are kept, a closed window none.
Appended(w, n) ==
  IF ~w.open THEN w
  ELSE [w EXCEPT !.high = @ + n,
                 !.low  = IF w.high + n - w.low > Capacity
                          THEN w.high + n - Capacity ELSE @]

CanTake(w, n) == w.open /\ n <= Buffered(w)

\* The oldest n units, handed over in stream order.
Oldest(w, n) == [i \in 1..n |-> w.low + (i - 1)]

Taken(w, n) == [w EXCEPT !.low = @ + n]

Cleared(w) == [w EXCEPT !.low = w.high]

Closed(w) == [w EXCEPT !.open = FALSE]
=============================================================================
