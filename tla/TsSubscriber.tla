---------------------------- MODULE TsSubscriber ----------------------------
(***************************************************************************)
(* One TsSubscriber (src/src/TsBroadcaster.cpp): the byte ring between the *)
(* tuner's callback thread and one client thread.  Every critical section  *)
(* of m_mutex is one step; the notifications that follow an unlock, the    *)
(* wait_for of PopData and its timeout are steps of their own, so a push,  *)
(* a Stop and a Reset of other threads fall anywhere between them.         *)
(*                                                                         *)
(* A byte is its position in the stream this subscriber accepted, which    *)
(* is all the properties tell apart: NoByte is the zero a ring starts with.*)
(***************************************************************************)
EXTENDS Integers, Sequences

CONSTANTS PacketSize,        \* TS_PACKET_SIZE
          RawCapacity,       \* the capacity asked of the constructor
          PushSizes,         \* sizes the core may push
          PopSizes,          \* sizes a client may ask for
          MaxBytes           \* bound on the bytes pushed

\* Variant: the capacity is taken as asked for.
CapacityAsAsked == RawCapacity

\* The constructor keeps whole packets only.
Capacity == (RawCapacity \div PacketSize) * PacketSize

ASSUME PacketAssumption == PacketSize \in Nat \ {0}
ASSUME SizeAssumption == /\ RawCapacity \in Nat
                         /\ PushSizes \subseteq Nat
                         /\ PopSizes \subseteq Nat
                         /\ MaxBytes \in Nat
\* Below one packet the constructor throws and no subscriber exists.
ASSUME ConstructedAssumption == Capacity >= PacketSize

VARIABLES ring, head, tail, count, active,
          pushed,            \* history: bytes accepted so far
          resetAt,           \* history: value of pushed at the last Reset
          notify,            \* notifications owed after an unlock
          reader, wanted,    \* the thread in PopData and the size it asked for
          chunk, popped      \* outBuf of the last good pop, last return value

vars == <<ring, head, tail, count, active, pushed, resetAt, notify,
          reader, wanted, chunk, popped>>

buffer == <<ring, head, tail, count>>
client == <<reader, wanted, chunk, popped>>

Slots == 0 .. Capacity - 1
NoByte == -1
Aligned(n) == n % PacketSize = 0
Lesser(m, n) == IF m <= n THEN m ELSE n

Init ==
  /\ ring = [k \in Slots |-> NoByte]
  /\ head = 0 /\ tail = 0 /\ count = 0
  /\ active = TRUE
  /\ pushed = 0 /\ resetAt = 0
  /\ notify = {}
  /\ reader = "idle" /\ wanted = 0
  /\ chunk = <<>> /\ popped = FALSE

-----------------------------------------------------------------------------
(* The tuner thread *)

\* Variant: the copy does not go on at the start of the ring.
WrittenOnce(first, size) ==
  LET firstPart == Lesser(size, Capacity - head) IN
  [k \in Slots |-> IF head <= k /\ k < head + firstPart THEN first + (k - head)
                   ELSE ring[k]]

\* The two memcpys of size bytes, the first of which is stream byte first.
Written(first, size) ==
  LET firstPart == Lesser(size, Capacity - head) IN
  [k \in Slots |-> IF head <= k /\ k < head + firstPart THEN first + (k - head)
                   ELSE IF k < size - firstPart THEN first + firstPart + k
                   ELSE ring[k]]

\* Variant: a full ring is written over without moving tail and count.
OverflowForgotten(size) == 0

\* The oldest bytes that make room for size new ones.
Overflow(size) == IF count + size > Capacity THEN count + size - Capacity ELSE 0

\* An empty push returns at once, a misaligned one throws, and a stopped
\* subscriber ignores the data: none of them changes anything.
PushData(n) ==
  LET size == Lesser(n, Capacity)
  IN /\ "push" \notin notify
     /\ n > 0 /\ Aligned(n)
     /\ active
     /\ pushed + n <= MaxBytes
     /\ ring' = Written(pushed + (n - size), size)
     /\ head' = (head + size) % Capacity
     /\ tail' = (tail + Overflow(size)) % Capacity
     /\ count' = (count - Overflow(size)) + size
     /\ pushed' = pushed + n
     /\ notify' = notify \cup {"push"}
     /\ UNCHANGED <<active, resetAt, client>>

-----------------------------------------------------------------------------
(* Stop and Reset, from whichever thread *)

Stop ==
  /\ "stop" \notin notify
  /\ active' = FALSE
  /\ notify' = notify \cup {"stop"}
  /\ UNCHANGED <<buffer, pushed, resetAt, client>>

Emptied == head' = 0 /\ tail' = 0 /\ count' = 0

Reset ==
  /\ Emptied
  /\ resetAt' = pushed
  /\ UNCHANGED <<ring, active, pushed, notify, client>>

\* notify_one of PushData, notify_all of Stop: one thread at most is waiting.
Notify(who) ==
  /\ who \in notify
  /\ notify' = notify \ {who}
  /\ reader' = IF reader = "asleep" THEN "awake" ELSE reader
  /\ UNCHANGED <<buffer, active, pushed, resetAt, wanted, chunk, popped>>

-----------------------------------------------------------------------------
(* The client thread *)

\* Variant: the copy out runs on instead of wrapping.
ReadFromUnwrapped(size) ==
  [i \in 1..size |-> IF tail + (i - 1) < Capacity THEN ring[tail + (i - 1)]
                     ELSE ring[i - 1]]

ReadFrom(size) ==
  LET firstPart == Lesser(size, Capacity - tail) IN
  [i \in 1..size |-> IF i <= firstPart THEN ring[tail + (i - 1)]
                     ELSE ring[(i - 1) - firstPart]]

\* Variant: the wait does not look at m_active.
ReadyIgnoringStop(size) == count >= size

Ready(size) == count >= size \/ ~active

\* Variant: what is buffered is delivered after a Stop too.
DeliversLeftovers(size) == count >= size

\* A stopped queue delivers nothing, however much it holds.
Delivers(size) == active

\* The wait is over: with an active queue the data is there.
Finish(size) ==
  /\ reader' = "idle"
  /\ popped' = Delivers(size)
  /\ IF Delivers(size)
     THEN /\ chunk' = ReadFrom(size)
          /\ tail' = (tail + size) % Capacity
          /\ count' = count - size
     ELSE UNCHANGED <<chunk, tail, count>>
  /\ UNCHANGED <<ring, head>>

\* The call that takes the lock and finds its predicate true or goes to sleep.
PopData(size) ==
  /\ reader = "idle"
  /\ size > 0 /\ size <= Capacity /\ Aligned(size)
  /\ wanted' = size
  /\ \/ Ready(size) /\ Finish(size)
     \/ /\ ~Ready(size)
        /\ reader' = "asleep"
        /\ UNCHANGED <<buffer, chunk, popped>>
  /\ UNCHANGED <<active, pushed, resetAt, notify>>

\* A request the queue can never serve is refused without waiting.
PopRefused(size) ==
  /\ reader = "idle"
  /\ size = 0 \/ size > Capacity \/ ~Aligned(size)
  /\ popped' = FALSE
  /\ UNCHANGED <<buffer, active, pushed, resetAt, notify, reader, wanted, chunk>>

Spurious ==
  /\ reader = "asleep"
  /\ reader' = "awake"
  /\ UNCHANGED <<buffer, active, pushed, resetAt, notify, wanted, chunk, popped>>

Timeout ==
  /\ reader = "asleep"
  /\ reader' = "expired"
  /\ UNCHANGED <<buffer, active, pushed, resetAt, notify, wanted, chunk, popped>>

\* wait_for looks at its predicate again, also when the time has run out.
Recheck ==
  /\ reader \in {"awake", "expired"}
  /\ \/ Ready(wanted) /\ Finish(wanted)
     \/ /\ ~Ready(wanted) /\ reader = "awake"
        /\ reader' = "asleep"
        /\ UNCHANGED <<buffer, chunk, popped>>
     \/ /\ ~Ready(wanted) /\ reader = "expired"
        /\ reader' = "idle"
        /\ popped' = FALSE
        /\ UNCHANGED <<buffer, chunk>>
  /\ UNCHANGED <<active, pushed, resetAt, notify, wanted>>

-----------------------------------------------------------------------------
Next == \/ \E n \in PushSizes : PushData(n)
        \/ \E size \in PopSizes : PopData(size) \/ PopRefused(size)
        \/ \E who \in {"push", "stop"} : Notify(who)
        \/ Stop \/ Reset
        \/ Spurious \/ Timeout \/ Recheck

Spec == Init /\ [][Next]_vars

\* A thread past its unlock reaches its notify, a woken one runs.  The timeout
\* is not counted on: waking up must not depend on it.
Fairness == /\ \A who \in {"push", "stop"} : WF_vars(Notify(who))
            /\ WF_vars(Recheck)

LiveSpec == Spec /\ Fairness

-----------------------------------------------------------------------------
(* Properties *)

\* Types, with the reader's request one that passed the argument check.
TypeOK ==
  /\ ring \in [Slots -> Nat \cup {NoByte}]
  /\ head \in Slots /\ tail \in Slots /\ count \in 0..Capacity
  /\ active \in BOOLEAN /\ popped \in BOOLEAN
  /\ pushed \in Nat /\ resetAt \in Nat
  /\ notify \subseteq {"push", "stop"}
  /\ reader \in {"idle", "asleep", "awake", "expired"}
  /\ wanted \in 0..Capacity
  /\ chunk \in Seq(Nat \cup {NoByte})

\* The slot that holds the i-th oldest buffered byte.
SlotOf(i) == IF tail + i < Capacity THEN tail + i ELSE tail + i - Capacity

\* The two indices and the count agree, whatever mix of pushes that wrap,
\* pushes that drop, pops that wrap and Resets led here: head is the slot
\* after the newest byte and nothing is counted that was never accepted.
IndicesAgree ==
  /\ head = (tail + count) % Capacity
  /\ count <= pushed - resetAt

\* The ring holds exactly the newest count bytes of the stream, oldest at
\* tail, without a gap: overwriting, dropping and wrapping never leave a stale
\* or foreign byte among the buffered ones.
HoldsNewest ==
  \A i \in 0 .. count - 1 : ring[SlotOf(i)] = pushed - count + i

\* Everything stays on packet boundaries, so dropping the oldest bytes never
\* makes a client lose TS synchronisation.
OnPacketBoundary == Aligned(tail) /\ Aligned(count) /\ Aligned(pushed)

\* The ring is sound: all three of the above.
RingAgrees == IndicesAgree /\ HoldsNewest /\ OnPacketBoundary

\* What a client receives is a gapless run of whole packets.
WholePackets ==
  chunk # <<>> => /\ Aligned(chunk[1]) /\ Aligned(Len(chunk))
                  /\ \A i \in 1..Len(chunk) : chunk[i] = chunk[1] + (i - 1)

\* A client never receives a byte twice or out of order, and after a Reset
\* nothing of the previous channel.
ForwardOnly ==
  [][chunk' # chunk =>
       /\ chunk'[1] >= resetAt
       /\ chunk # <<>> => chunk'[1] > chunk[Len(chunk)]]_vars

\* The ring implements the abstract queue.
Queue == INSTANCE DropOldestQueue
           WITH window <- [low |-> pushed - count, high |-> pushed, open |-> active]
ImplementsQueue == Queue!QSpec

\* A client blocked in PopData comes back once the queue is stopped, and once
\* the data it waits for is there (unless a Reset takes it away first), both
\* without the help of the timeout.
StopWakes == (reader = "asleep" /\ ~active) ~> (reader = "idle")
DataWakes == (reader = "asleep" /\ count >= wanted)
                ~> (reader = "idle" \/ count < wanted)
ReaderWakes == StopWakes /\ DataWakes
=============================================================================
