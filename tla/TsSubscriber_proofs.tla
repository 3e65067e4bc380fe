------------------------ MODULE TsSubscriber_proofs ------------------------
(***************************************************************************)
(* The ring of TsSubscriber is correct for every capacity, packet size and *)
(* mix of request sizes: the indices agree, the buffered bytes are the     *)
(* newest of the stream without a gap, packets stay whole, and the ring    *)
(* implements DropOldestQueue.                                             *)
(***************************************************************************)
EXTENDS TsSubscriber, TLAPS

-----------------------------------------------------------------------------
(* Arithmetic of indices and of packet boundaries *)

\* Division with remainder, in the one form the solver can use.
LEMMA DivisionFacts ==
  ASSUME NEW a \in Nat, NEW b \in Nat \ {0}
  PROVE  /\ a % b \in 0 .. b - 1
         /\ a \div b \in Nat
         /\ a = b * (a \div b) + (a % b)
OBVIOUS

\* A multiple of d leaves no remainder.
LEMMA MultipleLeavesNothing ==
  ASSUME NEW b \in Nat \ {0}, NEW q \in Nat
  PROVE  (b * q) % b = 0
OBVIOUS

\* An index that ran over the end by less than a whole ring.
LEMMA WrapOnce ==
  ASSUME NEW b \in Nat \ {0}, NEW x \in 0 .. 2 * b - 1
  PROVE  x % b = IF x < b THEN x ELSE x - b
<1>1. CASE x < b
  BY <1>1
<1>2. CASE ~(x < b)
  BY <1>2
<1> QED
  BY <1>1, <1>2

\* The constructor rounds the capacity to whole packets, and at least one.
LEMMA CapacityIsPackets ==
  /\ Capacity \in Nat \ {0}
  /\ PacketSize \in Nat \ {0}
  /\ PacketSize <= Capacity
  /\ Aligned(Capacity)
<1>1. RawCapacity \div PacketSize \in Nat
  BY PacketAssumption, SizeAssumption, DivisionFacts
<1>2. PacketSize * (RawCapacity \div PacketSize) \in Nat
  BY <1>1, PacketAssumption
<1>3. Capacity = PacketSize * (RawCapacity \div PacketSize)
  BY <1>1, PacketAssumption DEF Capacity
<1>4. Aligned(Capacity)
  BY <1>1, <1>3, PacketAssumption, MultipleLeavesNothing DEF Aligned
<1> QED
  BY <1>2, <1>3, <1>4, PacketAssumption, ConstructedAssumption

\* Adding whole packets to whole packets (m_count += size).
LEMMA AlignedSum ==
  ASSUME NEW x \in Nat, NEW y \in Nat, Aligned(x), Aligned(y)
  PROVE  Aligned(x + y)
<1> DEFINE q == x \div PacketSize
           r == y \div PacketSize
<1>1. x = PacketSize * q /\ q \in Nat
  BY DivisionFacts, PacketAssumption DEF Aligned
<1>2. y = PacketSize * r /\ r \in Nat
  BY DivisionFacts, PacketAssumption DEF Aligned
<1> HIDE DEF q, r
<1>3. x + y = PacketSize * (q + r)
  BY <1>1, <1>2, PacketAssumption
<1> QED
  BY <1>1, <1>2, <1>3, PacketAssumption, MultipleLeavesNothing DEF Aligned

\* Taking whole packets off whole packets (m_count -= size).
LEMMA AlignedDifference ==
  ASSUME NEW x \in Nat, NEW y \in Nat, y <= x, Aligned(x), Aligned(y)
  PROVE  Aligned(x - y)
<1> DEFINE q == x \div PacketSize
           r == y \div PacketSize
<1>1. x = PacketSize * q /\ q \in Nat
  BY DivisionFacts, PacketAssumption DEF Aligned
<1>2. y = PacketSize * r /\ r \in Nat
  BY DivisionFacts, PacketAssumption DEF Aligned
<1> HIDE DEF q, r
<1>3. x - y = PacketSize * (q - r)
  BY <1>1, <1>2, PacketAssumption
<1>4. q - r \in Nat
  BY <1>1, <1>2, PacketAssumption
<1> QED
  BY <1>3, <1>4, PacketAssumption, MultipleLeavesNothing DEF Aligned

\* An empty ring is on a packet boundary.
LEMMA AlignedZero == Aligned(0)
BY PacketAssumption DEF Aligned

\* The slot n places after slot i.
Moved(i, n) == IF i + n < Capacity THEN i + n ELSE i + n - Capacity

\* A slot index moved forward by at most a whole ring, as tail and head are.
LEMMA AdvancedIndex ==
  ASSUME NEW i \in Slots, NEW n \in 0 .. Capacity
  PROVE  /\ (i + n) % Capacity = Moved(i, n)
         /\ Moved(i, n) \in Slots
         /\ Aligned(i) /\ Aligned(n) => Aligned(Moved(i, n))
<1>1. (i + n) % Capacity = Moved(i, n)
  <2>1. PICK x \in 0 .. 2 * Capacity - 1 : x = i + n
    BY CapacityIsPackets DEF Slots
  <2>2. x % Capacity = IF x < Capacity THEN x ELSE x - Capacity
    BY CapacityIsPackets, WrapOnce
  <2> QED
    BY <2>1, <2>2, CapacityIsPackets DEF Slots, Moved
<1>2. ASSUME Aligned(i), Aligned(n)
      PROVE  Aligned(Moved(i, n))
  <2>1. Aligned(i + n)
    BY <1>2, AlignedSum, CapacityIsPackets DEF Slots
  <2>2. i + n >= Capacity => Aligned(i + n - Capacity)
    BY <2>1, AlignedDifference, CapacityIsPackets DEF Slots
  <2> QED
    BY <2>1, <2>2, CapacityIsPackets DEF Slots, Moved
<1> QED
  BY <1>1, <1>2, CapacityIsPackets DEF Slots, Moved

\* A push of s bytes onto c, o of which make room, seen from slot t: head
\* stays behind the newest byte, the bytes kept keep their slots, and the new
\* ones follow the old head.
LEMMA PushedSlots ==
  ASSUME NEW t \in Slots, NEW c \in 0 .. Capacity, NEW s \in 1 .. Capacity,
         NEW o \in 0 .. c, o >= c + s - Capacity
  PROVE  /\ Moved(Moved(t, c), s) = Moved(Moved(t, o), (c - o) + s)
         /\ \A i \in 0 .. c - o - 1 : Moved(Moved(t, o), i) = Moved(t, o + i)
         /\ \A j \in 0 .. s - 1 :
               Moved(Moved(t, o), (c - o) + j) = Moved(Moved(t, c), j)
BY CapacityIsPackets DEF Slots, Moved

\* The two memcpys of PushData put the i-th new byte i slots after head.
LEMMA NewBytesWritten ==
  ASSUME TypeOK, NEW first \in Nat, NEW size \in 1 .. Capacity,
         NEW j \in 0 .. size - 1
  PROVE  Written(first, size)[Moved(head, j)] = first + j
<1>1. head \in Slots /\ Capacity \in Nat \ {0}
  BY CapacityIsPackets DEF TypeOK
<1>2. CASE head + j < Capacity
  BY <1>1, <1>2 DEF Written, Lesser, Moved, Slots
<1>3. CASE ~(head + j < Capacity)
  BY <1>1, <1>3 DEF Written, Lesser, Moved, Slots
<1> QED
  BY <1>2, <1>3

\* The two memcpys of PushData do not touch the count bytes that stay.
LEMMA KeptBytesUntouched ==
  ASSUME TypeOK, head = Moved(tail, count), NEW first \in Nat,
         NEW size \in 1 .. Capacity, NEW o \in 0 .. count,
         o >= count + size - Capacity, NEW i \in 0 .. count - o - 1
  PROVE  Written(first, size)[Moved(tail, o + i)] = ring[Moved(tail, o + i)]
<1>1. /\ tail \in Slots /\ head \in Slots /\ count \in 0 .. Capacity
      /\ Capacity \in Nat \ {0}
  BY CapacityIsPackets DEF TypeOK
<1>2. PICK k \in Slots : k = Moved(tail, o + i)
  <2>1. Moved(tail, o + i) \in Slots
    BY <1>1 DEF Moved, Slots
  <2> QED
    BY <2>1
<1>3. /\ ~(head <= k /\ k < head + size)
      /\ ~(k < head + size - Capacity)
  BY <1>1, <1>2 DEF Moved, Slots
<1>4. Written(first, size)[k] = ring[k]
  BY <1>1, <1>3 DEF Written, Lesser, Slots
<1> QED
  BY <1>2, <1>4

-----------------------------------------------------------------------------
(* The inductive invariant *)

\* A blocked or woken reader waits for a size that passed the argument check.
RequestOK ==
  reader # "idle" => /\ wanted \in PopSizes
                     /\ wanted \in 1 .. Capacity /\ Aligned(wanted)

\* What was delivered lies before what is buffered.
ChunkPast ==
  chunk # <<>> => /\ Len(chunk) \in Nat \ {0}
                  /\ chunk[Len(chunk)] < pushed - count

Inv == /\ TypeOK
       /\ RequestOK
       /\ IndicesAgree
       /\ HoldsNewest
       /\ OnPacketBoundary
       /\ WholePackets
       /\ ChunkPast

\* The constructor establishes the invariant.
LEMMA InitInv == Init => Inv
<1> SUFFICES ASSUME Init PROVE Inv
  OBVIOUS
<1> USE CapacityIsPackets DEF Init
<1>1. TypeOK
  <2>1. 0 \in Slots /\ 0 \in 0 .. Capacity
    BY DEF Slots
  <2>2. chunk \in Seq(Nat \cup {NoByte})
    OBVIOUS
  <2> QED
    BY <2>1, <2>2 DEF TypeOK
<1>2. RequestOK /\ HoldsNewest /\ WholePackets /\ ChunkPast
  BY DEF RequestOK, HoldsNewest, WholePackets, ChunkPast
<1>3. IndicesAgree
  BY WrapOnce DEF IndicesAgree
<1>4. OnPacketBoundary
  BY AlignedZero DEF OnPacketBoundary
<1> QED
  BY <1>1, <1>2, <1>3, <1>4 DEF Inv

\* The index agreement without modulus.
LEMMA HeadSlot ==
  ASSUME TypeOK
  PROVE  (tail + count) % Capacity = Moved(tail, count)
BY AdvancedIndex DEF TypeOK

\* The slots of the buffered bytes are counted from tail.
LEMMA SlotOfIsMoved == \A i : SlotOf(i) = Moved(tail, i)
BY DEF SlotOf, Moved

-----------------------------------------------------------------------------
(* One push *)

\* What PushData stores and drops: never more than fits, always whole packets.
LEMMA PushSizeFacts ==
  ASSUME Inv, NEW n \in PushSizes, PushData(n)
  PROVE  LET size == Lesser(n, Capacity) IN
         /\ n \in Nat \ {0}
         /\ size \in 1 .. Capacity /\ size <= n /\ (n <= Capacity => size = n)
         /\ (n > Capacity => size = Capacity)
         /\ Aligned(size)
         /\ Overflow(size) \in 0 .. count
         /\ Overflow(size) >= count + size - Capacity
         /\ Overflow(size) = 0 \/ Overflow(size) = count + size - Capacity
         /\ Aligned(Overflow(size))
<1> DEFINE size == Lesser(n, Capacity)
<1>1. /\ n \in Nat \ {0} /\ Aligned(n)
      /\ count \in 0 .. Capacity /\ Aligned(count)
  BY SizeAssumption DEF PushData, Inv, TypeOK, OnPacketBoundary
<1>2. /\ size \in 1 .. Capacity /\ size <= n /\ (n <= Capacity => size = n)
      /\ (n > Capacity => size = Capacity)
  BY <1>1, CapacityIsPackets DEF Lesser
<1>3. Aligned(size)
  BY <1>1, <1>2, CapacityIsPackets DEF Lesser
<1> HIDE DEF size
<1>4. /\ Overflow(size) \in 0 .. count
      /\ Overflow(size) >= count + size - Capacity
      /\ Overflow(size) = 0 \/ Overflow(size) = count + size - Capacity
  BY <1>1, <1>2, CapacityIsPackets DEF Overflow
<1>5. Aligned(count + size)
  BY <1>1, <1>2, <1>3, AlignedSum
<1>6. Aligned(Overflow(size))
  BY <1>1, <1>2, <1>4, <1>5, AlignedDifference, AlignedZero, CapacityIsPackets
     DEF Overflow
<1> QED
  BY <1>1, <1>2, <1>3, <1>4, <1>6 DEF size

\* PushData keeps the invariant, whether or not it wraps, drops or is oversized.
LEMMA PushInv ==
  ASSUME Inv, NEW n \in PushSizes, PushData(n)
  PROVE  Inv'
<1> DEFINE size == Lesser(n, Capacity)
           over == Overflow(size)
<1>1. /\ n \in Nat \ {0}
      /\ size \in 1 .. Capacity /\ size <= n /\ (n <= Capacity => size = n)
      /\ (n > Capacity => size = Capacity)
      /\ Aligned(size)
      /\ over \in 0 .. count
      /\ over >= count + size - Capacity
      /\ over = 0 \/ over = count + size - Capacity
      /\ Aligned(over)
  BY PushSizeFacts
<1>2. /\ ring' = Written(pushed + (n - size), size)
      /\ head' = (head + size) % Capacity
      /\ tail' = (tail + over) % Capacity
      /\ count' = (count - over) + size
      /\ pushed' = pushed + n
      /\ notify' = notify \cup {"push"}
      /\ active' = active /\ resetAt' = resetAt
      /\ reader' = reader /\ wanted' = wanted /\ chunk' = chunk /\ popped' = popped
  BY DEF PushData, client
<1>3. /\ TypeOK /\ head = Moved(tail, count) /\ count <= pushed - resetAt
      /\ Aligned(tail) /\ Aligned(count) /\ Aligned(pushed) /\ Aligned(n)
  BY HeadSlot DEF Inv, IndicesAgree, OnPacketBoundary, PushData
<1>4. /\ head \in Slots /\ tail \in Slots /\ count \in 0 .. Capacity
      /\ pushed \in Nat /\ resetAt \in Nat
      /\ ring \in [Slots -> Nat \cup {NoByte}]
  BY <1>3 DEF TypeOK
<1> HIDE DEF size, over
<1>5. /\ tail' \in Slots
      /\ tail' = Moved(tail, over)
      /\ Aligned(tail')
  <2>1. over \in 0 .. Capacity
    BY <1>1, <1>4, CapacityIsPackets
  <2> QED
    BY <2>1, <1>1, <1>2, <1>3, <1>4, AdvancedIndex
<1>6. /\ head' \in Slots
      /\ head' = Moved(head, size)
  <2>1. size \in 0 .. Capacity
    BY <1>1, CapacityIsPackets
  <2> QED
    BY <2>1, <1>2, <1>4, AdvancedIndex
<1>7. /\ count' \in 0 .. Capacity
      /\ count' <= pushed' - resetAt'
      /\ Aligned(count')
  <2>1. Aligned(count - over)
    BY <1>1, <1>3, <1>4, AlignedDifference
  <2>2. Aligned((count - over) + size)
    BY <2>1, <1>1, <1>4, AlignedSum, CapacityIsPackets
  <2> QED
    BY <1>1, <1>2, <1>3, <1>4, <2>2, CapacityIsPackets
<1>8. TypeOK'
  <2>1. ring' \in [Slots -> Nat \cup {NoByte}]
    BY <1>1, <1>2, <1>4, CapacityIsPackets DEF Written, Lesser, Slots
  <2> QED
    BY <2>1, <1>1, <1>2, <1>3, <1>4, <1>5, <1>6, <1>7 DEF TypeOK
<1>9. IndicesAgree'
  <2>1. head' = Moved(tail', count')
    BY <1>1, <1>2, <1>3, <1>4, <1>5, <1>6, PushedSlots
  <2>2. (tail' + count') % Capacity = Moved(tail', count')
    BY <1>5, <1>7, AdvancedIndex
  <2> QED
    BY <2>1, <2>2, <1>7 DEF IndicesAgree
<1>10. HoldsNewest'
  <2> SUFFICES ASSUME NEW i \in 0 .. count' - 1
               PROVE  ring'[Moved(tail', i)] = pushed' - count' + i
    BY DEF HoldsNewest, SlotOf, Moved
  <2>1. CASE i < count - over
    <3>1. /\ size = n
          /\ i \in 0 .. count - over - 1
          /\ over + i \in 0 .. count - 1
      BY <2>1, <1>1, <1>4, CapacityIsPackets
    <3>2. Moved(tail', i) = Moved(tail, over + i)
      BY <3>1, <1>1, <1>4, <1>5, PushedSlots
    <3>3. ring[Moved(tail, over + i)] = pushed - count + (over + i)
      BY <3>1, SlotOfIsMoved DEF Inv, HoldsNewest
    <3>4. ring'[Moved(tail, over + i)] = ring[Moved(tail, over + i)]
      <4>1. pushed + (n - size) \in Nat
        BY <1>1, <1>4
      <4> QED
        BY <3>1, <4>1, <1>1, <1>2, <1>3, KeptBytesUntouched
    <3> QED
      BY <3>1, <3>2, <3>3, <3>4, <1>1, <1>2, <1>4
  <2>2. CASE i >= count - over
    <3>1. PICK j \in 0 .. size - 1 : i = (count - over) + j
      <4>1. i - (count - over) \in 0 .. size - 1
        BY <2>2, <1>1, <1>2, <1>4, CapacityIsPackets
      <4> QED
        BY <4>1, <1>1, <1>4
    <3>2. Moved(tail', i) = Moved(head, j)
      BY <3>1, <1>1, <1>3, <1>4, <1>5, PushedSlots
    <3>3. ring'[Moved(head, j)] = pushed + (n - size) + j
      <4>1. pushed + (n - size) \in Nat
        BY <1>1, <1>4
      <4> QED
        BY <4>1, <1>1, <1>2, <1>3, NewBytesWritten
    <3> QED
      BY <3>1, <3>2, <3>3, <1>1, <1>2, <1>4, CapacityIsPackets
  <2> QED
    BY <2>1, <2>2, <1>1, <1>2, <1>4
<1>11. OnPacketBoundary'
  BY <1>1, <1>2, <1>3, <1>4, <1>5, <1>7, AlignedSum DEF OnPacketBoundary
<1>12. RequestOK' /\ WholePackets'
  BY <1>2 DEF Inv, RequestOK, WholePackets
<1>13. ChunkPast'
  <2>1. pushed' - count' >= pushed - count
    BY <1>1, <1>2, <1>4, CapacityIsPackets
  <2>2. CASE chunk = <<>>
    BY <2>2, <1>2 DEF ChunkPast
  <2>3. CASE chunk # <<>>
    <3>1. chunk \in Seq(Nat \cup {NoByte}) /\ Len(chunk) \in Nat \ {0}
      BY <2>3, <1>3 DEF Inv, ChunkPast, TypeOK
    <3>2. chunk[Len(chunk)] \in Nat \cup {NoByte}
      BY <3>1
    <3> QED
      BY <2>1, <2>3, <3>1, <3>2, <1>1, <1>2, <1>4, <1>7, CapacityIsPackets
         DEF Inv, ChunkPast, NoByte
  <2> QED
    BY <2>2, <2>3
<1> QED
  BY <1>8, <1>9, <1>10, <1>11, <1>12, <1>13 DEF Inv

-----------------------------------------------------------------------------
(* One pop *)

\* The copy out of the ring is the oldest bytes in stream order.
LEMMA ReadFromIsOldest ==
  ASSUME TypeOK, HoldsNewest, NEW size \in 1 .. count
  PROVE  ReadFrom(size) = [i \in 1 .. size |-> (pushed - count) + (i - 1)]
<1>1. /\ tail \in Slots /\ count \in 0 .. Capacity /\ pushed \in Nat
      /\ Capacity \in Nat \ {0}
  BY CapacityIsPackets DEF TypeOK
<1> SUFFICES ASSUME NEW i \in 1 .. size
             PROVE  ReadFrom(size)[i] = (pushed - count) + (i - 1)
  BY DEF ReadFrom
<1>2. /\ i - 1 \in 0 .. count - 1
      /\ ring[SlotOf(i - 1)] = pushed - count + (i - 1)
  BY <1>1 DEF HoldsNewest
<1>3. ReadFrom(size)[i] = ring[SlotOf(i - 1)]
  BY <1>1, <1>2 DEF ReadFrom, SlotOf, Lesser, Slots
<1> QED
  BY <1>2, <1>3

\* A delivering or refused PopData keeps the invariant.
LEMMA FinishInv ==
  ASSUME Inv, NEW size \in 1 .. Capacity, Aligned(size), Ready(size), Finish(size),
         wanted' \in 0 .. Capacity, UNCHANGED <<active, pushed, resetAt, notify>>
  PROVE  /\ Inv'
         /\ ~Delivers(size) => UNCHANGED <<chunk, tail, count>>
         /\ Delivers(size) =>
              /\ size <= count /\ count' = count - size
              /\ chunk' = [i \in 1 .. size |-> (pushed - count) + (i - 1)]
<1>1. /\ TypeOK /\ HoldsNewest /\ head = Moved(tail, count)
      /\ count <= pushed - resetAt
      /\ Aligned(tail) /\ Aligned(count) /\ Aligned(pushed)
  BY HeadSlot DEF Inv, IndicesAgree, OnPacketBoundary
<1>2. /\ tail \in Slots /\ count \in 0 .. Capacity /\ pushed \in Nat
      /\ resetAt \in Nat /\ Capacity \in Nat \ {0}
  BY <1>1, CapacityIsPackets DEF TypeOK
<1>3. reader' = "idle" /\ popped' = Delivers(size) /\ ring' = ring /\ head' = head
  BY DEF Finish
<1>4. RequestOK'
  BY <1>3 DEF RequestOK
<1>5. CASE ~Delivers(size)
  <2>1. UNCHANGED <<chunk, tail, count>>
    BY <1>5 DEF Finish
  <2>2. TypeOK'
    BY <2>1, <1>1, <1>3 DEF TypeOK, Delivers
  <2>3. /\ IndicesAgree' /\ HoldsNewest' /\ OnPacketBoundary'
        /\ WholePackets' /\ ChunkPast'
    BY <2>1, <1>3 DEF Inv, IndicesAgree, HoldsNewest, SlotOf, OnPacketBoundary,
                      WholePackets, ChunkPast
  <2> QED
    BY <2>1, <2>2, <2>3, <1>4, <1>5 DEF Inv
<1>6. CASE Delivers(size)
  <2>1. /\ size \in 1 .. count /\ active
        /\ chunk' = ReadFrom(size)
        /\ tail' = (tail + size) % Capacity
        /\ count' = count - size
    BY <1>2, <1>6 DEF Finish, Ready, Delivers
  <2>2. chunk' = [i \in 1 .. size |-> (pushed - count) + (i - 1)]
    BY <2>1, <1>1, ReadFromIsOldest
  <2>3. pushed - count \in Nat
    BY <1>1, <1>2
  <2>4. tail' = Moved(tail, size) /\ tail' \in Slots /\ Aligned(tail')
    BY <2>1, <1>1, <1>2, AdvancedIndex
  <2>5. count' \in 0 .. Capacity /\ Aligned(count')
    BY <2>1, <1>1, <1>2, AlignedDifference
  <2>6. chunk' \in Seq(Nat \cup {NoByte}) /\ Len(chunk') = size
    BY <2>2, <2>3
  <2>7. TypeOK'
    BY <2>4, <2>5, <2>6, <1>1, <1>3 DEF TypeOK, Delivers
  <2>8. IndicesAgree'
    <3>1. Moved(tail, count) = Moved(tail', count')
      BY <2>1, <2>4, <1>2 DEF Moved, Slots
    <3>2. (tail' + count') % Capacity = Moved(tail', count')
      BY <2>4, <2>5, AdvancedIndex
    <3> QED
      BY <3>1, <3>2, <2>1, <1>1, <1>2, <1>3 DEF IndicesAgree
  <2>9. HoldsNewest'
    <3> SUFFICES ASSUME NEW i \in 0 .. count' - 1
                 PROVE  ring[Moved(tail', i)] = pushed - count' + i
      BY <1>3 DEF HoldsNewest, SlotOf, Moved
    <3>1. Moved(tail', i) = Moved(tail, size + i)
      BY <2>1, <2>4, <1>2 DEF Moved, Slots
    <3>2. size + i \in 0 .. count - 1
      BY <2>1, <1>2
    <3>3. ring[Moved(tail, size + i)] = pushed - count + (size + i)
      BY <3>2, <1>1, SlotOfIsMoved DEF HoldsNewest
    <3> QED
      BY <3>1, <3>3, <2>1, <1>2
  <2>10. OnPacketBoundary'
    BY <2>4, <2>5, <1>1 DEF OnPacketBoundary
  <2>11. WholePackets'
    <3>1. Aligned(pushed - count)
      BY <1>1, <1>2, AlignedDifference
    <3>2. chunk'[1] = pushed - count
      BY <2>1, <2>2, <2>3, <1>2
    <3> QED
      BY <3>1, <3>2, <2>2, <2>6 DEF WholePackets
  <2>12. ChunkPast'
    <3>1. chunk'[size] = (pushed - count) + (size - 1)
      BY <2>1, <2>2, <1>2
    <3> QED
      BY <3>1, <2>1, <2>6, <1>2 DEF ChunkPast
  <2> QED
    BY <2>1, <2>2, <2>7, <2>8, <2>9, <2>10, <2>11, <2>12, <1>2, <1>4, <1>6 DEF Inv
<1> QED
  BY <1>5, <1>6

-----------------------------------------------------------------------------
(* The other steps *)

\* Reset keeps the invariant: an empty ring agrees wherever it starts.
LEMMA ResetInv ==
  ASSUME Inv, Reset
  PROVE  Inv'
<1>1. /\ head' = 0 /\ tail' = 0 /\ count' = 0 /\ resetAt' = pushed
      /\ UNCHANGED <<ring, active, pushed, notify, reader, wanted, chunk, popped>>
  BY DEF Reset, Emptied, client
<1>2. /\ TypeOK /\ count \in 0 .. Capacity /\ pushed \in Nat
      /\ Capacity \in Nat \ {0}
  BY CapacityIsPackets DEF Inv, TypeOK
<1>3. TypeOK'
  BY <1>1, <1>2 DEF TypeOK, Slots
<1>4. IndicesAgree' /\ HoldsNewest'
  BY <1>1, <1>2, WrapOnce DEF IndicesAgree, HoldsNewest
<1>5. OnPacketBoundary'
  BY <1>1, AlignedZero DEF Inv, OnPacketBoundary
<1>6. RequestOK' /\ WholePackets'
  BY <1>1 DEF Inv, RequestOK, WholePackets
<1>7. ChunkPast'
  <2>1. CASE chunk = <<>>
    BY <2>1, <1>1 DEF ChunkPast
  <2>2. CASE chunk # <<>>
    <3>1. /\ Len(chunk) \in Nat \ {0} /\ chunk[Len(chunk)] < pushed - count
          /\ chunk \in Seq(Nat \cup {NoByte})
      BY <2>2 DEF Inv, ChunkPast, TypeOK
    <3>2. chunk[Len(chunk)] \in Nat \cup {NoByte}
      BY <3>1
    <3> QED
      BY <3>1, <3>2, <1>1, <1>2 DEF ChunkPast, NoByte
  <2> QED
    BY <2>1, <2>2
<1> QED
  BY <1>3, <1>4, <1>5, <1>6, <1>7 DEF Inv

\* Steps that leave the ring and the last chunk alone.
LEMMA QuietInv ==
  ASSUME Inv, TypeOK', RequestOK', UNCHANGED <<buffer, pushed, resetAt, chunk>>
  PROVE  Inv'
BY DEF Inv, buffer, IndicesAgree, HoldsNewest, SlotOf, OnPacketBoundary,
       WholePackets, ChunkPast

\* Every step of either thread keeps the invariant.
LEMMA NextInv == Inv /\ [Next]_vars => Inv'
<1> SUFFICES ASSUME Inv, [Next]_vars PROVE Inv'
  OBVIOUS
<1>0. TypeOK /\ RequestOK
  BY DEF Inv
<1>1. CASE \E n \in PushSizes : PushData(n)
  BY <1>1, PushInv
<1>2. CASE \E size \in PopSizes : PopData(size)
  <2> PICK size \in PopSizes : PopData(size)
    BY <1>2
  <2>1. size \in 1 .. Capacity /\ Aligned(size) /\ wanted' = size
    BY SizeAssumption, CapacityIsPackets DEF PopData
  <2>2. wanted' \in 0 .. Capacity /\ UNCHANGED <<active, pushed, resetAt, notify>>
    BY <2>1, CapacityIsPackets DEF PopData
  <2>3. CASE Ready(size) /\ Finish(size)
    BY <2>1, <2>2, <2>3, FinishInv
  <2>4. CASE reader' = "asleep" /\ UNCHANGED <<buffer, chunk, popped>>
    <3>1. TypeOK' /\ RequestOK'
      BY <2>1, <2>2, <2>4, <1>0 DEF TypeOK, RequestOK, buffer
    <3> QED
      BY <3>1, <2>2, <2>4, QuietInv
  <2> QED
    BY <2>3, <2>4 DEF PopData
<1>3. CASE \E size \in PopSizes : PopRefused(size)
  <2>1. /\ UNCHANGED <<buffer, active, pushed, resetAt, notify, reader, wanted, chunk>>
        /\ popped' = FALSE
    BY <1>3 DEF PopRefused
  <2>2. TypeOK' /\ RequestOK'
    BY <2>1, <1>0 DEF TypeOK, RequestOK, buffer
  <2> QED
    BY <2>1, <2>2, QuietInv
<1>4. CASE \E who \in {"push", "stop"} : Notify(who)
  <2>1. /\ UNCHANGED <<buffer, active, pushed, resetAt, wanted, chunk, popped>>
        /\ notify' \subseteq notify
        /\ reader' = IF reader = "asleep" THEN "awake" ELSE reader
    BY <1>4 DEF Notify
  <2>2. TypeOK' /\ RequestOK'
    BY <2>1, <1>0 DEF TypeOK, RequestOK, buffer
  <2> QED
    BY <2>1, <2>2, QuietInv
<1>5. CASE Stop
  <2>1. TypeOK' /\ RequestOK'
    BY <1>5, <1>0 DEF Stop, TypeOK, RequestOK, buffer, client
  <2> QED
    BY <2>1, <1>5, QuietInv DEF Stop, client
<1>6. CASE Reset
  BY <1>6, ResetInv
<1>7. CASE Spurious \/ Timeout
  <2>1. TypeOK' /\ RequestOK'
    BY <1>7, <1>0 DEF Spurious, Timeout, TypeOK, RequestOK, buffer
  <2> QED
    BY <2>1, <1>7, QuietInv DEF Spurious, Timeout
<1>8. CASE Recheck
  <2>1. /\ UNCHANGED <<active, pushed, resetAt, notify, wanted>>
        /\ wanted \in 1 .. Capacity /\ Aligned(wanted)
    BY <1>8, <1>0 DEF Recheck, RequestOK
  <2>2. CASE Ready(wanted) /\ Finish(wanted)
    BY <2>1, <2>2, <1>0, FinishInv DEF TypeOK
  <2>3. CASE ~Ready(wanted)
    <3>1. TypeOK' /\ RequestOK' /\ UNCHANGED <<buffer, chunk>>
      BY <2>1, <2>3, <1>8, <1>0 DEF Recheck, TypeOK, RequestOK, buffer
    <3> QED
      BY <3>1, <2>1, QuietInv
  <2> QED
    BY <2>2, <2>3, <1>8 DEF Recheck
<1>9. CASE UNCHANGED vars
  <2>1. TypeOK' /\ RequestOK' /\ UNCHANGED <<buffer, pushed, resetAt, chunk>>
    BY <1>9, <1>0 DEF vars, TypeOK, RequestOK, buffer
  <2> QED
    BY <2>1, QuietInv
<1> QED
  BY <1>1, <1>2, <1>3, <1>4, <1>5, <1>6, <1>7, <1>8, <1>9 DEF Next

\* The invariant holds in every reachable state.
LEMMA SpecInv == Spec => []Inv
<1> QED
  BY InitInv, NextInv, PTL DEF Spec

-----------------------------------------------------------------------------
(* The theorems *)

\* Types, and the bounds of the two indices, for every capacity.
THEOREM TypeCorrect == Spec => []TypeOK
<1> QED
  BY SpecInv, PTL DEF Inv

\* The ring is sound in every reachable state: head is the slot after the
\* newest byte, the buffered bytes are the newest of the stream in order, and
\* all of it stays on packet boundaries.
THEOREM RingSound == Spec => []RingAgrees
<1>1. Inv => RingAgrees
  BY DEF Inv, RingAgrees
<1> QED
  BY <1>1, SpecInv, PTL

\* Dropping, wrapping and reading never split a packet: what a client receives
\* is a run of whole packets.
THEOREM PacketsStayWhole == Spec => []WholePackets
<1> QED
  BY SpecInv, PTL DEF Inv

\* Which steps change the delivered chunk, and to what.
LEMMA ChunkStep ==
  ASSUME Inv, [Next]_vars, chunk' # chunk
  PROVE  \E size \in PopSizes \cup {wanted} :
           /\ size \in 1 .. count
           /\ active
           /\ chunk' = [i \in 1 .. size |-> (pushed - count) + (i - 1)]
           /\ count' = count - size
           /\ UNCHANGED <<active, pushed, resetAt>>
<1>0. TypeOK /\ RequestOK
  BY DEF Inv
<1>1. CASE \E size \in PopSizes : PopData(size)
  <2> PICK size \in PopSizes : PopData(size)
    BY <1>1
  <2>1. /\ size \in 1 .. Capacity /\ Aligned(size)
        /\ wanted' \in 0 .. Capacity
        /\ UNCHANGED <<active, pushed, resetAt, notify>>
    BY SizeAssumption, CapacityIsPackets DEF PopData
  <2>2. Ready(size) /\ Finish(size)
    BY DEF PopData
  <2>3. /\ Delivers(size) /\ size <= count /\ count' = count - size
        /\ chunk' = [i \in 1 .. size |-> (pushed - count) + (i - 1)]
    BY <2>1, <2>2, FinishInv
  <2> QED
    BY <2>1, <2>3, <1>0 DEF Delivers, TypeOK
<1>2. CASE Recheck
  <2>1. /\ wanted \in 1 .. Capacity /\ Aligned(wanted)
        /\ wanted' \in 0 .. Capacity
        /\ UNCHANGED <<active, pushed, resetAt, notify>>
    BY <1>0, <1>2 DEF Recheck, RequestOK, TypeOK
  <2>2. Ready(wanted) /\ Finish(wanted)
    BY <1>2 DEF Recheck
  <2>3. /\ Delivers(wanted) /\ wanted <= count /\ count' = count - wanted
        /\ chunk' = [i \in 1 .. wanted |-> (pushed - count) + (i - 1)]
    BY <2>1, <2>2, FinishInv
  <2> QED
    BY <2>1, <2>3, <1>0 DEF Delivers, TypeOK
<1> QED
  BY <1>1, <1>2 DEF Next, vars, client, PushData, PopRefused, Notify, Stop,
                    Reset, Spurious, Timeout

\* Clients only ever move forward in the stream, and past the last Reset.
THEOREM NeverBackwards == Spec => ForwardOnly
<1> DEFINE Forward ==
      chunk' # chunk =>
        /\ chunk'[1] >= resetAt
        /\ chunk # <<>> => chunk'[1] > chunk[Len(chunk)]
<1>1. ASSUME Inv, [Next]_vars
      PROVE  Forward
  <2> SUFFICES ASSUME chunk' # chunk
               PROVE  /\ chunk'[1] >= resetAt
                      /\ chunk # <<>> => chunk'[1] > chunk[Len(chunk)]
    OBVIOUS
  <2>1. PICK size \in PopSizes \cup {wanted} :
          /\ size \in 1 .. count
          /\ chunk' = [i \in 1 .. size |-> (pushed - count) + (i - 1)]
    BY <1>1, ChunkStep
  <2>2. /\ pushed \in Nat /\ count \in Nat /\ resetAt \in Nat
        /\ count <= pushed - resetAt
        /\ chunk \in Seq(Nat \cup {NoByte})
    BY <1>1, CapacityIsPackets DEF Inv, TypeOK, IndicesAgree
  <2>3. chunk'[1] = pushed - count
    BY <2>1, <2>2
  <2>4. chunk # <<>> => /\ chunk[Len(chunk)] < pushed - count
                        /\ Len(chunk) \in Nat \ {0}
    BY <1>1 DEF Inv, ChunkPast
  <2>5. chunk # <<>> => chunk[Len(chunk)] \in Nat \cup {NoByte}
    BY <2>2, <2>4
  <2> QED
    BY <2>2, <2>3, <2>4, <2>5 DEF NoByte
<1>2. Inv /\ [Next]_vars => [Forward]_vars
  BY <1>1
<1> QED
  BY <1>2, SpecInv, PTL DEF Spec, ForwardOnly

-----------------------------------------------------------------------------
(* The ring implements the abstract queue *)

Window == [low |-> pushed - count, high |-> pushed, open |-> active]

\* Setting the field open of a window, as Stop does.
LEMMA OpenFieldSet ==
  \A l, h, b, c : [[low |-> l, high |-> h, open |-> b] EXCEPT !.open = c]
                   = [low |-> l, high |-> h, open |-> c]
OBVIOUS

\* A new ring is a new queue.
LEMMA InitRefines == Init => Queue!QInit
BY DEF Init, Queue!QInit, Queue!EmptyAt

\* PushData is QAppend: a full ring drops what the queue forgets.
LEMMA PushRefines ==
  ASSUME Inv, NEW n \in PushSizes, PushData(n)
  PROVE  Queue!QAppend(n)
<1>1. /\ n \in Nat \ {0} /\ pushed \in Nat /\ count \in 0 .. Capacity
      /\ Capacity \in Nat \ {0}
  BY PushSizeFacts, CapacityIsPackets DEF Inv, TypeOK
<1>2. /\ active /\ active' = active /\ chunk' = chunk /\ pushed' = pushed + n
      /\ count' = (count - Overflow(Lesser(n, Capacity))) + Lesser(n, Capacity)
  BY DEF PushData, client
<1>3. pushed' - count' = IF pushed + n - (pushed - count) > Capacity
                         THEN pushed + n - Capacity ELSE pushed - count
  BY <1>1, <1>2 DEF Overflow, Lesser
<1>4. Queue!Appended(Window, n)
        = [low |-> pushed' - count', high |-> pushed + n, open |-> active]
  BY <1>2, <1>3 DEF Window, Queue!Appended
<1> QED
  BY <1>2, <1>4 DEF Window, Queue!QAppend

\* A pop that delivers is QTake, one that does not is a stutter.
LEMMA FinishRefines ==
  ASSUME Inv, NEW size \in PopSizes, size \in 1 .. Capacity, Aligned(size),
         Ready(size), Finish(size), wanted' \in 0 .. Capacity,
         UNCHANGED <<active, pushed, resetAt, notify>>
  PROVE  Queue!QTake(size) \/ UNCHANGED Queue!qvars
<1>1. CASE ~Delivers(size)
  BY <1>1, FinishInv DEF Queue!qvars
<1>2. CASE Delivers(size)
  <2>1. /\ size <= count /\ count' = count - size
        /\ chunk' = [i \in 1 .. size |-> (pushed - count) + (i - 1)]
    BY <1>2, FinishInv
  <2>2. pushed \in Nat /\ count \in Nat /\ size \in Nat
    BY CapacityIsPackets DEF Inv, TypeOK
  <2>3. size <= pushed - (pushed - count) /\ pushed - count' = (pushed - count) + size
    BY <2>1, <2>2
  <2>4. Queue!CanTake(Window, size)
    BY <1>2, <2>3 DEF Window, Delivers, Queue!CanTake, Queue!Buffered
  <2>5. chunk' = Queue!Oldest(Window, size)
    BY <2>1 DEF Window, Queue!Oldest
  <2>6. Window' = Queue!Taken(Window, size)
    BY <2>3 DEF Window, Queue!Taken
  <2> QED
    BY <2>4, <2>5, <2>6 DEF Window, Queue!QTake
<1> QED
  BY <1>1, <1>2

\* Every step of the ring is a step of the queue, or none.
LEMMA NextRefines == Inv /\ [Next]_vars => [Queue!QNext]_(Queue!qvars)
<1> SUFFICES ASSUME Inv, [Next]_vars PROVE [Queue!QNext]_(Queue!qvars)
  OBVIOUS
<1>0. TypeOK /\ RequestOK
  BY DEF Inv
<1>1. CASE \E n \in PushSizes : PushData(n)
  BY <1>1, PushRefines DEF Queue!QNext
<1>2. CASE \E size \in PopSizes : PopData(size)
  <2> PICK size \in PopSizes : PopData(size)
    BY <1>2
  <2>1. /\ size \in 1 .. Capacity /\ Aligned(size)
        /\ wanted' \in 0 .. Capacity
        /\ UNCHANGED <<active, pushed, resetAt, notify>>
    BY SizeAssumption, CapacityIsPackets DEF PopData
  <2>2. CASE Ready(size) /\ Finish(size)
    BY <2>1, <2>2, FinishRefines DEF Queue!QNext
  <2>3. CASE UNCHANGED <<buffer, chunk, popped>>
    BY <2>1, <2>3 DEF buffer, Queue!qvars
  <2> QED
    BY <2>2, <2>3 DEF PopData
<1>3. CASE Recheck
  <2>1. /\ wanted \in PopSizes /\ wanted \in 1 .. Capacity /\ Aligned(wanted)
        /\ wanted' \in 0 .. Capacity
        /\ UNCHANGED <<active, pushed, resetAt, notify>>
    BY <1>0, <1>3 DEF Recheck, RequestOK, TypeOK
  <2>2. CASE Ready(wanted) /\ Finish(wanted)
    BY <2>1, <2>2, FinishRefines DEF Queue!QNext
  <2>3. CASE ~Ready(wanted)
    BY <2>1, <2>3, <1>3 DEF Recheck, buffer, Queue!qvars
  <2> QED
    BY <2>2, <2>3, <1>3 DEF Recheck
<1>4. CASE Reset
  <2>1. count' = 0 /\ UNCHANGED <<active, pushed, chunk>> /\ pushed \in Nat
    BY <1>0, <1>4 DEF Reset, Emptied, client, TypeOK
  <2>2. pushed' - count' = pushed
    BY <2>1
  <2>3. Queue!QClear
    BY <2>1, <2>2 DEF Queue!QClear, Queue!Cleared
  <2> QED
    BY <2>3 DEF Queue!QNext
<1>5. CASE Stop
  <2>1. active' = FALSE /\ UNCHANGED <<count, pushed, chunk>>
    BY <1>5 DEF Stop, buffer, client
  <2>2. Queue!Closed(Window)
          = [low |-> pushed - count, high |-> pushed, open |-> FALSE]
    BY OpenFieldSet DEF Window, Queue!Closed
  <2>3. Queue!QClose
    BY <2>1, <2>2 DEF Window, Queue!QClose
  <2> QED
    BY <2>3 DEF Queue!QNext
<1>6. CASE \/ \E size \in PopSizes : PopRefused(size)
           \/ \E who \in {"push", "stop"} : Notify(who)
           \/ Spurious \/ Timeout \/ UNCHANGED vars
  BY <1>6 DEF PopRefused, Notify, Spurious, Timeout, vars, buffer, Queue!qvars
<1> QED
  BY <1>1, <1>2, <1>3, <1>4, <1>5, <1>6 DEF Next

\* Every behaviour of the ring is one of the abstract queue: a step of it or a
\* stutter for every step of the ring.
THEOREM RingImplementsQueue == Spec => ImplementsQueue
<1> QED
  BY InitRefines, NextRefines, SpecInv, PTL
     DEF Spec, ImplementsQueue, Queue!QSpec

-----------------------------------------------------------------------------
(* No wake-up is lost *)

\* A reader asleep in PopData although its wait is over has a notification
\* coming: the push that brought the bytes, or the Stop, is between its unlock
\* and its notify.  This is the safety half of ReaderWakes; that the notify is
\* then made is fairness.
NotifyIsOwed ==
  reader = "asleep" => /\ count >= wanted => "push" \in notify
                       /\ ~active => "stop" \in notify

\* The predicate is looked at and the wait begun under one lock, so no push
\* and no Stop falls between the two.
LEMMA OwedStep == Inv /\ NotifyIsOwed /\ [Next]_vars => NotifyIsOwed'
<1> SUFFICES ASSUME Inv, NotifyIsOwed, [Next]_vars PROVE NotifyIsOwed'
  OBVIOUS
<1>0. TypeOK /\ RequestOK
  BY DEF Inv
<1>1. CASE \E n \in PushSizes : PushData(n)
  BY <1>1 DEF PushData, client, NotifyIsOwed
<1>2. CASE \E size \in PopSizes : PopData(size)
  <2> PICK size \in PopSizes : PopData(size)
    BY <1>2
  <2>1. CASE Ready(size) /\ Finish(size)
    BY <2>1 DEF Finish, NotifyIsOwed
  <2>2. CASE ~Ready(size) /\ UNCHANGED <<buffer, chunk, popped>>
    BY <2>2 DEF PopData, Ready, buffer, NotifyIsOwed
  <2> QED
    BY <2>1, <2>2 DEF PopData
<1>3. CASE \E size \in PopSizes : PopRefused(size)
  BY <1>3 DEF PopRefused, buffer, NotifyIsOwed
<1>4. CASE \E who \in {"push", "stop"} : Notify(who)
  BY <1>4 DEF Notify, NotifyIsOwed
<1>5. CASE Stop
  BY <1>5 DEF Stop, buffer, client, NotifyIsOwed
<1>6. CASE Reset
  <2>1. reader = "asleep" => wanted \in Nat \ {0}
    BY <1>0, CapacityIsPackets DEF RequestOK
  <2> QED
    BY <2>1, <1>6 DEF Reset, Emptied, client, NotifyIsOwed
<1>7. CASE Spurious \/ Timeout
  BY <1>7 DEF Spurious, Timeout, NotifyIsOwed
<1>8. CASE Recheck
  <2>1. CASE Ready(wanted) /\ Finish(wanted)
    BY <2>1 DEF Finish, NotifyIsOwed
  <2>2. CASE ~Ready(wanted)
    BY <2>2, <1>8 DEF Recheck, Ready, buffer, NotifyIsOwed
  <2> QED
    BY <2>1, <2>2, <1>8 DEF Recheck
<1>9. CASE UNCHANGED vars
  BY <1>9 DEF vars, NotifyIsOwed
<1> QED
  BY <1>1, <1>2, <1>3, <1>4, <1>5, <1>6, <1>7, <1>8, <1>9 DEF Next

\* A client never sleeps on over a Stop or over the data it asked for without
\* a notify on its way: PopData, PushData and Stop lose no wake-up.
THEOREM NoWakeupIsLost == Spec => []NotifyIsOwed
<1>1. Init => NotifyIsOwed
  BY DEF Init, NotifyIsOwed
<1> QED
  BY <1>1, OwedStep, SpecInv, PTL DEF Spec
=============================================================================
