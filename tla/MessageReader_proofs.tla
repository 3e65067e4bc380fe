------------------------ MODULE MessageReader_proofs ------------------------
(***************************************************************************)
(* The receive loops for every set of messages and every size of the       *)
(* limits and of a receive: the buffer stays bounded, the deadlines hold,  *)
(* and messages come out as they were sent, whatever pieces they arrive in.*)
(***************************************************************************)
EXTENDS MessageReader, TLAPS, SequenceTheorems, WellFoundedInduction

-----------------------------------------------------------------------------
(* Extract *)

\* The first one of some positions.
LEMMA FirstIsLeast ==
  ASSUME NEW S \in SUBSET Nat, S # {}
  PROVE  First(S) \in S /\ \A j \in S : First(S) <= j
<1>1. PICK x \in S : \A y \in S : ~(<<y, x>> \in OpToRel(<, Nat))
  BY NatLessThanWellFounded, WFMin
<1>2. ASSUME NEW y \in S PROVE x <= y
  <2>1. CASE y < x
    <3>1. <<y, x>> \in OpToRel(<, Nat)
      BY <2>1 DEF OpToRel
    <3> QED
      BY <1>1, <3>1
  <2> QED
    BY <2>1
<1>3. \E i \in S : \A j \in S : i <= j
  BY <1>2
<1> QED
  BY <1>3 DEF First

\* The positions at which a header ends lie in the buffer.
LEMMA EndsAreInside ==
  ASSUME NEW b \in Seq(Symbols)
  PROVE  Ends(b) \in SUBSET Nat /\ Ends(b) \subseteq 2..Len(b)
BY LenProperties DEF Ends

\* A symbol is an integer.
LEMMA SymbolsAreIntegers == Symbols \subseteq Int
BY ReaderAssumption DEF Symbols

\* What a Content-Length says, or 0.
LEMMA BodyLengthIsNatural ==
  ASSUME NEW h \in Seq(Symbols)
  PROVE  BodyLength(h) \in Nat
<1>1. \A i \in 1..Len(h) : h[i] \in Int
  BY ElementOfSeq, SymbolsAreIntegers
<1>2. CASE \E i \in 1..Len(h) : h[i] >= 0
  <2> DEFINE c == CHOOSE i \in 1..Len(h) : h[i] >= 0
  <2>1. c \in 1..Len(h) /\ h[c] >= 0
    BY <1>2
  <2>2. BodyLength(h) = h[c]
    BY <1>2 DEF BodyLength
  <2> QED
    BY <1>1, <2>1, <2>2
<1>3. CASE ~\E i \in 1..Len(h) : h[i] >= 0
  BY <1>3 DEF BodyLength
<1> QED
  BY <1>2, <1>3

\* The header that ends at a position.
LEMMA HeaderIsSequence ==
  ASSUME NEW b \in Seq(Symbols), NEW e \in 2..Len(b)
  PROVE  /\ SubSeq(b, 1, e - 2) \in Seq(Symbols)
         /\ BodyLength(SubSeq(b, 1, e - 2)) \in Nat
<1>1. \A i \in 1..(e - 2) : b[i] \in Symbols
  BY LenProperties, ElementOfSeq
<1>2. SubSeq(b, 1, e - 2) \in Seq(Symbols)
  BY <1>1, SubSeqProperties, LenProperties
<1> QED
  BY <1>2, BodyLengthIsNatural

\* The possible answers, whole messages inside the buffer, and room for one more recv.
Sound(b, x) ==
  /\ x.result \in Verdicts \cup {"NeedMore"}
  /\ x.result \in Handled => x.size \in 1..Len(b)
  /\ x.result = "NeedMore" => Len(b) + Chunk <= MaxBuffered

LEMMA NumberInRange ==
  ASSUME NEW s \in Symbols
  PROVE  Number(s) \in 0..MaxFrame
BY ReaderAssumption DEF Symbols, Number

LEMMA FrameSound ==
  ASSUME NEW b \in Seq(Symbols)
  PROVE  Sound(b, Frame(b))
<1>1. Len(b) \in Nat
  BY LenProperties
<1>2. CASE Len(b) < 3
  BY <1>1, <1>2, RoomAssumption, ReaderAssumption
  DEF Sound, Frame, NeedMore, Result, Verdicts, Handled
<1>3. CASE Len(b) >= 3
  <2>1. b[3] \in Symbols
    BY <1>1, <1>3, ElementOfSeq
  <2>2. Number(b[3]) \in 0..MaxFrame
    BY <2>1, NumberInRange
  <2> QED
    BY <1>1, <1>3, <2>2, RoomAssumption, ReaderAssumption
    DEF Sound, Frame, NeedMore, Result, Verdicts, Handled
<1> QED
  BY <1>1, <1>2, <1>3

LEMMA RequestSound ==
  ASSUME NEW b \in Seq(Symbols)
  PROVE  Sound(b, Request(b))
<1> DEFINE end == First(Ends(b))
           header == SubSeq(b, 1, end - 2)
           n == BodyLength(header)
<1>1. Len(b) \in Nat
  BY LenProperties
<1>2. CASE Ends(b) = {}
  BY <1>1, <1>2, RoomAssumption, ReaderAssumption
  DEF Sound, Request, HeaderTooLong, NeedMore, Result, Verdicts, Handled
<1>3. CASE Ends(b) # {}
  <2>1. end \in 2..Len(b)
    BY <1>3, EndsAreInside, FirstIsLeast
  <2>2. n \in Nat
    BY <2>1, HeaderIsSequence
  <2> DEFINE x == Request(b)
  <2>3. x = IF end > MaxHeader THEN Result("TooLarge", 0)
            ELSE IF ~Wellformed(header) THEN Result("Invalid", 0)
            ELSE IF n > MaxBody THEN Result("TooLarge", 0)
            ELSE IF Len(b) < end + n THEN NeedMore
            ELSE Result("Request", end + n)
    BY <1>3 DEF Request
  <2> HIDE DEF x, end, header, n
  <2> QED
    BY <1>1, <2>1, <2>2, <2>3, RoomAssumption, ReaderAssumption
    DEF Sound, NeedMore, Result, Verdicts, Handled, x
<1> QED
  BY <1>2, <1>3

LEMMA ExtractSound ==
  ASSUME NEW b \in Seq(Symbols), NEW r \in BOOLEAN
  PROVE  Sound(b, Extract(b, r))
<1>1. Len(b) \in Nat
  BY LenProperties
<1>2. CASE Len(b) > MaxBuffered
  BY <1>1, <1>2 DEF Extract, Sound, Result, Verdicts, Handled
<1>3. CASE ~(Len(b) > MaxBuffered) /\ b = <<>>
  BY <1>3, EmptySeq, RoomAssumption, ReaderAssumption
  DEF Extract, Sound, Result, NeedMore, Verdicts, Handled
<1>4. CASE ~(Len(b) > MaxBuffered) /\ b # <<>>
  BY <1>4, FrameSound, RequestSound DEF Extract
<1> QED
  BY <1>2, <1>3, <1>4

-----------------------------------------------------------------------------
(* More bytes behind a message change nothing *)

Prefix(p, b) == Len(p) <= Len(b) /\ \A i \in 1..Len(p) : b[i] = p[i]

LEMMA FrameStable ==
  ASSUME NEW p \in Seq(Symbols), NEW b \in Seq(Symbols), Prefix(p, b),
         Frame(p).result # "NeedMore"
  PROVE  Frame(b) = Frame(p)
<1>1. Len(p) \in Nat /\ Len(b) \in Nat
  BY LenProperties
<1>2. Len(p) >= 3 /\ Len(p) >= 3 + Number(p[3])
  BY DEF Frame, NeedMore, Result
<1>3. b[3] = p[3] /\ Number(p[3]) \in Nat
  BY <1>1, <1>2, ElementOfSeq, NumberInRange, ReaderAssumption DEF Prefix
<1>4. Len(b) >= 3 /\ Len(b) >= 3 + Number(b[3])
  BY <1>1, <1>2, <1>3 DEF Prefix
<1> QED
  BY <1>2, <1>3, <1>4 DEF Frame

\* The end of the first header is where it was.
LEMMA EndsStable ==
  ASSUME NEW p \in Seq(Symbols), NEW b \in Seq(Symbols), Prefix(p, b),
         Ends(p) # {}
  PROVE  /\ Ends(b) # {}
         /\ First(Ends(b)) = First(Ends(p))
<1>1. Len(p) \in Nat /\ Len(b) \in Nat
  BY LenProperties
<1>2. \A i \in 2..Len(p) : i \in Ends(b) <=> i \in Ends(p)
  BY <1>1 DEF Ends, Prefix
<1>3. First(Ends(p)) \in Ends(p) /\ \A j \in Ends(p) : First(Ends(p)) <= j
  BY FirstIsLeast, EndsAreInside
<1>4. First(Ends(p)) \in Ends(b)
  BY <1>2, <1>3, EndsAreInside
<1>5. First(Ends(b)) \in Ends(b) /\ \A j \in Ends(b) : First(Ends(b)) <= j
  BY <1>4, FirstIsLeast, EndsAreInside
<1>6. First(Ends(b)) \in Ends(p)
  BY <1>1, <1>2, <1>3, <1>4, <1>5, EndsAreInside
<1> QED
  BY <1>3, <1>4, <1>5, <1>6, EndsAreInside

\* And so is all that is in front of it.
LEMMA HeaderStable ==
  ASSUME NEW p \in Seq(Symbols), NEW b \in Seq(Symbols), Prefix(p, b),
         NEW e \in 2..Len(p)
  PROVE  SubSeq(b, 1, e - 2) = SubSeq(p, 1, e - 2)
<1>1. Len(p) \in Nat /\ Len(b) \in Nat
  BY LenProperties
<1>2. \A i \in 1..(e - 2) : p[i] \in Symbols /\ b[i] = p[i]
  BY <1>1, ElementOfSeq DEF Prefix
<1>3. /\ SubSeq(p, 1, e - 2) \in Seq(Symbols)
      /\ Len(SubSeq(p, 1, e - 2)) = IF 1 <= e - 2 THEN e - 2 ELSE 0
      /\ \A i \in 1..(e - 2) : SubSeq(p, 1, e - 2)[i] = p[i]
  BY <1>1, <1>2, SubSeqProperties
<1>4. /\ SubSeq(b, 1, e - 2) \in Seq(Symbols)
      /\ Len(SubSeq(b, 1, e - 2)) = IF 1 <= e - 2 THEN e - 2 ELSE 0
      /\ \A i \in 1..(e - 2) : SubSeq(b, 1, e - 2)[i] = b[i]
  BY <1>1, <1>2, SubSeqProperties
<1> QED
  BY <1>1, <1>2, <1>3, <1>4, SeqEqual

LEMMA RequestStable ==
  ASSUME NEW p \in Seq(Symbols), NEW b \in Seq(Symbols), Prefix(p, b),
         Request(p).result # "NeedMore"
  PROVE  Request(b) = Request(p)
<1>1. Len(p) \in Nat /\ Len(b) \in Nat /\ Len(p) <= Len(b)
  BY LenProperties DEF Prefix
<1>2. CASE Ends(p) # {}
  <2> DEFINE end == First(Ends(p))
             header == SubSeq(p, 1, end - 2)
             n == BodyLength(header)
  <2>1. end \in 2..Len(p)
    BY <1>2, EndsAreInside, FirstIsLeast
  <2>2. n \in Nat
    BY <2>1, HeaderIsSequence
  <2>3. Ends(b) # {} /\ First(Ends(b)) = end
    BY <1>2, EndsStable
  <2>4. SubSeq(b, 1, end - 2) = header
    BY <2>1, HeaderStable
  <2> DEFINE Answer(l) ==
        IF end > MaxHeader THEN Result("TooLarge", 0)
        ELSE IF ~Wellformed(header) THEN Result("Invalid", 0)
        ELSE IF n > MaxBody THEN Result("TooLarge", 0)
        ELSE IF l < end + n THEN NeedMore
        ELSE Result("Request", end + n)
  <2>5. Request(p) = Answer(Len(p))
    BY <1>2 DEF Request
  <2>6. Request(b) = Answer(Len(b))
    BY <2>3, <2>4 DEF Request
  <2> HIDE DEF end, header, n
  <2> QED
    BY <1>1, <2>1, <2>2, <2>5, <2>6 DEF NeedMore, Result
<1>3. CASE Ends(p) = {}
  <2>1. Len(p) > MaxHeader /\ Request(p) = Result("TooLarge", 0)
    BY <1>3 DEF Request, HeaderTooLong, NeedMore, Result
  <2>2. CASE Ends(b) = {}
    BY <1>1, <2>1, <2>2, ReaderAssumption DEF Request, HeaderTooLong
  <2>3. CASE Ends(b) # {}
    <3>1. First(Ends(b)) \in Ends(b)
      BY <2>3, EndsAreInside, FirstIsLeast
    <3>2. First(Ends(b)) \notin 2..Len(p)
      BY <1>1, <1>3, <3>1 DEF Ends, Prefix
    <3>3. First(Ends(b)) > MaxHeader
      BY <1>1, <2>1, <3>1, <3>2, EndsAreInside, ReaderAssumption
    <3> QED
      BY <2>1, <2>3, <3>3 DEF Request
  <2> QED
    BY <2>2, <2>3
<1> QED
  BY <1>2, <1>3

\* Once Extract has an answer, what comes after it does not change it: it makes no
\* difference in what pieces a message arrived and how much of the next one with it.
LEMMA ExtractStable ==
  ASSUME NEW p \in Seq(Symbols), NEW b \in Seq(Symbols), NEW r \in BOOLEAN,
         Prefix(p, b), Len(b) <= MaxBuffered,
         Extract(p, r).result # "NeedMore"
  PROVE  Extract(b, r) = Extract(p, r)
<1>1. Len(p) \in Nat /\ Len(b) \in Nat /\ Len(p) <= Len(b) /\ MaxBuffered \in Nat
  BY LenProperties, RoomAssumption DEF Prefix
<1>2. p # <<>>
  BY <1>1, EmptySeq DEF Extract, NeedMore, Result
<1>3. Len(p) >= 1
  BY <1>1, <1>2, EmptySeq
<1>4. b[1] = p[1] /\ b # <<>>
  BY <1>1, <1>3, EmptySeq DEF Prefix
<1>5. CASE r /\ p[1] = Dollar
  <2>1. Extract(p, r) = Frame(p) /\ Extract(b, r) = Frame(b)
    BY <1>1, <1>2, <1>4, <1>5 DEF Extract
  <2> QED
    BY <2>1, FrameStable
<1>6. CASE ~(r /\ p[1] = Dollar)
  <2>1. Extract(p, r) = Request(p) /\ Extract(b, r) = Request(b)
    BY <1>1, <1>2, <1>4, <1>6 DEF Extract
  <2> QED
    BY <2>1, RequestStable
<1> QED
  BY <1>5, <1>6

-----------------------------------------------------------------------------
(* Types *)

\* What is cut out of a buffer.
LEMMA CutIsSequence ==
  ASSUME NEW s \in Seq(Symbols), NEW m \in Nat \ {0}, NEW n \in Nat, n <= Len(s)
  PROVE  /\ SubSeq(s, m, n) \in Seq(Symbols)
         /\ Len(SubSeq(s, m, n)) = IF m <= n THEN n - m + 1 ELSE 0
         /\ \A i \in 1..(n - m + 1) : SubSeq(s, m, n)[i] = s[m + i - 1]
<1>1. \A i \in m..n : s[i] \in Symbols
  BY LenProperties, ElementOfSeq
<1> QED
  BY <1>1, SubSeqProperties

LEMMA MessageType ==
  ASSUME NEW m \in Messages
  PROVE  m.bytes \in Seq(Symbols) /\ m.verdict \in Verdicts
BY ReaderAssumption

\* What Extract answers in a reachable state.
LEMMA ExtractedSound ==
  ASSUME TypeOK
  PROVE  Sound(buffer, Extracted) /\ Len(buffer) \in Nat
BY ExtractSound, LenProperties DEF TypeOK, Extracted

LEMMA TypeInit == Init => TypeOK
<1> SUFFICES ASSUME Init PROVE TypeOK
  OBVIOUS
<1>1. Limit \in Nat
  BY ReaderAssumption DEF Limit
<1> QED
  BY <1>1, EmptySeq DEF Init, TypeOK

LEMMA TypeStep == TypeOK /\ [Next]_vars => TypeOK'
<1> SUFFICES ASSUME TypeOK, [Next]_vars PROVE TypeOK'
  OBVIOUS
<1> USE DEF TypeOK
<1>1. ASSUME NEW m \in Messages, Send(m) PROVE TypeOK'
  <2>1. wire \o m.bytes \in Seq(Symbols)
    BY MessageType, ConcatProperties
  <2>2. Append(sent, m) \in Seq(Messages)
    BY AppendProperties
  <2> QED
    BY <1>1, <2>1, <2>2 DEF Send
<1>2. ASSUME NEW n \in 1..Chunk, Receive(n) PROVE TypeOK'
  <2>1. n \in Nat /\ n <= Len(wire) /\ Len(wire) \in Nat
    BY <1>2, LenProperties, ReaderAssumption DEF Receive
  <2>2. /\ SubSeq(wire, 1, n) \in Seq(Symbols)
        /\ SubSeq(wire, n + 1, Len(wire)) \in Seq(Symbols)
    BY <2>1, CutIsSequence
  <2>3. buffer \o SubSeq(wire, 1, n) \in Seq(Symbols)
    BY <2>2, ConcatProperties
  <2>4. left' \in Nat
    BY <1>2, ReaderAssumption DEF Receive, AfterFirstByte, Least
  <2> QED
    BY <1>2, <2>2, <2>3, <2>4 DEF Receive
<1>3. ASSUME NEW goesOn \in BOOLEAN, Handles(goesOn) PROVE TypeOK'
  <2>1. Extracted.size \in 1..Len(buffer) /\ Len(buffer) \in Nat
    BY <1>3, ExtractedSound DEF Handles, Sound
  <2>2. SubSeq(buffer, 1, Extracted.size) \in Seq(Symbols)
    BY <2>1, CutIsSequence
  <2>3. Kept(Extracted.size) \in Seq(Symbols)
    BY <2>1, CutIsSequence DEF Kept
  <2>4. handled' \in Seq(Seq(Symbols))
    BY <1>3, <2>2, AppendProperties DEF Handles
  <2>5. left' \in Nat
    BY <1>3, ReaderAssumption DEF Handles, Limit
  <2> QED
    BY <1>3, <2>3, <2>4, <2>5 DEF Handles
<1>4. CASE Interrupted
  BY <1>4 DEF Interrupted
<1>5. CASE AsksForMore
  BY <1>5 DEF AsksForMore
<1>6. CASE Refuses
  BY <1>6 DEF Refuses
<1>7. CASE RecvTimesOut
  BY <1>7 DEF RecvTimesOut
<1>8. CASE Tick
  BY <1>8 DEF Tick
<1>9. CASE UNCHANGED vars
  BY <1>9 DEF vars
<1> QED
  BY <1>1, <1>2, <1>3, <1>4, <1>5, <1>6, <1>7, <1>8, <1>9 DEF Next, Loop

\* What the loop holds is of the form it should be in all runs.
THEOREM TypeCorrect == Spec => []TypeOK
BY TypeInit, TypeStep, PTL DEF Spec

-----------------------------------------------------------------------------
(* The buffer *)

\* The loop waits only while Extract wants more, and then there is room for it.
Roomy ==
  /\ reader = "wait" => Extracted.result = "NeedMore"
  /\ BufferBounded

LEMMA RoomyInit == Init => Roomy
BY EmptySeq, RoomAssumption DEF Init, Roomy, BufferBounded

LEMMA RoomyStep == TypeOK /\ Roomy /\ [Next]_vars => Roomy'
<1> SUFFICES ASSUME TypeOK, Roomy, [Next]_vars PROVE Roomy'
  OBVIOUS
<1> USE DEF Roomy
<1>1. ASSUME NEW n \in 1..Chunk, Receive(n) PROVE Roomy'
  <2>1. Len(buffer) + Chunk <= MaxBuffered /\ Len(buffer) \in Nat
    BY <1>1, ExtractedSound DEF Receive, Sound
  <2>2. n \in Nat /\ n <= Len(wire) /\ Chunk \in Nat /\ MaxBuffered \in Nat
    BY <1>1, ReaderAssumption, RoomAssumption DEF Receive
  <2>3. SubSeq(wire, 1, n) \in Seq(Symbols) /\ Len(SubSeq(wire, 1, n)) = n
    BY <2>2, CutIsSequence DEF TypeOK
  <2>4. Len(buffer') = Len(buffer) + n
    BY <1>1, <2>3, ConcatProperties DEF TypeOK, Receive
  <2> QED
    BY <1>1, <2>1, <2>2, <2>4 DEF Receive, BufferBounded
<1>2. ASSUME NEW goesOn \in BOOLEAN, Handles(goesOn) PROVE Roomy'
  <2>1. Extracted.size \in 1..Len(buffer) /\ Len(buffer) \in Nat
    BY <1>2, ExtractedSound DEF Handles, Sound
  <2>2. Len(Kept(Extracted.size)) <= Len(buffer) /\ Len(Kept(Extracted.size)) \in Nat
    BY <2>1, CutIsSequence, LenProperties DEF Kept, TypeOK
  <2> QED
    BY <1>2, <2>1, <2>2, RoomAssumption DEF Handles, BufferBounded
<1>3. ASSUME NEW m \in Messages, Send(m) PROVE Roomy'
  BY <1>3 DEF Send, Extracted, BufferBounded
<1>4. CASE Interrupted
  BY <1>4 DEF Interrupted, BufferBounded
<1>5. CASE AsksForMore
  BY <1>5 DEF AsksForMore, Extracted, BufferBounded
<1>6. CASE Refuses
  BY <1>6 DEF Refuses, BufferBounded
<1>7. CASE RecvTimesOut
  BY <1>7 DEF RecvTimesOut, BufferBounded
<1>8. CASE Tick
  BY <1>8 DEF Tick, Extracted, BufferBounded
<1>9. CASE UNCHANGED vars
  BY <1>9 DEF vars, Extracted, BufferBounded
<1> QED
  BY <1>1, <1>2, <1>3, <1>4, <1>5, <1>6, <1>7, <1>8, <1>9 DEF Next, Loop

\* No connection is refused for bytes of several messages that came at once: with the
\* limits of WireProtocol.h, or any that leave room for one recv, the buffer
\* never gets larger than what Extract accepts.
THEOREM NeverOverfull == Spec => []BufferBounded
<1>1. Roomy => BufferBounded
  BY DEF Roomy
<1> QED
  BY <1>1, TypeInit, TypeStep, RoomyInit, RoomyStep, PTL DEF Spec

-----------------------------------------------------------------------------
(* The deadlines *)

\* The time taken and the time left add up to a limit: to that of the wait for a message,
\* or to that of the message which has begun.
Clocks ==
  /\ quiet + left <= Limit
  /\ buffer # <<>> => age + left <= AssemblyLimit
  /\ buffer = <<>> => age = 0
  /\ quiet + left = Limit \/ (buffer # <<>> /\ age + left = AssemblyLimit)
  /\ reader = "late" => left = 0

LEMMA LimitIsLarger == rtsp \in BOOLEAN => Limit \in Nat /\ AssemblyLimit <= Limit
BY ReaderAssumption DEF Limit

LEMMA ClocksInit == Init => Clocks
BY LimitIsLarger DEF Init, Clocks, Limit

LEMMA ClocksStep == TypeOK /\ Clocks /\ [Next]_vars => Clocks'
<1> SUFFICES ASSUME TypeOK, Clocks, [Next]_vars PROVE Clocks'
  OBVIOUS
<1>0. /\ Limit \in Nat /\ AssemblyLimit \in Nat /\ AssemblyLimit <= Limit
      /\ left \in Nat /\ age \in Nat /\ quiet \in Nat
  BY LimitIsLarger, ReaderAssumption DEF TypeOK
<1> USE DEF Clocks
<1>1. ASSUME NEW n \in 1..Chunk, Receive(n) PROVE Clocks'
  <2>1. Limit' = Limit
    BY <1>1 DEF Receive, Limit
  <2>2. n \in Nat /\ 1 <= n /\ n <= Len(wire)
    BY <1>1, ReaderAssumption DEF Receive
  <2>3. SubSeq(wire, 1, n) \in Seq(Symbols) /\ Len(SubSeq(wire, 1, n)) = n
    BY <2>2, CutIsSequence DEF TypeOK
  <2>4. buffer' # <<>>
    <3>1. Len(buffer \o SubSeq(wire, 1, n)) = Len(buffer) + n /\ Len(buffer) \in Nat
      BY <2>3, ConcatProperties, LenProperties DEF TypeOK
    <3> QED
      BY <1>1, <2>2, <3>1, EmptySeq DEF Receive
  <2>5. CASE buffer = <<>>
    BY <1>0, <1>1, <2>1, <2>4, <2>5 DEF Receive, AfterFirstByte, Least
  <2>6. CASE buffer # <<>>
    BY <1>0, <1>1, <2>1, <2>4, <2>6 DEF Receive
  <2> QED
    BY <2>5, <2>6
<1>2. ASSUME NEW goesOn \in BOOLEAN, Handles(goesOn) PROVE Clocks'
  BY <1>0, <1>2 DEF Handles, Limit
<1>3. CASE Tick
  BY <1>0, <1>3 DEF Tick, Limit
<1>4. CASE AsksForMore
  BY <1>0, <1>4 DEF AsksForMore, Limit, Late
<1>5. CASE RecvTimesOut
  BY <1>0, <1>5 DEF RecvTimesOut, Limit
<1>6. CASE Refuses
  BY <1>0, <1>6 DEF Refuses, Limit
<1>7. CASE Interrupted
  BY <1>0, <1>7 DEF Interrupted, Limit
<1>8. ASSUME NEW m \in Messages, Send(m) PROVE Clocks'
  BY <1>0, <1>8 DEF Send, Limit
<1>9. CASE UNCHANGED vars
  BY <1>0, <1>9 DEF vars, Limit
<1> QED
  BY <1>1, <1>2, <1>3, <1>4, <1>5, <1>6, <1>7, <1>8, <1>9 DEF Next, Loop

\* Nobody can hold a connection longer than the limits by spreading bytes, and nobody
\* is turned away before one of the limits is used up.
THEOREM InTime == Spec => []TimeLimits
<1>1. TypeOK /\ Clocks => TimeLimits
  <2> SUFFICES ASSUME TypeOK, Clocks PROVE TimeLimits
    OBVIOUS
  <2>1. /\ Limit \in Nat /\ AssemblyLimit \in Nat
        /\ left \in Nat /\ age \in Nat /\ quiet \in Nat
    BY LimitIsLarger, ReaderAssumption DEF TypeOK
  <2> QED
    BY <2>1 DEF Clocks, TimeLimits
<1> QED
  BY <1>1, TypeInit, TypeStep, ClocksInit, ClocksStep, PTL DEF Spec

-----------------------------------------------------------------------------
(* The messages *)

\* What the client has sent and the loop not yet extracted.
Unread == buffer \o wire

\* at[i] is where the i-th message ends in all that was sent; what is unread is the
\* messages that are not handled yet, one behind the other.
Laid(at) ==
  /\ \A i \in Nat : at[i] \in Nat
  /\ Len(handled) <= Len(sent)
  /\ \A i \in 1..Len(sent) : at[i] = at[i - 1] + Len(sent[i].bytes)
  /\ \A i, j \in 0..Len(sent) : i <= j => at[i] <= at[j]
  /\ Len(Unread) = at[Len(sent)] - at[Len(handled)]
  /\ \A i \in (Len(handled) + 1)..Len(sent) : \A j \in 1..Len(sent[i].bytes) :
       Unread[at[i - 1] - at[Len(handled)] + j] = sent[i].bytes[j]

InOrder == \E at : Laid(at)

\* HTTP clients send no frames, and only what should be refused is.
Verdict ==
  /\ \A i \in 1..Len(sent) : rtsp \/ sent[i].verdict # "Interleaved"
  /\ reader \in {"Invalid", "TooLarge"} =>
       Len(handled) < Len(sent) /\ sent[Len(handled) + 1].verdict = reader
  /\ \A i \in 1..Len(handled) : /\ handled[i] = sent[i].bytes
                                /\ sent[i].verdict \in Handled

\* The next message is in front.
LEMMA NextIsFirst ==
  ASSUME TypeOK, NEW at, Laid(at), Len(handled) < Len(sent)
  PROVE  LET m == sent[Len(handled) + 1] IN
         /\ m \in Messages
         /\ Len(m.bytes) \in Nat
         /\ Len(m.bytes) <= Len(Unread)
         /\ \A j \in 1..Len(m.bytes) : Unread[j] = m.bytes[j]
<1> DEFINE h == Len(handled)
           m == sent[h + 1]
<1>1. h \in Nat /\ Len(sent) \in Nat /\ h + 1 \in 1..Len(sent)
  BY LenProperties DEF TypeOK
<1>2. m \in Messages /\ Len(m.bytes) \in Nat
  BY <1>1, ElementOfSeq, MessageType, LenProperties DEF TypeOK
<1>3. /\ at[h] \in Nat /\ at[h + 1] \in Nat /\ at[Len(sent)] \in Nat
      /\ at[h + 1] = at[h] + Len(m.bytes)
      /\ at[h + 1] <= at[Len(sent)]
      /\ Len(Unread) = at[Len(sent)] - at[h]
  <2>1. (h + 1) - 1 = h
    BY <1>1
  <2>2. at[h + 1] = at[(h + 1) - 1] + Len(sent[h + 1].bytes)
    BY <1>1 DEF Laid
  <2>3. at[h + 1] <= at[Len(sent)]
    BY <1>1 DEF Laid
  <2>4. /\ at[h] \in Nat /\ at[h + 1] \in Nat /\ at[Len(sent)] \in Nat
        /\ Len(Unread) = at[Len(sent)] - at[h]
    BY <1>1 DEF Laid
  <2> QED
    BY <2>1, <2>2, <2>3, <2>4
<1>4. ASSUME NEW j \in 1..Len(m.bytes) PROVE Unread[j] = m.bytes[j]
  <2>1. Unread[at[(h + 1) - 1] - at[h] + j] = m.bytes[j]
    <3>1. h + 1 \in (h + 1)..Len(sent) /\ j \in 1..Len(sent[h + 1].bytes)
      BY <1>1
    <3> QED
      BY <3>1 DEF Laid
  <2>2. (h + 1) - 1 = h /\ at[h] - at[h] + j = j
    BY <1>1, <1>2, <1>3, <1>4
  <2> QED
    BY <2>1, <2>2
<1> QED
  BY <1>2, <1>3, <1>4

\* Bytes are received that are not of a handled message: one is left.
LEMMA NextExists ==
  ASSUME TypeOK, NEW at, Laid(at), buffer # <<>>
  PROVE  Len(handled) < Len(sent)
<1>1. Len(handled) \in Nat /\ Len(sent) \in Nat
  BY LenProperties DEF TypeOK
<1>2. Len(Unread) = Len(buffer) + Len(wire) /\ Len(buffer) >= 1 /\ Len(buffer) \in Nat /\ Len(wire) \in Nat
  BY ConcatProperties, EmptySeq, LenProperties DEF TypeOK, Unread
<1>3. CASE Len(handled) = Len(sent)
  <2>1. at[Len(sent)] \in Nat
    BY <1>1 DEF Laid
  <2>2. Len(Unread) = 0
    BY <1>3, <2>1 DEF Laid
  <2> QED
    BY <1>2, <2>2
<1> QED
  BY <1>1, <1>3 DEF Laid

\* Extract takes the next message: no other, no part of it and no more.
LEMMA ExtractsTheNext ==
  ASSUME TypeOK, Roomy, Verdict, NEW at, Laid(at), Extracted.result # "NeedMore"
  PROVE  LET m == sent[Len(handled) + 1] IN
         /\ Len(handled) < Len(sent)
         /\ Extracted.result = m.verdict
         /\ m.verdict \in Handled => /\ Extracted.size = Len(m.bytes)
                                     /\ Prefix(m.bytes, buffer)
<1> DEFINE m == sent[Len(handled) + 1]
<1>1. buffer \in Seq(Symbols) /\ Len(buffer) \in Nat /\ Len(buffer) <= MaxBuffered
  BY LenProperties DEF TypeOK, Roomy, BufferBounded
<1>2. buffer # <<>>
  <2>1. ASSUME buffer = <<>> PROVE FALSE
    BY <1>1, <2>1, RoomAssumption DEF Extracted, Extract, NeedMore, Result
  <2> QED
    BY <2>1
<1>3. Len(handled) < Len(sent)
  BY <1>2, NextExists
<1>4. /\ m \in Messages /\ m.bytes \in Seq(Symbols) /\ Len(m.bytes) \in Nat
      /\ \A j \in 1..Len(m.bytes) : Unread[j] = m.bytes[j]
  BY <1>3, NextIsFirst, MessageType
<1>5. /\ Len(wire) \in Nat
      /\ \A j \in 1..Len(buffer) : Unread[j] = buffer[j]
  BY <1>1, ConcatProperties, LenProperties DEF TypeOK, Unread
<1>6. rtsp \in BOOLEAN /\ (rtsp \/ m.verdict # "Interleaved")
  <2>1. Len(handled) + 1 \in 1..Len(sent)
    BY <1>3, LenProperties DEF TypeOK
  <2> QED
    BY <2>1 DEF Verdict, TypeOK
<1>7. /\ Len(m.bytes) <= MaxBuffered
      /\ Extract(m.bytes, rtsp).result = m.verdict
      /\ m.verdict \in Handled => Extract(m.bytes, rtsp).size = Len(m.bytes)
  BY <1>4, <1>6, MessagesAssumption
<1>8. m.verdict # "NeedMore"
  BY <1>4, MessageType DEF Verdicts, Handled
<1> HIDE DEF m
<1>9. CASE Len(m.bytes) <= Len(buffer)
  <2>1. Prefix(m.bytes, buffer)
    BY <1>1, <1>4, <1>5, <1>9 DEF Prefix
  <2>2. Extracted = Extract(m.bytes, rtsp)
    BY <1>1, <1>4, <1>6, <1>7, <1>8, <2>1, ExtractStable DEF Extracted
  <2> QED
    BY <1>3, <1>7, <2>1, <2>2 DEF m
<1>10. CASE Len(m.bytes) > Len(buffer)
  <2>1. Prefix(buffer, m.bytes)
    BY <1>1, <1>4, <1>5, <1>10 DEF Prefix
  <2>2. Extracted = Extract(m.bytes, rtsp)
    BY <1>1, <1>4, <1>6, <1>7, <2>1, ExtractStable DEF Extracted
  <2>3. m.verdict \in Handled => Extracted.size \in 1..Len(buffer)
    BY <1>7, <2>2, ExtractedSound DEF Sound
  <2>4. m.verdict \notin Handled
    BY <1>1, <1>4, <1>7, <1>10, <2>2, <2>3
  <2> QED
    BY <1>3, <1>7, <2>2, <2>4 DEF m
<1> QED
  BY <1>1, <1>4, <1>9, <1>10

\* What Extract wants more of is the beginning of the next message.
LEMMA WaitsForTheNext ==
  ASSUME TypeOK, Roomy, Verdict, NEW at, Laid(at),
         Extracted.result = "NeedMore", buffer # <<>>
  PROVE  LET m == sent[Len(handled) + 1] IN
         /\ Len(buffer) < Len(m.bytes)
         /\ buffer = SubSeq(m.bytes, 1, Len(buffer))
<1> DEFINE m == sent[Len(handled) + 1]
<1>1. buffer \in Seq(Symbols) /\ Len(buffer) \in Nat /\ Len(buffer) <= MaxBuffered
  BY LenProperties DEF TypeOK, Roomy, BufferBounded
<1>2. Len(handled) < Len(sent)
  BY NextExists
<1>3. /\ m \in Messages /\ m.bytes \in Seq(Symbols) /\ Len(m.bytes) \in Nat
      /\ \A j \in 1..Len(m.bytes) : Unread[j] = m.bytes[j]
  BY <1>2, NextIsFirst, MessageType
<1>4. \A j \in 1..Len(buffer) : Unread[j] = buffer[j]
  BY <1>1, ConcatProperties, LenProperties DEF TypeOK, Unread
<1>5. rtsp \in BOOLEAN /\ (rtsp \/ m.verdict # "Interleaved")
  <2>1. Len(handled) + 1 \in 1..Len(sent)
    BY <1>2, LenProperties DEF TypeOK
  <2> QED
    BY <2>1 DEF Verdict, TypeOK
<1>6. Extract(m.bytes, rtsp).result # "NeedMore"
  BY <1>3, <1>5, MessagesAssumption, MessageType DEF Verdicts, Handled
<1> HIDE DEF m
<1>7. Len(buffer) < Len(m.bytes)
  <2>1. ASSUME Len(m.bytes) <= Len(buffer) PROVE FALSE
    <3>1. Prefix(m.bytes, buffer)
      BY <1>1, <1>3, <1>4, <2>1 DEF Prefix
    <3>2. Extract(buffer, rtsp) = Extract(m.bytes, rtsp)
      BY <1>1, <1>3, <1>5, <1>6, <3>1, ExtractStable
    <3> QED
      BY <1>6, <3>2 DEF Extracted
  <2> QED
    BY <1>1, <1>3, <2>1
<1>8. buffer = SubSeq(m.bytes, 1, Len(buffer))
  <2>1. /\ SubSeq(m.bytes, 1, Len(buffer)) \in Seq(Symbols)
        /\ Len(SubSeq(m.bytes, 1, Len(buffer))) = Len(buffer)
        /\ \A j \in 1..Len(buffer) : SubSeq(m.bytes, 1, Len(buffer))[j] = m.bytes[j]
    BY <1>1, <1>3, <1>7, CutIsSequence
  <2> QED
    BY <1>1, <1>3, <1>4, <1>7, <2>1, SeqEqual
<1> QED
  BY <1>7, <1>8 DEF m

LEMMA OneMoreEnd ==
  ASSUME NEW at, \A i \in Nat : at[i] \in Nat, NEW l \in Nat, NEW x \in Nat
  PROVE  \E next : /\ \A i \in Nat : next[i] \in Nat
                   /\ next[l + 1] = x
                   /\ \A i \in 0..l : next[i] = at[i]
<1> DEFINE next == [i \in Nat |-> IF i = l + 1 THEN x ELSE at[i]]
<1>1. \A i \in Nat : next[i] \in Nat
  OBVIOUS
<1>2. next[l + 1] = x
  OBVIOUS
<1>3. \A i \in 0..l : next[i] = at[i]
  OBVIOUS
<1> QED
  BY <1>1, <1>2, <1>3

\* A place in a message is one in what is unread.
LEMMA InsideUnread ==
  ASSUME NEW before \in Nat, NEW done \in Nat, NEW all \in Nat, NEW size \in Nat,
         NEW j \in 1..size, done <= before, before + size <= all
  PROVE  before - done + j \in 1..(all - done)
OBVIOUS

\* A message sent lies behind the others.
LEMMA LaidSend ==
  ASSUME TypeOK, NEW at, Laid(at), NEW m \in Messages, Send(m)
  PROVE  InOrder'
<1> DEFINE l == Len(sent)
           c == m.bytes
           x == at[l] + Len(c)
<1>1. /\ l \in Nat /\ Len(handled) \in Nat /\ Len(handled) <= l
      /\ c \in Seq(Symbols) /\ Len(c) \in Nat
  BY MessageType, LenProperties DEF TypeOK, Laid
<1> HIDE DEF c
<1>2. /\ Len(sent') = l + 1
      /\ sent'[l + 1] = m
      /\ \A i \in 1..l : sent'[i] = sent[i]
      /\ handled' = handled
  BY <1>1, AppendProperties DEF Send, TypeOK
<1>3. \A i \in 1..l : Len(sent[i].bytes) \in Nat
  BY ElementOfSeq, MessageType, LenProperties DEF TypeOK
<1>4. \A i \in Nat : at[i] \in Nat
  BY DEF Laid
<1> HIDE DEF l
<1>5. at[l] \in Nat /\ x \in Nat /\ x = at[l] + Len(c)
  <2>1. at[l] \in Nat
    BY <1>1, <1>4
  <2> QED
    BY <1>1, <2>1
<1> HIDE DEF x
<1>6. PICK next : /\ \A i \in Nat : next[i] \in Nat
                  /\ next[l + 1] = x
                  /\ \A i \in 0..l : next[i] = at[i]
  BY <1>1, <1>4, <1>5, OneMoreEnd
<1>7. Unread' = Unread \o c /\ Unread \in Seq(Symbols)
  <2>1. buffer \in Seq(Symbols) /\ wire \in Seq(Symbols)
    BY DEF TypeOK
  <2>2. (buffer \o wire) \o c = buffer \o (wire \o c)
    BY <1>1, <2>1, ConcatAssociative
  <2>3. buffer' = buffer /\ wire' = wire \o c
    BY DEF Send, c
  <2> QED
    BY <2>1, <2>2, <2>3, ConcatProperties DEF Unread
<1>8. /\ Len(Unread') = Len(Unread) + Len(c)
      /\ Len(Unread) \in Nat
      /\ \A k \in 1..Len(Unread) : Unread'[k] = Unread[k]
      /\ \A k \in 1..Len(c) : Unread'[Len(Unread) + k] = c[k]
  <2>1. /\ Len(Unread) \in Nat
        /\ Len(Unread') = Len(Unread) + Len(c)
        /\ \A k \in 1..(Len(Unread) + Len(c)) :
             Unread'[k] = IF k <= Len(Unread) THEN Unread[k] ELSE c[k - Len(Unread)]
    BY <1>1, <1>7, ConcatProperties, LenProperties
  <2>2. ASSUME NEW k \in 1..Len(c) PROVE Unread'[Len(Unread) + k] = c[k]
    <3>1. /\ Len(Unread) + k \in 1..(Len(Unread) + Len(c))
          /\ ~(Len(Unread) + k <= Len(Unread))
          /\ (Len(Unread) + k) - Len(Unread) = k
      BY <1>1, <2>1
    <3> QED
      BY <2>1, <3>1
  <2> QED
    BY <1>1, <2>1, <2>2
<1>9. Len(Unread) = at[l] - at[Len(handled)]
  BY DEF Laid, l
<1>10. \A i \in 1..(l + 1) : next[i] = next[i - 1] + Len(sent'[i].bytes)
  <2> TAKE i \in 1..(l + 1)
  <2>1. CASE i = l + 1
    <3>1. i - 1 = l /\ l \in 0..l
      BY <1>1, <2>1
    <3>2. Len(sent'[i].bytes) = Len(c)
      BY <1>2, <2>1 DEF c
    <3> QED
      BY <1>5, <1>6, <2>1, <3>1, <3>2
  <2>2. CASE i # l + 1
    <3>1. i \in 1..l /\ i \in 0..l /\ i - 1 \in 0..l
      BY <1>1, <2>2
    <3>2. at[i] = at[i - 1] + Len(sent[i].bytes)
      BY <3>1 DEF Laid, l
    <3> QED
      BY <1>2, <1>6, <3>1, <3>2
  <2> QED
    BY <2>1, <2>2
<1>11. \A i, j \in 0..(l + 1) : i <= j => next[i] <= next[j]
  <2>1. \A i, j \in 0..l : i <= j => at[i] <= at[j]
    BY DEF Laid, l
  <2> TAKE i, j \in 0..(l + 1)
  <2>2. CASE j \in 0..l
    <3>1. ASSUME i <= j PROVE i \in 0..l
      BY <1>1, <2>2, <3>1
    <3> QED
      BY <1>6, <2>1, <2>2, <3>1
  <2>3. CASE j = l + 1 /\ i \in 0..l
    <3>1. l \in 0..l /\ i <= l /\ i \in Nat
      BY <1>1, <2>3
    <3>2. at[i] <= at[l] /\ at[i] \in Nat
      BY <1>4, <2>1, <2>3, <3>1
    <3>3. next[i] = at[i] /\ next[j] = at[l] + Len(c)
      BY <1>5, <1>6, <2>3
    <3> QED
      BY <1>1, <1>5, <3>2, <3>3
  <2>4. CASE j = l + 1 /\ i = l + 1
    <3>1. next[i] = next[j] /\ next[j] \in Nat
      BY <1>5, <1>6, <2>4
    <3> QED
      BY <3>1
  <2> QED
    BY <1>1, <2>2, <2>3, <2>4
<1>12. Len(Unread') = next[l + 1] - next[Len(handled)]
  <2>1. next[Len(handled)] = at[Len(handled)] /\ at[Len(handled)] \in Nat
    BY <1>1, <1>4, <1>6
  <2>2. next[l + 1] = at[l] + Len(c)
    BY <1>5, <1>6
  <2>3. Len(Unread') = at[l] - at[Len(handled)] + Len(c)
    BY <1>8, <1>9
  <2>4. Len(c) \in Nat /\ at[l] \in Nat
    BY <1>1, <1>5
  <2> QED
    BY <2>1, <2>2, <2>3, <2>4
<1>13. ASSUME NEW i \in (Len(handled) + 1)..(l + 1), NEW j \in 1..Len(sent'[i].bytes)
       PROVE  Unread'[next[i - 1] - next[Len(handled)] + j] = sent'[i].bytes[j]
  <2>1. i - 1 \in 0..l /\ Len(handled) \in 0..l
    BY <1>1
  <2>2. /\ next[i - 1] = at[i - 1] /\ next[Len(handled)] = at[Len(handled)]
        /\ at[i - 1] \in Nat /\ at[Len(handled)] \in Nat /\ at[l] \in Nat
    <3>1. i - 1 \in Nat
      BY <2>1
    <3> QED
      BY <1>1, <1>4, <1>5, <1>6, <2>1, <3>1
  <2>3. CASE i = l + 1
    <3>1. i - 1 = l /\ sent'[i].bytes = c
      BY <1>1, <1>2, <2>3 DEF c
    <3> QED
      BY <1>8, <1>9, <2>2, <3>1
  <2>4. CASE i # l + 1
    <3>1. i \in (Len(handled) + 1)..l /\ i \in 1..l /\ i \in 0..l /\ l \in 0..l /\ i <= l
      BY <1>1, <2>4
    <3>2. sent'[i] = sent[i] /\ j \in 1..Len(sent[i].bytes) /\ Len(sent[i].bytes) \in Nat
      BY <1>2, <1>3, <3>1
    <3>3. Unread[at[i - 1] - at[Len(handled)] + j] = sent[i].bytes[j]
      BY <3>1, <3>2 DEF Laid, l
    <3>4. at[i] = at[i - 1] + Len(sent[i].bytes) /\ at[i] <= at[l] /\ at[i] \in Nat
      <4>1. at[i] = at[i - 1] + Len(sent[i].bytes)
        BY <3>1 DEF Laid, l
      <4>2. at[i] <= at[l]
        BY <3>1 DEF Laid, l
      <4>3. i \in Nat
        BY <3>1
      <4> QED
        BY <1>4, <4>1, <4>2, <4>3
    <3>5. at[Len(handled)] <= at[i - 1]
      <4>1. Len(handled) <= i - 1
        BY <1>1
      <4> QED
        BY <2>1, <4>1 DEF Laid, l
    <3>6. at[i - 1] - at[Len(handled)] + j \in 1..Len(Unread)
      <4>1. at[i - 1] + Len(sent[i].bytes) <= at[l]
        BY <3>4
      <4> QED
        BY <1>9, <2>2, <3>2, <3>5, <4>1, InsideUnread
    <3> QED
      BY <1>8, <2>2, <3>2, <3>3, <3>6
  <2> QED
    BY <2>3, <2>4
<1>14. /\ Len(sent') = l + 1 /\ Len(handled') = Len(handled)
       /\ Len(handled') <= Len(sent')
  BY <1>1, <1>2
<1> QED
  <2>1. Laid(next)'
    BY <1>2, <1>6, <1>10, <1>11, <1>12, <1>13, <1>14 DEF Laid
  <2> QED
    BY <2>1 DEF InOrder

LEMMA ShiftedPlace ==
  ASSUME NEW n \in Nat, NEW before \in Nat, NEW done \in Nat, NEW ended \in Nat,
         NEW j \in Nat, ended = done + n
  PROVE  n + (before - ended + j) = before - done + j
OBVIOUS

\* A message handled is gone from the front.
LEMMA LaidHandles ==
  ASSUME TypeOK, Roomy, Verdict, NEW at, Laid(at), NEW goesOn \in BOOLEAN, Handles(goesOn)
  PROVE  InOrder'
<1> DEFINE h == Len(handled)
           l == Len(sent)
           n == Extracted.size
<1>1. h \in Nat /\ l \in Nat /\ h < l /\ h + 1 \in 1..l
  BY ExtractsTheNext, LenProperties DEF Handles, Handled, TypeOK
<1>2. n = Len(sent[h + 1].bytes)
  BY ExtractsTheNext DEF Handles, Handled
<1>3. n \in 1..Len(buffer) /\ Len(buffer) \in Nat /\ Len(wire) \in Nat
  BY ExtractedSound, LenProperties DEF Handles, Sound, TypeOK
<1>4. buffer' = Kept(n) /\ wire' = wire /\ sent' = sent /\ Len(handled') = h + 1
  <2>1. SubSeq(buffer, 1, n) \in Seq(Symbols)
    BY <1>3, CutIsSequence DEF TypeOK
  <2> QED
    BY <2>1, AppendProperties DEF Handles, TypeOK
<1>5. /\ Kept(n) \in Seq(Symbols)
      /\ Len(Kept(n)) = Len(buffer) - n
      /\ \A k \in 1..(Len(buffer) - n) : Kept(n)[k] = buffer[n + k]
  <2>1. n + 1 \in Nat \ {0} /\ Len(buffer) <= Len(buffer)
    BY <1>3
  <2>2. /\ SubSeq(buffer, n + 1, Len(buffer)) \in Seq(Symbols)
        /\ Len(SubSeq(buffer, n + 1, Len(buffer))) =
             IF n + 1 <= Len(buffer) THEN Len(buffer) - (n + 1) + 1 ELSE 0
        /\ \A k \in 1..(Len(buffer) - (n + 1) + 1) :
             SubSeq(buffer, n + 1, Len(buffer))[k] = buffer[(n + 1) + k - 1]
    BY <1>3, <2>1, CutIsSequence DEF TypeOK
  <2> QED
    BY <1>3, <2>2 DEF Kept
<1> HIDE DEF h, l, n
<1>6. /\ Len(Unread) = Len(buffer) + Len(wire)
      /\ \A k \in 1..(Len(buffer) + Len(wire)) :
           Unread[k] = IF k <= Len(buffer) THEN buffer[k] ELSE wire[k - Len(buffer)]
  BY ConcatProperties DEF Unread, TypeOK
<1>7. /\ Len(Unread') = Len(buffer) - n + Len(wire)
      /\ \A k \in 1..(Len(buffer) - n + Len(wire)) :
           Unread'[k] = IF k <= Len(buffer) - n THEN Kept(n)[k]
                        ELSE wire[k - (Len(buffer) - n)]
  BY <1>4, <1>5, ConcatProperties DEF Unread, TypeOK
<1>8. Len(Unread') = Len(Unread) - n /\ Len(Unread) \in Nat
  BY <1>3, <1>6, <1>7
<1>9. ASSUME NEW k \in 1..(Len(Unread) - n) PROVE Unread'[k] = Unread[n + k]
  <2>1. n \in Nat /\ k \in Nat /\ 1 <= k /\ k <= Len(buffer) + Len(wire) - n
    BY <1>3, <1>6
  <2>2. k \in 1..(Len(buffer) - n + Len(wire)) /\ n + k \in 1..(Len(buffer) + Len(wire))
    BY <1>3, <2>1
  <2>3. CASE k <= Len(buffer) - n
    <3>1. k \in 1..(Len(buffer) - n) /\ n + k <= Len(buffer)
      BY <1>3, <2>1, <2>3
    <3> QED
      BY <1>5, <1>6, <1>7, <2>2, <2>3, <3>1
  <2>4. CASE ~(k <= Len(buffer) - n)
    <3>1. ~(n + k <= Len(buffer)) /\ k - (Len(buffer) - n) = (n + k) - Len(buffer)
      BY <1>3, <2>1, <2>4
    <3> QED
      BY <1>6, <1>7, <2>2, <2>4, <3>1
  <2> QED
    BY <2>3, <2>4
<1>10. /\ \A i \in Nat : at[i] \in Nat
       /\ \A i \in 1..l : at[i] = at[i - 1] + Len(sent[i].bytes)
       /\ \A i, j \in 0..l : i <= j => at[i] <= at[j]
       /\ Len(Unread) = at[l] - at[h]
       /\ \A i \in (h + 1)..l : \A j \in 1..Len(sent[i].bytes) :
            Unread[at[i - 1] - at[h] + j] = sent[i].bytes[j]
  BY DEF Laid, h, l
<1>11. /\ at[h + 1] = at[h] + n
       /\ at[h] \in Nat /\ at[h + 1] \in Nat /\ at[l] \in Nat /\ n \in Nat
  <2>1. (h + 1) - 1 = h
    BY <1>1
  <2> QED
    BY <1>1, <1>2, <1>3, <1>10, <2>1
<1>12. Len(Unread') = at[l] - at[h + 1]
  <2>1. Len(Unread) = at[l] - at[h]
    BY DEF Laid, h, l
  <2> QED
    BY <1>8, <1>11, <2>1
<1>13. ASSUME NEW i \in (h + 2)..l, NEW j \in 1..Len(sent[i].bytes)
       PROVE  Unread'[at[i - 1] - at[h + 1] + j] = sent[i].bytes[j]
  <2>1. /\ i \in (h + 1)..l /\ i \in 1..l /\ i \in 0..l /\ i - 1 \in 0..l /\ i - 1 \in Nat
        /\ i \in Nat /\ l \in 0..l /\ i <= l /\ h + 1 \in 0..l /\ h + 1 <= i - 1
    BY <1>1
  <2>2. Len(sent[i].bytes) \in Nat
    BY <2>1, ElementOfSeq, MessageType, LenProperties DEF TypeOK, l
  <2>3. /\ at[i - 1] \in Nat /\ at[i] \in Nat
        /\ at[i] = at[i - 1] + Len(sent[i].bytes)
        /\ at[i] <= at[l] /\ at[h + 1] <= at[i - 1]
    BY <1>10, <2>1
  <2>4. at[i - 1] + Len(sent[i].bytes) <= at[l]
    BY <2>3
  <2>5. at[i - 1] - at[h + 1] + j \in 1..(at[l] - at[h + 1])
    BY <1>11, <2>2, <2>3, <2>4, InsideUnread
  <2>6. at[i - 1] - at[h + 1] + j \in 1..(Len(Unread) - n)
    BY <1>8, <1>12, <2>5
  <2>7. Unread'[at[i - 1] - at[h + 1] + j] = Unread[n + (at[i - 1] - at[h + 1] + j)]
    BY <1>9, <2>6
  <2>8. n + (at[i - 1] - at[h + 1] + j) = at[i - 1] - at[h] + j
    <3>1. j \in Nat
      BY <2>2
    <3>2. at[i - 1] \in Nat
      BY <2>3
    <3>3. /\ at[h] \in Nat /\ at[h + 1] \in Nat /\ n \in Nat
          /\ at[h + 1] = at[h] + n
      BY <1>11
    <3> QED
      BY <3>1, <3>2, <3>3, ShiftedPlace
  <2> QED
    BY <1>10, <2>1, <2>7, <2>8
<1>14. /\ Len(sent') = l /\ Len(handled') = h + 1 /\ h + 1 <= l
       /\ (h + 1) + 1 = h + 2
  BY <1>1, <1>4 DEF l
<1>15. Laid(at)'
  BY <1>4, <1>10, <1>12, <1>13, <1>14 DEF Laid
<1> QED
  BY <1>15 DEF InOrder

\* What is received moves from the wire to the buffer.
LEMMA UnreadReceive ==
  ASSUME TypeOK, NEW n \in 1..Chunk, Receive(n)
  PROVE  Unread' = Unread
<1>1. n \in Nat /\ n >= 1 /\ n <= Len(wire) /\ Len(wire) \in Nat
  BY LenProperties, ReaderAssumption DEF Receive, TypeOK
<1>2. buffer \in Seq(Symbols) /\ wire \in Seq(Symbols)
  BY DEF TypeOK
<1>3. /\ SubSeq(wire, 1, n) \in Seq(Symbols)
      /\ SubSeq(wire, n + 1, Len(wire)) \in Seq(Symbols)
  BY <1>1, <1>2, CutIsSequence
<1>4. SubSeq(wire, 1, n) \o SubSeq(wire, n + 1, Len(wire)) = wire
  <2>1. /\ 1 \in 1..(Len(wire) + 1) /\ n \in (1 - 1)..Len(wire)
        /\ Len(wire) \in n..Len(wire)
    BY <1>1
  <2>2. SubSeq(wire, 1, n) \o SubSeq(wire, n + 1, Len(wire)) = SubSeq(wire, 1, Len(wire))
    BY <1>2, <2>1, ConcatAdjacentSubSeq
  <2> QED
    BY <1>2, <2>2, SubSeqFull
<1>5. (buffer \o SubSeq(wire, 1, n)) \o SubSeq(wire, n + 1, Len(wire)) = buffer \o wire
  <2> DEFINE front == SubSeq(wire, 1, n)
             back == SubSeq(wire, n + 1, Len(wire))
  <2>1. front \in Seq(Symbols) /\ back \in Seq(Symbols)
    BY <1>3
  <2>2. front \o back = wire
    BY <1>4
  <2> HIDE DEF front, back
  <2>3. (buffer \o front) \o back = buffer \o (front \o back)
    BY <1>2, <2>1, ConcatAssociative
  <2>4. (buffer \o front) \o back = buffer \o wire
    BY <2>2, <2>3
  <2> QED
    BY <2>4 DEF front, back
<1> QED
  BY <1>5 DEF Receive, Unread

\* The other steps do not touch the messages.
LEMMA LaidElse ==
  ASSUME NEW at, Laid(at), Unread' = Unread, sent' = sent, handled' = handled
  PROVE  InOrder'
<1>1. Laid(at)'
  BY DEF Laid
<1> QED
  BY <1>1 DEF InOrder

LEMMA InOrderInit == Init => InOrder
<1> SUFFICES ASSUME Init PROVE InOrder
  OBVIOUS
<1> DEFINE at == [i \in Nat |-> 0]
<1>1. /\ Len(handled) = 0 /\ Len(sent) = 0 /\ Len(Unread) = 0
  BY EmptySeq, ConcatEmptySeq DEF Init, Unread
<1>2. \A i \in Nat : at[i] = 0
  OBVIOUS
<1> HIDE DEF at
<1>3. Laid(at)
  BY <1>1, <1>2 DEF Laid
<1> QED
  BY <1>3 DEF InOrder

LEMMA InOrderStep == TypeOK /\ Roomy /\ Verdict /\ InOrder /\ [Next]_vars => InOrder'
<1> SUFFICES ASSUME TypeOK, Roomy, Verdict, InOrder, [Next]_vars PROVE InOrder'
  OBVIOUS
<1>1. PICK at : Laid(at)
  BY DEF InOrder
<1>2. ASSUME NEW m \in Messages, Send(m) PROVE InOrder'
  BY <1>1, <1>2, LaidSend
<1>3. ASSUME NEW n \in 1..Chunk, Receive(n) PROVE InOrder'
  BY <1>1, <1>3, UnreadReceive, LaidElse DEF Receive
<1>4. ASSUME NEW goesOn \in BOOLEAN, Handles(goesOn) PROVE InOrder'
  BY <1>1, <1>4, LaidHandles
<1>5. CASE UNCHANGED <<sent, wire, buffer, handled>>
  BY <1>1, <1>5, LaidElse DEF Unread
<1>6. CASE Interrupted \/ AsksForMore \/ Refuses \/ RecvTimesOut \/ Tick \/ UNCHANGED vars
  BY <1>5, <1>6 DEF Interrupted, AsksForMore, Refuses, RecvTimesOut, Tick, vars
<1> QED
  BY <1>2, <1>3, <1>4, <1>6 DEF Next, Loop

LEMMA VerdictInit == Init => Verdict
BY EmptySeq DEF Init, Verdict

LEMMA VerdictStep == TypeOK /\ Roomy /\ Verdict /\ InOrder /\ [Next]_vars => Verdict'
<1> SUFFICES ASSUME TypeOK, Roomy, Verdict, InOrder, [Next]_vars PROVE Verdict'
  OBVIOUS
<1>1. PICK at : Laid(at)
  BY DEF InOrder
<1>2. Len(handled) \in Nat /\ Len(sent) \in Nat /\ Len(handled) <= Len(sent)
  BY <1>1, LenProperties DEF TypeOK, Laid
<1>3. ASSUME NEW m \in Messages, Send(m) PROVE Verdict'
  <2>1. /\ Len(sent') = Len(sent) + 1
        /\ sent'[Len(sent) + 1] = m
        /\ \A i \in 1..Len(sent) : sent'[i] = sent[i]
        /\ handled' = handled /\ reader' = reader /\ rtsp' = rtsp
        /\ rtsp \/ m.verdict # "Interleaved"
    BY <1>3, AppendProperties DEF Send, TypeOK
  <2>2. \A i \in 1..Len(sent') : rtsp' \/ sent'[i].verdict # "Interleaved"
    <3> TAKE i \in 1..Len(sent')
    <3>1. CASE i = Len(sent) + 1
      BY <2>1, <3>1
    <3>2. CASE i \in 1..Len(sent)
      BY <2>1, <3>2 DEF Verdict
    <3> QED
      BY <1>2, <2>1, <3>1, <3>2
  <2>3. reader' \in {"Invalid", "TooLarge"} =>
          Len(handled') < Len(sent') /\ sent'[Len(handled') + 1].verdict = reader'
    <3> SUFFICES ASSUME reader \in {"Invalid", "TooLarge"}
                 PROVE  Len(handled) < Len(sent') /\ sent'[Len(handled) + 1].verdict = reader
      BY <2>1
    <3>1. Len(handled) < Len(sent) /\ sent[Len(handled) + 1].verdict = reader
      BY DEF Verdict
    <3>2. Len(handled) + 1 \in 1..Len(sent) /\ Len(handled) < Len(sent')
      BY <1>2, <2>1, <3>1
    <3> QED
      BY <2>1, <3>1, <3>2
  <2>4. \A i \in 1..Len(handled') : /\ handled'[i] = sent'[i].bytes
                                    /\ sent'[i].verdict \in Handled
    <3> TAKE i \in 1..Len(handled')
    <3>1. i \in 1..Len(handled) /\ i \in 1..Len(sent)
      BY <1>2, <2>1
    <3> QED
      BY <2>1, <3>1 DEF Verdict
  <2> QED
    BY <2>2, <2>3, <2>4 DEF Verdict
<1>4. ASSUME NEW goesOn \in BOOLEAN, Handles(goesOn) PROVE Verdict'
  <2> DEFINE h == Len(handled)
             m == sent[h + 1]
             n == Extracted.size
  <2>1. /\ h < Len(sent)
        /\ m.verdict \in Handled
        /\ n = Len(m.bytes) /\ Prefix(m.bytes, buffer)
    BY <1>1, <1>4, ExtractsTheNext DEF Handles, Handled
  <2>2. m.bytes \in Seq(Symbols) /\ n \in 1..Len(buffer) /\ Len(buffer) \in Nat
    <3>1. m \in Messages
      BY <1>1, <2>1, NextIsFirst
    <3> QED
      BY <1>4, <3>1, MessageType, ExtractedSound DEF Handles, Sound
  <2>3. SubSeq(buffer, 1, n) = m.bytes
    <3>1. /\ SubSeq(buffer, 1, n) \in Seq(Symbols)
          /\ Len(SubSeq(buffer, 1, n)) = n
          /\ \A i \in 1..n : SubSeq(buffer, 1, n)[i] = buffer[i]
      BY <2>2, CutIsSequence DEF TypeOK
    <3> QED
      BY <2>1, <2>2, <3>1, SeqEqual DEF Prefix
  <2>4. /\ Len(handled') = h + 1
        /\ handled'[h + 1] = m.bytes
        /\ \A i \in 1..h : handled'[i] = handled[i]
        /\ sent' = sent /\ rtsp' = rtsp /\ reader' \in {"extract", "done"}
    <3> DEFINE c == m.bytes
    <3>1. c \in Seq(Symbols) /\ handled' = Append(handled, c)
      BY <1>4, <2>2, <2>3 DEF Handles
    <3> HIDE DEF c
    <3>2. handled \in Seq(Seq(Symbols))
      BY DEF TypeOK
    <3>3. /\ Len(handled') = h + 1
          /\ handled'[h + 1] = c
          /\ \A i \in 1..h : handled'[i] = handled[i]
      BY <3>1, <3>2, AppendProperties
    <3> QED
      BY <1>4, <3>3 DEF Handles, c
  <2>5. \A i \in 1..Len(handled') : /\ handled'[i] = sent'[i].bytes
                                    /\ sent'[i].verdict \in Handled
    <3> TAKE i \in 1..Len(handled')
    <3>1. CASE i = h + 1
      BY <2>1, <2>4, <3>1
    <3>2. CASE i \in 1..h
      BY <2>4, <3>2 DEF Verdict
    <3> QED
      BY <1>2, <2>4, <3>1, <3>2
  <2> QED
    BY <2>4, <2>5 DEF Verdict
<1>5. CASE Refuses
  <2>1. /\ Len(handled) < Len(sent)
        /\ sent[Len(handled) + 1].verdict = Extracted.result
    BY <1>1, <1>5, ExtractsTheNext DEF Refuses
  <2> QED
    BY <1>5, <2>1 DEF Refuses, Verdict
<1>6. ASSUME NEW n \in 1..Chunk, Receive(n) PROVE Verdict'
  BY <1>6 DEF Receive, Verdict
<1>7. CASE Interrupted \/ AsksForMore \/ RecvTimesOut \/ Tick
  BY <1>7 DEF Interrupted, AsksForMore, RecvTimesOut, Tick, Verdict
<1>8. CASE UNCHANGED vars
  BY <1>8 DEF vars, Verdict
<1> QED
  BY <1>3, <1>4, <1>5, <1>6, <1>7, <1>8 DEF Next, Loop

LEMMA IntactNow == TypeOK /\ Roomy /\ Verdict /\ InOrder => MessagesIntact
<1> SUFFICES ASSUME TypeOK, Roomy, Verdict, InOrder PROVE MessagesIntact
  OBVIOUS
<1>1. PICK at : Laid(at)
  BY DEF InOrder
<1>2. Len(handled) <= Len(sent)
  BY <1>1 DEF Laid
<1>3. reader = "wait" /\ buffer # <<>> =>
        /\ Len(buffer) < Len(sent[Len(handled) + 1].bytes)
        /\ buffer = SubSeq(sent[Len(handled) + 1].bytes, 1, Len(buffer))
  BY <1>1, WaitsForTheNext DEF Roomy
<1> QED
  BY <1>2, <1>3 DEF MessagesIntact, Verdict

\* However TCP cuts what clients send, the loops take off the messages that were sent,
\* one by one and whole, refuse those that are to be refused, and wait only for the
\* rest of the next.
THEOREM Intact == Spec => []MessagesIntact
BY TypeInit, TypeStep, RoomyInit, RoomyStep, VerdictInit, VerdictStep,
   InOrderInit, InOrderStep, IntactNow, PTL DEF Spec
=============================================================================
