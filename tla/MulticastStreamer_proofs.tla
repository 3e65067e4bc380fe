---------------------- MODULE MulticastStreamer_proofs ----------------------
(***************************************************************************)
(* The multicast streamers are correct for every width of the sequence     *)
(* number and every buffer, by themselves and under the page of Dashboard: *)
(* the worker has what it uses, nothing is sent while the service is off,  *)
(* and the RTP numbers have no gap but for what could not be sent.         *)
(***************************************************************************)
EXTENDS Dashboard, TLAPS

-----------------------------------------------------------------------------
(* The inductive invariant *)

\* The worker is there from Start on, and Stop takes nothing away before it ends.
ResourceInv ==
  /\ main = "start" => worker = "none"
  /\ stopper # "none" => main = "stop"
  /\ WorkerHasItsResources

\* Before the first request nothing is buffered, and m_enabled is off by then; a
\* datagram in the worker's hands is the only one that can still go out.
QuietInv ==
  /\ main \notin {"on", "stop"} => queued = 0 /\ worker \in {"none", "pop"}
  /\ main \in {"on", "stop"} /\ enabled => asked
  /\ worker \in {"send", "failed"} => asked
  /\ late <= 1
  /\ enabled \/ worker = "send" => late = 0

\* The number that is next, also between its assignment and the send.
NumberInv ==
  rtp => sequenceNumber = IF worker = "send" THEN (expected + missed + 1) % Width
                                             ELSE (expected + missed) % Width

StreamerInv == TypeOK /\ ResourceInv /\ QuietInv /\ NumberInv

-----------------------------------------------------------------------------
(* Numbers that wrap around *)

\* A sum that runs over the width by less than the width.
LEMMA WrapOnce ==
  ASSUME NEW x \in 0 .. 2 * Width - 1
  PROVE  /\ x % Width = (IF x < Width THEN x ELSE x - Width)
         /\ x % Width \in 0 .. Width - 1
<1>1. CASE x < Width
  BY <1>1, MulticastAssumption
<1>2. CASE ~(x < Width)
  BY <1>2, MulticastAssumption
<1> QED
  BY <1>1, <1>2

\* Counting one on before or after the sum is reduced is the same.
LEMMA CountOn ==
  ASSUME NEW e \in 0 .. Width - 1, NEW m \in 0 .. Width - 1
  PROVE  /\ (((e + m) % Width) + 1) % Width = (e + m + 1) % Width
         /\ (e + ((m + 1) % Width)) % Width = (e + m + 1) % Width
<1> DEFINE a == e + m
           b == e + m + 1
           c == m + 1
<1>1. Width \in Nat /\ Width > 1
  BY MulticastAssumption
<1>2. a \in 0 .. 2 * Width - 1 /\ b \in 0 .. 2 * Width - 1 /\ c \in 0 .. 2 * Width - 1
  BY <1>1
<1>3. b = a + 1 /\ b = e + c /\ c = m + 1
  BY <1>1
<1> HIDE DEF a, b, c
<1>4. /\ a % Width = (IF a < Width THEN a ELSE a - Width)
      /\ b % Width = (IF b < Width THEN b ELSE b - Width)
      /\ c % Width = (IF c < Width THEN c ELSE c - Width)
  BY <1>2, WrapOnce
<1> DEFINE s == (a % Width) + 1
           t == e + (c % Width)
<1>5. s = (IF a < Width THEN a ELSE a - Width) + 1
  BY <1>4
<1>6. t = e + (IF c < Width THEN c ELSE c - Width)
  BY <1>4
<1> HIDE DEF s, t
<1>7. s \in 0 .. 2 * Width - 1 /\ t \in 0 .. 2 * Width - 1
  BY <1>1, <1>2, <1>5, <1>6
<1>8. /\ s % Width = (IF s < Width THEN s ELSE s - Width)
      /\ t % Width = (IF t < Width THEN t ELSE t - Width)
  BY <1>7, WrapOnce
<1>9. s % Width = b % Width
  BY <1>1, <1>2, <1>3, <1>4, <1>5, <1>8
<1>10. t % Width = b % Width
  BY <1>1, <1>2, <1>3, <1>4, <1>6, <1>8
<1> QED
  BY <1>9, <1>10 DEF a, b, c, s, t

\* The next number is one of the numbers, and without RTP the number stays.
LEMMA NumberType ==
  ASSUME rtp \in BOOLEAN, NEW n \in 0 .. Width - 1
  PROVE  /\ Number(n) \in 0 .. Width - 1
         /\ rtp => Number(n) = (n + 1) % Width
<1>1. n + 1 \in 0 .. 2 * Width - 1
  BY MulticastAssumption
<1> QED
  BY <1>1, WrapOnce DEF Number

-----------------------------------------------------------------------------
(* The parts of the invariant, one after the other *)

\* The three kinds of variables, for leaves of one theory each.
Flags == rtp \in BOOLEAN /\ running \in BOOLEAN /\ enabled \in BOOLEAN /\ asked \in BOOLEAN

Stages ==
  /\ main \in {"start", "turn off", "on", "stop", "gone"}
  /\ worker \in {"none", "pop", "have", "send", "failed"}
  /\ subscriber \in {"none", "in hub", "stopped"}
  /\ socket \in {"closed", "open"}
  /\ stopper \in {"none", "unsubscribe", "join", "stopped"}

Counts ==
  /\ queued \in 0..MaxQueued
  /\ sequenceNumber \in 0..Width - 1 /\ expected \in 0..Width - 1
  /\ late \in 0..2 /\ missed \in 0..Width - 1

LEMMA TypeParts == TypeOK <=> Flags /\ Stages /\ Counts
BY DEF TypeOK, Flags, Stages, Counts

LEMMA StreamerInit == Init => StreamerInv
<1> SUFFICES ASSUME Init PROVE StreamerInv
  OBVIOUS
<1>1. 0 \in 0 .. Width - 1 /\ 0 \in 0 .. MaxQueued /\ 0 % Width = 0 /\ (0 + 0) % Width = 0
  BY MulticastAssumption, WrapOnce
<1>2. TypeOK
  <2>1. Flags /\ Stages
    BY DEF Init, Flags, Stages
  <2>2. Counts
    BY <1>1 DEF Init, Counts
  <2> QED
    BY <2>1, <2>2, TypeParts
<1>3. ResourceInv /\ QuietInv
  BY DEF Init, ResourceInv, WorkerHasItsResources, QuietInv
<1>4. NumberInv
  BY <1>1 DEF Init, NumberInv
<1> QED
  BY <1>2, <1>3, <1>4 DEF StreamerInv

LEMMA FlagsStep == Flags /\ [Next]_vars => Flags'
BY DEF Flags, vars, own, history, Next, Stopper, Worker, Start, StartFails, TurnOff, Stop,
         StopUnsubscribes, StopReleases, SetEnabled, PushData, CoreDelivers, Pop, Test,
         Sent, SendFails, GiveUp

LEMMA StagesStep == Stages /\ [Next]_vars => Stages'
BY DEF Stages, vars, own, history, Next, Stopper, Worker, Start, StartFails, TurnOff, Stop,
         StopUnsubscribes, StopReleases, SetEnabled, PushData, CoreDelivers, Pop, Test,
         Sent, SendFails, GiveUp

LEMMA CountsStep == Flags /\ Counts /\ [Next]_vars => Counts'
<1> SUFFICES ASSUME Flags, Counts, [Next]_vars PROVE Counts'
  OBVIOUS
<1>1. /\ MaxQueued \in Nat \ {0} /\ Width \in Nat \ {0}
      /\ 0 \in 0 .. MaxQueued /\ 0 \in 0 .. Width - 1
  BY MulticastAssumption
<1>2. queued' \in 0 .. MaxQueued
  <2>1. \/ queued' \in {queued, 0}
        \/ queued < MaxQueued /\ queued' = queued + 1
        \/ queued > 0 /\ queued' = queued - 1
    BY DEF vars, own, Next, Stopper, Worker, Start, StartFails, TurnOff, Stop,
         StopUnsubscribes, StopReleases, SetEnabled, PushData, CoreDelivers, Pop, Test,
         Sent, SendFails, GiveUp
  <2> QED
    BY <1>1, <2>1 DEF Counts
<1>3. sequenceNumber' \in {sequenceNumber, Number(sequenceNumber)}
  BY DEF vars, own, Next, Stopper, Worker, NumbersSent, Start, StartFails, TurnOff, Stop,
         StopUnsubscribes, StopReleases, SetEnabled, PushData, CoreDelivers, Pop, Test,
         Sent, SendFails, GiveUp
<1>4. expected' \in {expected, sequenceNumber} /\ missed' \in {missed, 0, Number(missed)}
  BY DEF vars, history, Next, Stopper, Worker, Start, StartFails, TurnOff, Stop,
         StopUnsubscribes, StopReleases, SetEnabled, PushData, CoreDelivers, Pop, Test,
         Sent, SendFails, GiveUp
<1>5. late' \in 0 .. 2
  <2>1. late' \in {late, 0} \/ (~(late > 1) /\ late' = late + 1)
    BY DEF vars, history, Next, Stopper, Worker, Start, StartFails, TurnOff, Stop,
         StopUnsubscribes, StopReleases, SetEnabled, PushData, CoreDelivers, Pop, Test,
         Sent, SendFails, GiveUp
  <2> QED
    BY <2>1 DEF Counts
<1> QED
  BY <1>1, <1>2, <1>3, <1>4, <1>5, NumberType DEF Flags, Counts

LEMMA TypeStep == TypeOK /\ [Next]_vars => TypeOK'
BY TypeParts, FlagsStep, StagesStep, CountsStep DEF TypeOK, Flags, Stages, Counts

\* Nobody but Stop takes the subscriber and the socket, and only from a worker
\* that is over.
LEMMA ResourceStep ==
  ASSUME ResourceInv, [Next]_vars
  PROVE  ResourceInv'
<1>1. CASE Start
  BY <1>1 DEF Start, ResourceInv, WorkerHasItsResources
<1>2. CASE StartFails
  BY <1>2 DEF StartFails, own, ResourceInv, WorkerHasItsResources
<1>3. CASE TurnOff
  BY <1>3 DEF TurnOff, ResourceInv, WorkerHasItsResources
<1>4. CASE Stop
  BY <1>4 DEF Stop, ResourceInv, WorkerHasItsResources
<1>5. CASE StopUnsubscribes
  BY <1>5 DEF StopUnsubscribes, ResourceInv, WorkerHasItsResources
<1>6. CASE StopReleases
  BY <1>6 DEF StopReleases, WorkerOver, ResourceInv, WorkerHasItsResources
<1>7. ASSUME NEW b \in BOOLEAN, SetEnabled(b) PROVE ResourceInv'
  BY <1>7 DEF SetEnabled, ResourceInv, WorkerHasItsResources
<1>8. CASE PushData
  BY <1>8 DEF PushData, CoreDelivers, ResourceInv, WorkerHasItsResources
<1>9. CASE Pop
  BY <1>9 DEF Pop, MayRun, ResourceInv, WorkerHasItsResources
<1>10. CASE Test
  BY <1>10 DEF Test, Sends, NumbersSent, ResourceInv, WorkerHasItsResources
<1>11. CASE Sent
  BY <1>11 DEF Sent, ResourceInv, WorkerHasItsResources
<1>12. CASE SendFails
  BY <1>12 DEF SendFails, ResourceInv, WorkerHasItsResources
<1>13. CASE GiveUp
  BY <1>13 DEF GiveUp, ResourceInv, WorkerHasItsResources
<1>14. CASE UNCHANGED vars
  BY <1>14 DEF vars, own, ResourceInv, WorkerHasItsResources
<1> QED
  BY <1>1, <1>2, <1>3, <1>4, <1>5, <1>6, <1>7, <1>8, <1>9, <1>10, <1>11, <1>12, <1>13, <1>14 DEF Next, Stopper, Worker

\* The send is decided while the service is on, and once it is off the next
\* decision is made anew.
LEMMA QuietStep ==
  ASSUME TypeOK, ResourceInv, QuietInv, [Next]_vars
  PROVE  QuietInv'
<1>1. CASE Start
  BY <1>1 DEF Start, history, QuietInv
<1>2. CASE StartFails
  BY <1>2 DEF StartFails, own, history, QuietInv
<1>3. CASE TurnOff
  BY <1>3 DEF TurnOff, history, QuietInv
<1>4. CASE Stop
  BY <1>4 DEF Stop, history, QuietInv
<1>5. CASE StopUnsubscribes
  BY <1>5 DEF StopUnsubscribes, history, QuietInv
<1>6. CASE StopReleases
  BY <1>6 DEF StopReleases, WorkerOver, history, QuietInv
<1>7. ASSUME NEW b \in BOOLEAN, SetEnabled(b) PROVE QuietInv'
  <2>1. UNCHANGED <<main, worker, queued>> /\ main = "on"
    BY <1>7 DEF SetEnabled
  <2>2. late' \in {0, late} /\ (enabled' => asked') /\ (asked => asked')
    BY <1>7 DEF SetEnabled
  <2>3. enabled' => late' = 0
    BY <1>7 DEF SetEnabled
  <2>4. worker = "send" => late = 0
    BY DEF QuietInv
  <2> QED
    BY <2>1, <2>2, <2>3, <2>4 DEF QuietInv
<1>8. CASE PushData
  BY <1>8 DEF PushData, CoreDelivers, history, QuietInv
<1>9. CASE Pop
  <2>1. /\ UNCHANGED <<main, enabled, asked, late>>
        /\ \/ worker' = "none" /\ queued' = queued
           \/ worker' = "have" /\ queued > 0
    BY <1>9 DEF Pop, history
  <2>2. queued > 0 => main \in {"on", "stop"}
    BY DEF QuietInv
  <2> QED
    BY <2>1, <2>2 DEF QuietInv
<1>10. CASE Test
  BY <1>10 DEF Test, Sends, NumbersSent, history, QuietInv
<1>11. CASE Sent
  <2>1. /\ UNCHANGED <<main, enabled, asked, queued>>
        /\ worker = "send" /\ worker' = "pop" /\ late = 0
        /\ late' = IF enabled THEN 0 ELSE 1
    BY <1>11 DEF Sent, QuietInv
  <2> QED
    BY <2>1 DEF QuietInv
<1>12. CASE SendFails
  BY <1>12 DEF SendFails, QuietInv
<1>13. CASE GiveUp
  BY <1>13 DEF GiveUp, QuietInv
<1>14. CASE UNCHANGED vars
  BY <1>14 DEF vars, own, history, QuietInv
<1> QED
  BY <1>1, <1>2, <1>3, <1>4, <1>5, <1>6, <1>7, <1>8, <1>9, <1>10, <1>11, <1>12, <1>13, <1>14 DEF Next, Stopper, Worker

\* A number is spent with the decision to send, and a failed send is counted.
LEMMA NumberStep ==
  ASSUME TypeOK, ResourceInv, NumberInv, [Next]_vars
  PROVE  NumberInv'
<1>1. CASE Start
  BY <1>1 DEF Start, history, ResourceInv, NumberInv
<1>2. CASE StartFails
  BY <1>2 DEF StartFails, own, history, NumberInv
<1>3. CASE TurnOff
  BY <1>3 DEF TurnOff, history, NumberInv
<1>4. CASE Stop
  BY <1>4 DEF Stop, history, NumberInv
<1>5. CASE StopUnsubscribes
  BY <1>5 DEF StopUnsubscribes, history, NumberInv
<1>6. CASE StopReleases
  BY <1>6 DEF StopReleases, WorkerOver, history, NumberInv
<1>7. ASSUME NEW b \in BOOLEAN, SetEnabled(b) PROVE NumberInv'
  BY <1>7 DEF SetEnabled, NumberInv
<1>8. CASE PushData
  BY <1>8 DEF PushData, CoreDelivers, history, NumberInv
<1>9. CASE Pop
  BY <1>9 DEF Pop, MayRun, history, NumberInv
<1>10. CASE Test
  <2>1. /\ sequenceNumber = (expected + missed) % Width \/ ~rtp
        /\ UNCHANGED <<rtp, expected, missed>>
        /\ worker' = "send" => sequenceNumber' = Number(sequenceNumber)
        /\ worker' # "send" => sequenceNumber' = sequenceNumber
    BY <1>10 DEF Test, NumbersSent, history, NumberInv
  <2>2. /\ expected \in 0 .. Width - 1 /\ missed \in 0 .. Width - 1
        /\ rtp => Number(sequenceNumber) = (sequenceNumber + 1) % Width
    BY NumberType DEF TypeOK
  <2> QED
    BY <2>1, <2>2, CountOn DEF NumberInv
<1>11. CASE Sent
  <2> DEFINE n == sequenceNumber
  <2>1. n \in 0 .. Width - 1 /\ Width \in Nat
    BY MulticastAssumption DEF TypeOK
  <2>2. /\ worker' = "pop" /\ expected' = n /\ missed' = 0
        /\ UNCHANGED <<rtp, sequenceNumber>>
    BY <1>11 DEF Sent
  <2> HIDE DEF n
  <2>3. n + 0 = n /\ n < Width /\ n \in 0 .. 2 * Width - 1
    BY <2>1
  <2>4. n % Width = n
    BY <2>3, WrapOnce
  <2>5. (expected' + missed') % Width = n
    BY <2>2, <2>3, <2>4
  <2> QED
    BY <2>2, <2>5 DEF NumberInv, n
<1>12. CASE SendFails
  <2>1. /\ rtp => sequenceNumber = (expected + missed + 1) % Width
        /\ UNCHANGED <<rtp, expected, sequenceNumber>>
        /\ worker' = "failed" /\ missed' = Number(missed)
    BY <1>12 DEF SendFails, NumberInv
  <2>2. /\ expected \in 0 .. Width - 1 /\ missed \in 0 .. Width - 1
        /\ rtp => Number(missed) = (missed + 1) % Width
    BY NumberType DEF TypeOK
  <2> QED
    BY <2>1, <2>2, CountOn DEF NumberInv
<1>13. CASE GiveUp
  BY <1>13 DEF GiveUp, NumberInv
<1>14. CASE UNCHANGED vars
  BY <1>14 DEF vars, own, history, NumberInv
<1> QED
  BY <1>1, <1>2, <1>3, <1>4, <1>5, <1>6, <1>7, <1>8, <1>9, <1>10, <1>11, <1>12, <1>13, <1>14 DEF Next, Stopper, Worker

LEMMA StreamerStep == StreamerInv /\ [Next]_vars => StreamerInv'
BY TypeStep, ResourceStep, QuietStep, NumberStep DEF StreamerInv

-----------------------------------------------------------------------------
(* The theorems about a streamer *)

\* Every reachable state of a streamer satisfies the inductive invariant.
THEOREM StreamerInvariant == Spec => []StreamerInv
<1> QED
  BY StreamerInit, StreamerStep, PTL DEF Spec

\* The worker of UdpStreamer or RtpStreamer never pops from a subscriber that was
\* handed back nor sends on a closed socket, and Stop leaves none of them behind.
THEOREM WorkerKeepsItsResources == Spec => []WorkerHasItsResources
<1>1. StreamerInv => WorkerHasItsResources
  BY DEF StreamerInv, ResourceInv
<1> QED
  BY <1>1, StreamerInvariant, PTL

\* Nothing goes out before somebody asked for it, and at most one datagram after
\* the service was turned off.
THEOREM OffIsSilent == Spec => []SilentWhenOff
<1>1. StreamerInv => SilentWhenOff
  BY DEF StreamerInv, QuietInv, SilentWhenOff
<1> QED
  BY <1>1, StreamerInvariant, PTL

\* m_sequenceNumber skips only what could not be sent, also when it wraps around.
THEOREM NumbersHaveNoGaps == Spec => []NumbersWithoutGaps
<1>1. StreamerInv => NumbersWithoutGaps
  BY DEF StreamerInv, NumberInv, NumbersWithoutGaps
<1> QED
  BY <1>1, StreamerInvariant, PTL

-----------------------------------------------------------------------------
(* The streamer under the page *)

LEMMA PageInitially == PageInit => PageTypeOK
<1> SUFFICES ASSUME PageInit PROVE PageTypeOK
  OBVIOUS
<1>1. TypeOK
  BY StreamerInit DEF PageInit, StreamerInv
<1> QED
  BY <1>1 DEF PageInit, PageTypeOK, None

\* A step of the page, of its server or of others either leaves the streamer alone
\* or is one of the streamer's own.
LEMMA PageStepsAreStreamerSteps ==
  ASSUME PageTypeOK, [PageNext]_pageVars
  PROVE  [Next]_vars
<1>1. CASE Server /\ UNCHANGED page
  BY <1>1 DEF Server, StopAfterHttp, Next
<1>2. CASE Others /\ UNCHANGED page
  BY <1>2 DEF Others, Next
<1>3. ASSUME NEW f \in Fetches, ServePost(f)
      PROVE Next
  <2>1. fetch[f].value \in BOOLEAN
    BY DEF PageTypeOK
  <2> QED
    BY <1>3, <2>1 DEF ServePost, Next
<1>4. ASSUME NEW f \in Fetches, Poll(f) \/ Click(f) \/ Receive(f) \/ Fails(f) \/ Answer(f)
      PROVE UNCHANGED vars
  BY <1>4 DEF Poll, Click, Receive, Fails, Answer
<1>5. CASE Rest \/ UNCHANGED pageVars
  BY <1>5 DEF Rest, pageVars
<1> QED
  BY <1>1, <1>2, <1>3, <1>4, <1>5 DEF PageNext

\* The records of the requests of the page.
Requests == [kind : {"none", "poll", "post"}, at : {"idle", "asked", "set", "answered"},
             value : BOOLEAN]

LEMMA PageStep == PageTypeOK /\ [PageNext]_pageVars => PageTypeOK'
<1> SUFFICES ASSUME PageTypeOK, [PageNext]_pageVars PROVE PageTypeOK'
  OBVIOUS
<1>1. TypeOK'
  BY PageStepsAreStreamerSteps, TypeStep DEF PageTypeOK
<1>2. /\ shown \in BOOLEAN /\ restless \in BOOLEAN /\ enabled \in BOOLEAN
      /\ fetch \in [Fetches -> Requests]
  BY DEF PageTypeOK, TypeOK, Requests
<1>3. None \in Requests /\ \A k \in {"poll", "post"}, v \in BOOLEAN : Asked(k, v) \in Requests
  BY DEF None, Asked, Requests
<1>4. \A f \in Fetches : fetch[f] \in Requests /\ fetch[f].value \in BOOLEAN
  BY <1>2 DEF Requests
<1>5. CASE UNCHANGED page
  BY <1>1, <1>2, <1>5 DEF page, PageTypeOK, Requests
<1>6. ASSUME NEW f \in Fetches, Poll(f) \/ Click(f) \/ Receive(f) \/ Fails(f)
      PROVE PageTypeOK'
  <2>1. shown' \in BOOLEAN /\ restless' \in BOOLEAN
    BY <1>2, <1>4, <1>6 DEF Poll, Click, Receive, Fails, ToShow
  <2>2. fetch' \in [Fetches -> Requests]
    <3>1. PICK r \in Requests : fetch' = [fetch EXCEPT ![f] = r]
      BY <1>3, <1>6, <2>1 DEF Poll, Click, Receive, Fails
    <3> QED
      BY <1>2, <3>1
  <2> QED
    BY <1>1, <2>1, <2>2 DEF PageTypeOK, Requests
<1>7. ASSUME NEW f \in Fetches, ServePost(f) \/ Answer(f)
      PROVE PageTypeOK'
  <2>1. UNCHANGED <<shown, restless>>
    BY <1>7 DEF ServePost, Answer
  <2>2. fetch' \in [Fetches -> Requests]
    <3>1. CASE ServePost(f)
      <4>1. [fetch[f] EXCEPT !.at = "set"] \in Requests
        BY <1>4 DEF Requests
      <4> QED
        BY <1>2, <3>1, <4>1 DEF ServePost
    <3>2. CASE Answer(f)
      <4>1. [fetch[f] EXCEPT !.at = "answered", !.value = enabled] \in Requests
        BY <1>2, <1>4 DEF Requests
      <4>2. fetch' = [fetch EXCEPT ![f] = [fetch[f] EXCEPT !.at = "answered",
                                                           !.value = enabled]]
        BY <1>2, <3>2 DEF Answer
      <4> QED
        BY <1>2, <4>1, <4>2
    <3> QED
      BY <1>7, <3>1, <3>2
  <2> QED
    BY <1>1, <1>2, <2>1, <2>2 DEF PageTypeOK, Requests
<1>8. CASE Rest
  BY <1>1, <1>2, <1>8 DEF Rest, PageTypeOK, Requests
<1> QED
  BY <1>5, <1>6, <1>7, <1>8 DEF PageNext, pageVars, page

\* Type correctness of the page and of the streamer under it.
THEOREM PageTypes == PageSpec => []PageTypeOK
<1> QED
  BY PageInitially, PageStep, PTL DEF PageSpec

\* Whatever the page, its server and others do, the streamer behaves as
\* MulticastStreamer describes it.
THEOREM PageDrivesStreamer == PageSpec => Spec
<1>1. PageInit => Init
  BY DEF PageInit
<1>2. PageTypeOK /\ [PageNext]_pageVars => [Next]_vars
  BY PageStepsAreStreamerSteps
<1> QED
  BY <1>1, <1>2, PageTypes, PTL DEF PageSpec, Spec
=============================================================================
