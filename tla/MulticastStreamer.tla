------------------------- MODULE MulticastStreamer -------------------------
(***************************************************************************)
(* The two multicast streamers, UdpStreamer and RtpStreamer (src/src): a   *)
(* worker thread takes datagrams off its subscriber and sends them while   *)
(* the service is enabled; HTTP threads enable and disable it; main starts *)
(* it, turns it off, and stops it at the end. They differ in the value     *)
(* m_enabled starts with and in the sequence number RTP puts on each       *)
(* datagram.                                                               *)
(*                                                                         *)
(* A subscriber is a count of datagrams here (TsSubscriber has the rest).  *)
(* That the core delivers nothing before the streamers were turned off is  *)
(* an assumption about the environment, CoreDelivers.                      *)
(***************************************************************************)
EXTENDS Naturals

CONSTANTS Width,             \* values of m_sequenceNumber: 2^16 in the source
          MaxQueued          \* datagrams the subscriber holds

ASSUME MulticastAssumption ==
  Width \in Nat \ {0, 1} /\ MaxQueued \in Nat \ {0}

VARIABLES rtp,               \* RtpStreamer, or else UdpStreamer
          main,              \* how far main is: Start, SetEnabled(false), on
          running, enabled,  \* m_running, m_enabled
          worker,            \* the worker thread
          queued,            \* datagrams buffered in the subscriber
          subscriber,        \* none, in the hub, or stopped and out of it
          socket,            \* m_socket
          sequenceNumber,    \* m_sequenceNumber, of the next datagram
          stopper,           \* main in Stop
          asked,             \* history: somebody enabled the service
          late,              \* history: datagrams since it was disabled
          expected, missed   \* history: number due after the last one that went
                             \* out, and how many were lost since

own == <<running, enabled, worker, queued, subscriber, socket, sequenceNumber>>
history == <<asked, late, expected, missed>>
vars == <<rtp, main, own, stopper, history>>

Init ==
  /\ rtp \in BOOLEAN
  /\ main = "start"
  /\ running = FALSE /\ enabled = ~rtp
  /\ worker = "none"
  /\ queued = 0 /\ subscriber = "none" /\ socket = "closed"
  /\ sequenceNumber = 0
  /\ stopper = "none"
  /\ asked = FALSE /\ late = 0 /\ expected = 0 /\ missed = 0

-----------------------------------------------------------------------------
(* main: Start, SetEnabled(false), and Stop *)

Start ==
  /\ main = "start" /\ ~running
  /\ socket' = "open" /\ subscriber' = "in hub" /\ running' = TRUE
  /\ worker' = "pop"
  /\ main' = "turn off"
  /\ UNCHANGED <<rtp, enabled, queued, sequenceNumber, stopper, history>>

\* The socket, one of its options or an address fails. main gives up without
\* UDP, and goes on without RTP.
StartFails ==
  /\ main = "start"
  /\ main' = IF rtp THEN "turn off" ELSE "gone"
  /\ UNCHANGED <<rtp, own, stopper, history>>

TurnOff ==
  /\ main = "turn off"
  /\ enabled' = FALSE
  /\ main' = "on"
  /\ UNCHANGED <<rtp, running, worker, queued, subscriber, socket, sequenceNumber,
                 stopper, history>>

\* The HTTP server has been stopped by then: nobody calls SetEnabled any more.
Stop ==
  /\ main = "on" /\ running
  /\ main' = "stop"
  /\ running' = FALSE
  /\ stopper' = "unsubscribe"
  /\ UNCHANGED <<rtp, enabled, worker, queued, subscriber, socket, sequenceNumber, history>>

\* RemoveSubscriber, which also stops it and so wakes the worker.
StopUnsubscribes ==
  /\ stopper = "unsubscribe"
  /\ subscriber' = "stopped"
  /\ stopper' = "join"
  /\ UNCHANGED <<rtp, main, running, enabled, worker, queued, socket, sequenceNumber, history>>

\* Variant: the worker is not waited for.
WorkerIgnored == TRUE

WorkerOver == worker = "none"

StopReleases ==
  /\ stopper = "join" /\ WorkerOver
  /\ subscriber' = "none" /\ queued' = 0 /\ socket' = "closed"
  /\ stopper' = "stopped"
  /\ UNCHANGED <<rtp, main, running, enabled, worker, sequenceNumber, history>>

-----------------------------------------------------------------------------
(* HTTP threads, and the hub *)

SetEnabled(b) ==
  /\ main = "on"
  /\ enabled' = b
  /\ asked' = (asked \/ b)
  /\ late' = IF b \/ enabled THEN 0 ELSE late
  /\ UNCHANGED <<rtp, main, running, worker, queued, subscriber, socket, sequenceNumber,
                 stopper, expected, missed>>

\* Assumed of the core: it delivers once it was told to tune or to scan, and the
\* first who tell it, the HTTP threads and then main, come after SetEnabled(false).
CoreDelivers == main \in {"on", "stop"}

\* A datagram's worth of packets; the oldest go when there is no room.
PushData ==
  /\ CoreDelivers /\ subscriber = "in hub"
  /\ queued' = IF queued < MaxQueued THEN queued + 1 ELSE queued
  /\ UNCHANGED <<rtp, main, running, enabled, worker, subscriber, socket, sequenceNumber,
                 stopper, history>>

-----------------------------------------------------------------------------
(* The worker thread *)

\* Variant: the worker does not look at m_running again.
RunsOn == TRUE

MayRun == running

\* The loop test and PopData, which returns with a datagram when there is one,
\* and without one when stopped or after 100 ms.
Pop ==
  /\ worker = "pop"
  /\ IF ~MayRun THEN worker' = "none" /\ UNCHANGED queued
     ELSE subscriber = "in hub" /\ queued > 0 /\ queued' = queued - 1 /\ worker' = "have"
  /\ UNCHANGED <<rtp, main, running, enabled, subscriber, socket, sequenceNumber,
                 stopper, history>>

\* Variant: m_enabled is looked at too early to matter.
SendsAlways == TRUE

Sends == enabled

\* A number, in RTP, for a datagram that is going to be sent.
Number(n) == IF rtp THEN (n + 1) % Width ELSE n

\* Variant: every datagram is numbered, sent or not.
NumbersAll(n) == Number(n)

NumbersSent(n) == n

Test ==
  /\ worker = "have"
  /\ IF Sends THEN worker' = "send" /\ sequenceNumber' = Number(sequenceNumber)
     ELSE worker' = "pop" /\ sequenceNumber' = NumbersSent(sequenceNumber)
  /\ UNCHANGED <<rtp, main, running, enabled, queued, subscriber, socket, stopper, history>>

\* The datagram, with the number before sequenceNumber, goes out.
Sent ==
  /\ worker = "send"
  /\ worker' = "pop"
  /\ expected' = sequenceNumber /\ missed' = 0
  /\ late' = IF enabled \/ late > 1 THEN late ELSE late + 1
  /\ UNCHANGED <<rtp, main, running, enabled, queued, subscriber, socket, sequenceNumber,
                 stopper, asked>>

SendFails ==
  /\ worker = "send"
  /\ worker' = "failed"
  /\ missed' = Number(missed)
  /\ UNCHANGED <<rtp, main, running, enabled, queued, subscriber, socket, sequenceNumber,
                 stopper, asked, late, expected>>

\* The write of m_enabled after the failure, whatever it has become meanwhile: a
\* request that has enabled the service since is undone.
GiveUp ==
  /\ worker = "failed"
  /\ enabled' = FALSE
  /\ late' = IF enabled THEN 0 ELSE late
  /\ worker' = "pop"
  /\ UNCHANGED <<rtp, main, running, queued, subscriber, socket, sequenceNumber, stopper,
                 asked, expected, missed>>

-----------------------------------------------------------------------------
Worker == Pop \/ Test \/ Sent \/ SendFails \/ GiveUp

Stopper == StopUnsubscribes \/ StopReleases

Next == \/ Start \/ StartFails \/ TurnOff \/ Stop \/ Stopper
        \/ \E b \in BOOLEAN : SetEnabled(b)
        \/ PushData
        \/ Worker

Spec == Init /\ [][Next]_vars

-----------------------------------------------------------------------------
(* Properties *)

TypeOK ==
  /\ rtp \in BOOLEAN
  /\ main \in {"start", "turn off", "on", "stop", "gone"}
  /\ running \in BOOLEAN /\ enabled \in BOOLEAN /\ asked \in BOOLEAN
  /\ worker \in {"none", "pop", "have", "send", "failed"}
  /\ queued \in 0..MaxQueued
  /\ subscriber \in {"none", "in hub", "stopped"}
  /\ socket \in {"closed", "open"}
  /\ sequenceNumber \in 0..Width - 1 /\ expected \in 0..Width - 1
  /\ stopper \in {"none", "unsubscribe", "join", "stopped"}
  /\ late \in 0..2 /\ missed \in 0..Width - 1

\* The worker always has its subscriber and its socket, and when Stop returns
\* nothing is left of either.
WorkerHasItsResources ==
  /\ worker # "none" => subscriber # "none" /\ socket = "open"
  /\ stopper = "stopped" => worker = "none" /\ subscriber = "none" /\ socket = "closed"

\* README: both services are off by default. Nothing is sent before somebody has
\* enabled the service, though m_enabled of UDP starts as true (given CoreDelivers);
\* and once it is off, by a request or by a failure, the one datagram in the worker's
\* hands, past the test of m_enabled, may still go out, and no second one.
SilentWhenOff ==
  /\ worker \in {"send", "failed"} => asked
  /\ ~enabled => late <= 1

\* Receivers see a gap in the RTP numbers only for datagrams that could not be
\* sent: not for the time the service was off, and not when numbers wrap around.
NumbersWithoutGaps ==
  rtp /\ worker \in {"pop", "have"} => sequenceNumber = (expected + missed) % Width

\* Stop returns.
StopReturns == ~running /\ stopper # "none" ~> stopper = "stopped"
=============================================================================
