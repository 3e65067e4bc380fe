--------------------------- MODULE TsBroadcaster ---------------------------
(***************************************************************************)
(* The fan-out hub (src/src/TsBroadcaster.cpp): one thread of the tuner    *)
(* core pushes, command threads reset, the main thread stops, and one      *)
(* thread per client creates, reads and removes its subscriber.            *)
(*                                                                         *)
(* m_subscribersMutex is the variable lock. PushData, Reset and Stop hold  *)
(* it over a loop, each subscriber in the loop being locked by itself, so  *)
(* reads and the first half of RemoveSubscriber (which stops the           *)
(* subscriber before it asks for the hub's lock) fall between two visits.  *)
(* A subscriber is what DropOldestQueue promises and TsSubscriber keeps:   *)
(* a window of the stream, here in units of whole packets.                 *)
(***************************************************************************)
EXTENDS StreamWindow, Integers

CONSTANTS Clients,           \* threads that stream, each with one subscriber
          PushSizes,         \* packets per callback of the tuner core
          MaxPosition        \* bound on the packets pushed

ASSUME HubAssumption == /\ Capacity \in Nat \ {0}
                        /\ PushSizes \subseteq Nat \ {0}
                        /\ MaxPosition \in Nat

VARIABLES hubActive,         \* m_active
          members,           \* m_subscribers
          lock,              \* "free", or the operation that holds the mutex
          todo,              \* subscribers its loop has not visited yet
          size,              \* packets of the push in progress
          position,          \* packets the tuner has pushed to the hub
          resetAt,           \* history: position at the last finished Reset
          window,            \* the subscriber of each client
          client,            \* where its thread is: none, streaming, leaving
          took               \* start of the last packets it was given

vars == <<hubActive, members, lock, todo, size, position, resetAt,
          window, client, took>>

hub == <<hubActive, members, lock, todo, size, position, resetAt>>

Nothing == -1

Init ==
  /\ hubActive = TRUE /\ members = {}
  /\ lock = "free" /\ todo = {} /\ size = 0
  /\ position = 0 /\ resetAt = 0
  /\ window = [c \in Clients |-> Closed(EmptyAt(0))]
  /\ client = [c \in Clients |-> "none"]
  /\ took = [c \in Clients |-> Nothing]

-----------------------------------------------------------------------------
(* Operations that hold the hub's mutex over a loop *)

\* Variant: a client whose buffer is full is passed over.
KeepingUp == {c \in members : Buffered(window[c]) < Capacity}

Receivers == members

PushData(n) ==
  /\ lock = "free"
  /\ hubActive
  /\ position + n <= MaxPosition
  /\ lock' = "push" /\ todo' = Receivers /\ size' = n
  /\ position' = position + n
  /\ UNCHANGED <<hubActive, members, resetAt, window, client, took>>

\* Variant: only clients that hold enough to notice are reset.
FullOnes == {c \in members : Buffered(window[c]) >= Capacity}

ToReset == members

Reset ==
  /\ lock = "free"
  /\ lock' = "reset" /\ todo' = ToReset
  /\ UNCHANGED <<hubActive, members, size, position, resetAt, window, client, took>>

Stop ==
  /\ lock = "free"
  /\ hubActive' = FALSE
  /\ lock' = "stop" /\ todo' = members
  /\ UNCHANGED <<members, size, position, resetAt, window, client, took>>

\* One turn of the loop: the call on one subscriber.
Visit(c) ==
  /\ c \in todo
  /\ todo' = todo \ {c}
  /\ window' = [window EXCEPT ![c] = CASE lock = "push"  -> Appended(@, size)
                                       [] lock = "reset" -> Cleared(@)
                                       [] lock = "stop"  -> Closed(@)]
  /\ UNCHANGED <<hubActive, members, lock, size, position, resetAt, client, took>>

\* Variant: a stopped hub keeps its list.
MembersKept == members

\* m_subscribers.clear() at the end of Stop.
MembersLeft == IF lock = "stop" THEN {} ELSE members

Unlock ==
  /\ lock # "free" /\ todo = {}
  /\ lock' = "free"
  /\ members' = MembersLeft
  /\ resetAt' = IF lock = "reset" THEN position ELSE resetAt
  /\ UNCHANGED <<hubActive, todo, size, position, window, client, took>>

-----------------------------------------------------------------------------
(* Client threads *)

\* Variant: creation does not look at m_active.
AlwaysJoins == TRUE

Joins == hubActive

\* Registered, or handed out stopped when the hub is.
CreateSubscriber(c) ==
  /\ client[c] = "none"
  /\ lock = "free"
  /\ client' = [client EXCEPT ![c] = "streaming"]
  /\ took' = [took EXCEPT ![c] = Nothing]
  /\ IF Joins
     THEN /\ members' = members \cup {c}
          /\ window' = [window EXCEPT ![c] = EmptyAt(position)]
     ELSE /\ window' = [window EXCEPT ![c] = Closed(EmptyAt(position))]
          /\ UNCHANGED members
  /\ UNCHANGED <<hubActive, lock, todo, size, position, resetAt>>

PopData(c, n) ==
  /\ client[c] = "streaming"
  /\ CanTake(window[c], n)
  /\ took' = [took EXCEPT ![c] = window[c].low]
  /\ window' = [window EXCEPT ![c] = Taken(@, n)]
  /\ UNCHANGED <<hub, client>>

\* RemoveSubscriber up to its lock: the subscriber is stopped but still listed.
RemoveStops(c) ==
  /\ client[c] = "streaming"
  /\ client' = [client EXCEPT ![c] = "leaving"]
  /\ window' = [window EXCEPT ![c] = Closed(@)]
  /\ UNCHANGED <<hub, took>>

RemoveErases(c) ==
  /\ client[c] = "leaving"
  /\ lock = "free"
  /\ members' = members \ {c}
  /\ client' = [client EXCEPT ![c] = "none"]
  /\ UNCHANGED <<hubActive, lock, todo, size, position, resetAt, window, took>>

-----------------------------------------------------------------------------
Next == \/ \E n \in PushSizes : PushData(n)
        \/ Reset \/ Stop
        \/ \E c \in Clients : Visit(c)
        \/ Unlock
        \/ \E c \in Clients : \/ CreateSubscriber(c)
                              \/ \E n \in 1..Capacity : PopData(c, n)
                              \/ RemoveStops(c)
                              \/ RemoveErases(c)

Spec == Init /\ [][Next]_vars

-----------------------------------------------------------------------------
(* Properties *)

\* Types; a loop in progress only ever visits registered subscribers.
TypeOK ==
  /\ hubActive \in BOOLEAN
  /\ members \subseteq Clients /\ todo \subseteq members
  /\ lock \in {"free", "push", "reset", "stop"}
  /\ size \in Nat /\ position \in Nat /\ resetAt \in Nat
  /\ window \in [Clients -> Windows]
  /\ client \in [Clients -> {"none", "streaming", "leaving"}]
  /\ took \in [Clients -> Nat \cup {Nothing}]

\* Every open subscriber has been offered everything pushed since it joined,
\* except the push whose loop has not come to it: a slow or leaving client
\* never makes another one miss data.
FanOutComplete ==
  \A c \in members :
    window[c].open =>
      window[c].high = IF lock = "push" /\ c \in todo THEN position - size
                                                      ELSE position

\* The registered subscribers are those of live clients, so none is leaked and
\* none is forgotten while its client still streams.
MembersAreClients ==
  /\ hubActive => members = {c \in Clients : client[c] # "none"}
  /\ ~hubActive /\ lock # "stop" => members = {}

\* Once Stop has returned every client's next read fails, also the read of a
\* client that subscribes afterwards: nobody waits for data that cannot come.
StoppedHubIsSilent ==
  ~hubActive /\ lock # "stop" => \A c \in Clients : ~window[c].open

\* After a Reset has returned, no client is given data pushed before it.
NothingFromBeforeReset ==
  [][\A c \in Clients :
       took'[c] \notin {took[c], Nothing} => took'[c] >= resetAt]_vars

=============================================================================
