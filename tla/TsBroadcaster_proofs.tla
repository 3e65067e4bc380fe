------------------------ MODULE TsBroadcaster_proofs ------------------------
(***************************************************************************)
(* The hub of TsBroadcaster is correct for every set of clients, buffer    *)
(* size and push size: types, fan-out without loss, the list of            *)
(* subscribers, silence after Stop and nothing old after Reset.            *)
(*                                                                         *)
(* The argument is about the loops that hold m_subscribersMutex: what is   *)
(* true of the subscribers already visited and of those still to visit.    *)
(***************************************************************************)
EXTENDS TsBroadcaster, TLAPS

-----------------------------------------------------------------------------
(* The inductive invariant *)

\* The mutex is free exactly between loops; only Stop's loop leaves the hub
\* inactive while it has subscribers to visit.
LockInv ==
  /\ lock = "free" => todo = {}
  /\ lock = "stop" => ~hubActive

\* A subscriber that can still deliver belongs to a client that streams and is
\* registered, so a loop over the list reaches every one of them.
OpenInv ==
  \A c \in Clients :
    window[c].open => c \in members /\ client[c] = "streaming"

\* Stop has closed every subscriber it has visited.
StopInv ==
  lock = "stop" => \A c \in Clients : window[c].open => c \in todo

\* What can still be delivered came after the last finished Reset, and what
\* the current Reset has visited starts at the newest packet.
ResetInv ==
  /\ resetAt <= position
  /\ \A c \in Clients :
       window[c].open =>
         /\ resetAt <= window[c].low
         /\ lock = "reset" /\ c \notin todo => position <= window[c].low

HubInv == /\ TypeOK /\ LockInv /\ OpenInv /\ FanOutComplete
          /\ MembersAreClients /\ StopInv /\ StoppedHubIsSilent /\ ResetInv

-----------------------------------------------------------------------------
(* What the operations do to one subscriber *)

\* A push moves the end of an open window by what was pushed, and its start,
\* if at all, forwards.
LEMMA AppendedWindow ==
  ASSUME NEW w \in Windows, NEW n \in Nat
  PROVE  /\ Appended(w, n) \in Windows
         /\ Appended(w, n).open = w.open
         /\ w.open => /\ Appended(w, n).high = w.high + n
                      /\ w.low <= Appended(w, n).low
<1> DEFINE low == IF w.high + n - w.low > Capacity
                  THEN w.high + n - Capacity ELSE w.low
<1>1. w.low \in Nat /\ w.high \in Nat /\ w.open \in BOOLEAN /\ Capacity \in Nat
  BY HubAssumption DEF Windows
<1>2. low \in Nat /\ w.low <= low
  BY <1>1
<1>3. CASE ~w.open
  BY <1>3 DEF Appended
<1>4. CASE w.open
  <2>1. Appended(w, n) = [w EXCEPT !.high = w.high + n, !.low = low]
    BY <1>4 DEF Appended
  <2> HIDE DEF low
  <2>2. w = [low |-> w.low, high |-> w.high, open |-> w.open]
    BY DEF Windows
  <2>3. Appended(w, n) = [low |-> low, high |-> w.high + n, open |-> w.open]
    BY <2>1, <2>2
  <2> QED
    BY <1>1, <1>2, <2>3 DEF Windows
<1> QED
  BY <1>3, <1>4

\* Clear empties a window at its end.
LEMMA ClearedWindow ==
  ASSUME NEW w \in Windows
  PROVE  /\ Cleared(w) \in Windows
         /\ Cleared(w).open = w.open
         /\ Cleared(w).high = w.high /\ Cleared(w).low = w.high
BY DEF Windows, Cleared

\* Stop closes a window and leaves its bounds alone.
LEMMA ClosedWindow ==
  ASSUME NEW w \in Windows
  PROVE  Closed(w) \in Windows /\ ~Closed(w).open
BY DEF Windows, Closed

\* A read moves the start of a window forwards.
LEMMA TakenWindow ==
  ASSUME NEW w \in Windows, NEW n \in Nat
  PROVE  /\ Taken(w, n) \in Windows
         /\ Taken(w, n).open = w.open
         /\ Taken(w, n).high = w.high
         /\ w.low <= Taken(w, n).low
BY DEF Windows, Taken

\* A new subscriber starts at the newest packet.
LEMMA NewWindow ==
  ASSUME NEW p \in Nat
  PROVE  /\ EmptyAt(p) \in Windows
         /\ EmptyAt(p).low = p /\ EmptyAt(p).high = p
         /\ Closed(EmptyAt(p)) \in Windows /\ ~Closed(EmptyAt(p)).open
BY DEF Windows, EmptyAt, Closed

\* One turn of a loop touches one window, in the way of the operation that
\* holds the mutex.
LEMMA VisitWindow ==
  ASSUME TypeOK, LockInv, NEW c \in Clients, Visit(c)
  PROVE  /\ lock \in {"push", "reset", "stop"}
         /\ window' \in [Clients -> Windows]
         /\ \A d \in Clients : d # c => window'[d] = window[d]
         /\ lock = "push" =>
              /\ window'[c].open = window[c].open
              /\ window[c].open => /\ window'[c].high = window[c].high + size
                                   /\ window[c].low <= window'[c].low
         /\ lock = "reset" =>
              /\ window'[c].open = window[c].open
              /\ window'[c].high = window[c].high
              /\ window'[c].low = window[c].high
         /\ lock = "stop" => ~window'[c].open
<1> DEFINE w == window[c]
<1>1. lock \in {"push", "reset", "stop"}
  BY DEF TypeOK, LockInv, Visit
<1>2. w \in Windows /\ size \in Nat
  BY DEF TypeOK
<1>3. CASE lock = "push"
  <2>1. window' = [window EXCEPT ![c] = Appended(w, size)]
    BY <1>3 DEF Visit
  <2> QED
    BY <1>1, <1>2, <1>3, <2>1, AppendedWindow DEF TypeOK
<1>4. CASE lock = "reset"
  <2>1. window' = [window EXCEPT ![c] = Cleared(w)]
    BY <1>4 DEF Visit
  <2> QED
    BY <1>1, <1>2, <1>4, <2>1, ClearedWindow DEF TypeOK
<1>5. CASE lock = "stop"
  <2>1. window' = [window EXCEPT ![c] = Closed(w)]
    BY <1>5 DEF Visit
  <2> QED
    BY <1>1, <1>2, <1>5, <2>1, ClosedWindow DEF TypeOK
<1> QED
  BY <1>1, <1>3, <1>4, <1>5

-----------------------------------------------------------------------------
(* The invariant holds initially and every action keeps it *)

LEMMA HubInit == Init => HubInv
<1> SUFFICES ASSUME Init PROVE HubInv
  OBVIOUS
<1>1. \A c \in Clients : window[c] \in Windows /\ ~window[c].open
  BY NewWindow DEF Init
<1>2. TypeOK
  BY NewWindow DEF Init, TypeOK, Nothing
<1> QED
  BY <1>1, <1>2 DEF Init, HubInv, LockInv, OpenInv, FanOutComplete,
                    MembersAreClients, StopInv, StoppedHubIsSilent, ResetInv

\* Taking the mutex for a push: nobody has been offered the new packets yet.
LEMMA PushKeepsHubInv ==
  ASSUME HubInv, NEW n \in PushSizes, PushData(n)
  PROVE  HubInv'
<1> USE DEF HubInv, PushData, Receivers
<1>1. n \in Nat /\ position' = position + n /\ position' - n = position
  BY HubAssumption DEF TypeOK
<1>2. TypeOK' /\ LockInv' /\ OpenInv' /\ MembersAreClients'
  BY <1>1 DEF TypeOK, LockInv, OpenInv, MembersAreClients
<1>3. FanOutComplete'
  BY <1>1 DEF FanOutComplete
<1>4. StopInv' /\ StoppedHubIsSilent'
  BY DEF StopInv, StoppedHubIsSilent
<1>5. ResetInv'
  BY <1>1 DEF ResetInv, TypeOK
<1> QED
  BY <1>2, <1>3, <1>4, <1>5

LEMMA ResetKeepsHubInv ==
  ASSUME HubInv, Reset
  PROVE  HubInv'
<1> USE DEF HubInv, Reset, ToReset
<1>1. TypeOK' /\ LockInv' /\ OpenInv' /\ MembersAreClients'
  BY DEF TypeOK, LockInv, OpenInv, MembersAreClients
<1>2. FanOutComplete'
  BY DEF FanOutComplete
<1>3. StopInv' /\ StoppedHubIsSilent'
  BY DEF StopInv, StoppedHubIsSilent
<1>4. ResetInv'
  BY DEF ResetInv, OpenInv
<1> QED
  BY <1>1, <1>2, <1>3, <1>4

LEMMA StopKeepsHubInv ==
  ASSUME HubInv, Stop
  PROVE  HubInv'
<1> USE DEF HubInv, Stop
<1>1. TypeOK' /\ LockInv' /\ OpenInv' /\ MembersAreClients'
  BY DEF TypeOK, LockInv, OpenInv, MembersAreClients
<1>2. FanOutComplete'
  BY DEF FanOutComplete
<1>3. StopInv' /\ StoppedHubIsSilent'
  BY DEF StopInv, StoppedHubIsSilent, OpenInv
<1>4. ResetInv'
  BY DEF ResetInv
<1> QED
  BY <1>1, <1>2, <1>3, <1>4

LEMMA VisitKeepsHubInv ==
  ASSUME HubInv, NEW c \in Clients, Visit(c)
  PROVE  HubInv'
<1>1. TypeOK /\ LockInv /\ OpenInv
  BY DEF HubInv
<1>2. /\ c \in todo /\ todo' = todo \ {c} /\ todo \subseteq members
      /\ UNCHANGED <<hubActive, members, lock, size, position, resetAt, client, took>>
  BY <1>1 DEF Visit, TypeOK
<1>3. TypeOK'
  BY <1>1, <1>2, VisitWindow DEF TypeOK
<1>4. LockInv'
  BY <1>1, <1>2 DEF LockInv
<1>5. \A d \in Clients : window'[d].open => window[d].open
  BY <1>1, VisitWindow
<1>6. OpenInv'
  BY <1>1, <1>2, <1>5 DEF OpenInv
<1>7. FanOutComplete'
  <2> SUFFICES ASSUME NEW d \in members', window'[d].open
               PROVE  window'[d].high = IF lock' = "push" /\ d \in todo'
                                        THEN position' - size' ELSE position'
    BY DEF FanOutComplete
  <2>1. d \in members /\ d \in Clients /\ window[d].open
    BY <1>1, <1>2, <1>5 DEF TypeOK
  <2>2. window[d].high = IF lock = "push" /\ d \in todo THEN position - size
                                                       ELSE position
    BY <2>1 DEF HubInv, FanOutComplete
  <2>3. CASE d # c
    BY <1>1, <1>2, <2>1, <2>2, <2>3, VisitWindow
  <2>4. CASE d = c
    <3>1. CASE lock = "push"
      <4>1. window'[d].high = (position - size) + size
        BY <1>1, <1>2, <2>1, <2>2, <2>4, <3>1, VisitWindow
      <4> QED
        BY <1>1, <1>2, <2>4, <4>1 DEF TypeOK
    <3>2. CASE lock = "reset"
      BY <1>1, <1>2, <2>1, <2>2, <2>4, <3>2, VisitWindow
    <3>3. CASE lock = "stop"
      BY <1>1, <2>4, <3>3, VisitWindow
    <3> QED
      BY <1>1, <3>1, <3>2, <3>3, VisitWindow
  <2> QED
    BY <2>3, <2>4
<1>8. MembersAreClients'
  BY <1>2 DEF HubInv, MembersAreClients
<1>9. StopInv'
  BY <1>1, <1>2, <1>5, VisitWindow DEF HubInv, StopInv
<1>10. StoppedHubIsSilent'
  BY <1>2, <1>5 DEF HubInv, StoppedHubIsSilent
<1>11. ResetInv'
  <2>1. resetAt' <= position'
    BY <1>2 DEF HubInv, ResetInv
  <2> SUFFICES ASSUME NEW d \in Clients, window'[d].open
               PROVE  /\ resetAt' <= window'[d].low
                      /\ lock' = "reset" /\ d \notin todo' => position' <= window'[d].low
    BY <2>1 DEF ResetInv
  <2>2. /\ resetAt <= position /\ resetAt <= window[d].low
        /\ lock = "reset" /\ d \notin todo => position <= window[d].low
    BY <1>5 DEF HubInv, ResetInv
  <2>3. CASE d # c
    BY <1>1, <1>2, <2>2, <2>3, VisitWindow
  <2>4. CASE d = c /\ lock = "push"
    <3>1. window[d].low <= window'[d].low
      BY <1>1, <1>5, <2>4, VisitWindow
    <3>2. /\ resetAt \in Nat /\ window[d].low \in Nat /\ window'[d].low \in Nat
      BY <1>1, <1>3 DEF TypeOK, Windows
    <3> QED
      BY <1>2, <2>2, <2>4, <3>1, <3>2
  <2>5. CASE d = c /\ lock = "reset"
    <3>1. window[d].high = position
      BY <1>2, <1>5, <2>5 DEF HubInv, FanOutComplete
    <3>2. window'[d].low = position
      BY <1>1, <2>5, <3>1, VisitWindow
    <3> QED
      BY <1>1, <1>2, <2>2, <3>2 DEF TypeOK
  <2>6. CASE d = c /\ lock = "stop"
    BY <1>1, <2>6, VisitWindow
  <2> QED
    BY <1>1, <2>3, <2>4, <2>5, <2>6, VisitWindow
<1> QED
  BY <1>3, <1>4, <1>6, <1>7, <1>8, <1>9, <1>10, <1>11 DEF HubInv

\* Letting go of the mutex: the loop is over, so the clauses about what it has
\* visited are about every subscriber.
LEMMA UnlockKeepsHubInv ==
  ASSUME HubInv, Unlock
  PROVE  HubInv'
<1> USE DEF HubInv, Unlock, MembersLeft
<1>1. TypeOK'
  BY DEF TypeOK
<1>2. LockInv'
  BY DEF LockInv
<1>3. lock = "stop" => \A c \in Clients : ~window[c].open
  BY DEF StopInv
<1>4. OpenInv'
  BY <1>3 DEF OpenInv
<1>5. FanOutComplete'
  BY DEF FanOutComplete
<1>6. MembersAreClients'
  BY DEF MembersAreClients, LockInv
<1>7. StopInv' /\ StoppedHubIsSilent'
  BY <1>3 DEF StopInv, StoppedHubIsSilent
<1>8. ResetInv'
  <2>1. CASE lock = "reset"
    BY <2>1 DEF ResetInv, TypeOK
  <2>2. CASE lock # "reset"
    BY <2>2 DEF ResetInv
  <2> QED
    BY <2>1, <2>2
<1> QED
  BY <1>1, <1>2, <1>4, <1>5, <1>6, <1>7, <1>8

\* A client joins an active hub with an empty window, a stopped one with a
\* closed window.
LEMMA CreateKeepsHubInv ==
  ASSUME HubInv, NEW c \in Clients, CreateSubscriber(c)
  PROVE  HubInv'
<1> USE DEF HubInv, Joins
<1>1. /\ lock = "free" /\ todo = {} /\ client[c] = "none"
      /\ UNCHANGED <<hubActive, lock, todo, size, position, resetAt>>
      /\ client' = [client EXCEPT ![c] = "streaming"]
      /\ took' = [took EXCEPT ![c] = Nothing]
  BY DEF CreateSubscriber, LockInv
<1>2. position \in Nat
  BY DEF TypeOK
<1>3. CASE hubActive
  <2>1. /\ members' = members \cup {c}
        /\ window' = [window EXCEPT ![c] = EmptyAt(position)]
    BY <1>3 DEF CreateSubscriber
  <2>2. TypeOK'
    BY <1>1, <1>2, <2>1, NewWindow DEF TypeOK, Nothing
  <2>3. /\ \A d \in Clients : d # c => window'[d] = window[d]
        /\ window'[c].low = position /\ window'[c].high = position
    BY <1>2, <2>1, NewWindow DEF TypeOK
  <2>4. LockInv' /\ StopInv' /\ StoppedHubIsSilent'
    BY <1>1, <1>3 DEF LockInv, StopInv, StoppedHubIsSilent
  <2>5. OpenInv'
    BY <1>1, <2>1, <2>3 DEF OpenInv, TypeOK
  <2>6. FanOutComplete'
    BY <1>1, <2>1, <2>3 DEF FanOutComplete, TypeOK
  <2>7. MembersAreClients'
    BY <1>1, <1>3, <2>1 DEF MembersAreClients, TypeOK
  <2>8. ResetInv'
    BY <1>1, <2>3 DEF ResetInv
  <2> QED
    BY <2>2, <2>4, <2>5, <2>6, <2>7, <2>8
<1>4. CASE ~hubActive
  <2>1. /\ members' = members
        /\ window' = [window EXCEPT ![c] = Closed(EmptyAt(position))]
    BY <1>4 DEF CreateSubscriber
  <2>2. TypeOK'
    BY <1>1, <1>2, <2>1, NewWindow DEF TypeOK, Nothing
  <2>3. /\ \A d \in Clients : d # c => window'[d] = window[d]
        /\ ~window'[c].open
    BY <1>2, <2>1, NewWindow DEF TypeOK
  <2>4. members = {} /\ members' = {}
    BY <1>1, <1>4, <2>1 DEF MembersAreClients
  <2>5. \A d \in Clients : ~window'[d].open
    BY <2>3, <2>4 DEF OpenInv
  <2> QED
    BY <1>1, <1>4, <2>2, <2>4, <2>5
    DEF LockInv, OpenInv, FanOutComplete, MembersAreClients, StopInv,
        StoppedHubIsSilent, ResetInv
<1> QED
  BY <1>3, <1>4

\* A read takes from the front of one window, between any two steps of a loop.
LEMMA PopKeepsHubInv ==
  ASSUME HubInv, NEW c \in Clients, NEW n \in 1 .. Capacity, PopData(c, n)
  PROVE  HubInv'
<1>1. /\ TypeOK /\ window[c] \in Windows /\ n \in Nat
      /\ UNCHANGED <<hub, client>>
      /\ window' = [window EXCEPT ![c] = Taken(window[c], n)]
      /\ took' = [took EXCEPT ![c] = window[c].low]
  BY HubAssumption DEF HubInv, TypeOK, PopData
<1>2. TypeOK'
  BY <1>1, TakenWindow DEF TypeOK, hub, Windows
<1>3. /\ \A d \in Clients : window'[d].open = window[d].open
      /\ \A d \in Clients : window'[d].high = window[d].high
  BY <1>1, TakenWindow DEF TypeOK
<1>4. LockInv' /\ OpenInv' /\ MembersAreClients' /\ StopInv' /\ StoppedHubIsSilent'
  BY <1>1, <1>3 DEF HubInv, LockInv, OpenInv, MembersAreClients, StopInv,
                    StoppedHubIsSilent, hub
<1>5. FanOutComplete'
  BY <1>1, <1>3 DEF HubInv, FanOutComplete, hub, TypeOK
<1>6. ResetInv'
  <2>1. resetAt' <= position'
    BY <1>1 DEF HubInv, ResetInv, hub
  <2> SUFFICES ASSUME NEW d \in Clients, window'[d].open
               PROVE  /\ resetAt' <= window'[d].low
                      /\ lock' = "reset" /\ d \notin todo' => position' <= window'[d].low
    BY <2>1 DEF ResetInv
  <2>2. /\ resetAt <= window[d].low
        /\ lock = "reset" /\ d \notin todo => position <= window[d].low
    BY <1>3 DEF HubInv, ResetInv
  <2>3. window[d].low <= window'[d].low
    <3>1. CASE d = c
      BY <1>1, <3>1, TakenWindow DEF TypeOK
    <3>2. CASE d # c
      BY <1>1, <3>2 DEF TypeOK, Windows
    <3> QED
      BY <3>1, <3>2
  <2>4. window[d].low \in Nat /\ window'[d].low \in Nat
    BY <1>1, <1>2 DEF TypeOK, Windows
  <2> QED
    BY <1>1, <2>2, <2>3, <2>4 DEF hub, TypeOK
<1> QED
  BY <1>2, <1>4, <1>5, <1>6 DEF HubInv

\* A leaving client closes its window and stays on the list for now.
LEMMA RemoveStopsKeepsHubInv ==
  ASSUME HubInv, NEW c \in Clients, RemoveStops(c)
  PROVE  HubInv'
<1>1. /\ TypeOK /\ window[c] \in Windows /\ client[c] = "streaming"
      /\ UNCHANGED <<hub, took>>
      /\ window' = [window EXCEPT ![c] = Closed(window[c])]
      /\ client' = [client EXCEPT ![c] = "leaving"]
  BY DEF HubInv, TypeOK, RemoveStops
<1>2. TypeOK'
  BY <1>1, ClosedWindow DEF TypeOK, hub
<1>3. /\ ~window'[c].open
      /\ \A d \in Clients : d # c => window'[d] = window[d]
  BY <1>1, ClosedWindow DEF TypeOK
<1>4. \A d \in Clients : d # c => client'[d] = client[d]
  BY <1>1 DEF TypeOK
<1>5. {d \in Clients : client'[d] # "none"} = {d \in Clients : client[d] # "none"}
  BY <1>1, <1>4 DEF TypeOK
<1>6. LockInv' /\ StopInv' /\ StoppedHubIsSilent' /\ ResetInv'
  BY <1>1, <1>3 DEF HubInv, LockInv, StopInv, StoppedHubIsSilent, ResetInv, hub
<1>7. OpenInv'
  BY <1>1, <1>3, <1>4 DEF HubInv, OpenInv, hub
<1>8. FanOutComplete'
  BY <1>1, <1>3 DEF HubInv, FanOutComplete, hub, TypeOK
<1>9. MembersAreClients'
  BY <1>1, <1>5 DEF HubInv, MembersAreClients, hub
<1> QED
  BY <1>2, <1>6, <1>7, <1>8, <1>9 DEF HubInv

\* The client's subscriber, closed already, leaves the list between two loops.
LEMMA RemoveErasesKeepsHubInv ==
  ASSUME HubInv, NEW c \in Clients, RemoveErases(c)
  PROVE  HubInv'
<1>1. /\ TypeOK /\ client[c] = "leaving" /\ lock = "free" /\ todo = {}
      /\ UNCHANGED <<hubActive, lock, todo, size, position, resetAt, window, took>>
      /\ members' = members \ {c}
      /\ client' = [client EXCEPT ![c] = "none"]
  BY DEF HubInv, LockInv, RemoveErases
<1>2. TypeOK'
  BY <1>1 DEF TypeOK
<1>3. LockInv' /\ StopInv' /\ StoppedHubIsSilent' /\ ResetInv' /\ FanOutComplete'
  BY <1>1 DEF HubInv, LockInv, StopInv, StoppedHubIsSilent, ResetInv, FanOutComplete
<1>4. OpenInv'
  BY <1>1 DEF HubInv, OpenInv, TypeOK
<1>5. MembersAreClients'
  BY <1>1 DEF HubInv, MembersAreClients, TypeOK
<1> QED
  BY <1>2, <1>3, <1>4, <1>5 DEF HubInv

LEMMA HubStep == HubInv /\ [Next]_vars => HubInv'
<1> SUFFICES ASSUME HubInv, [Next]_vars PROVE HubInv'
  OBVIOUS
<1>1. ASSUME NEW n \in PushSizes, PushData(n) PROVE HubInv'
  BY <1>1, PushKeepsHubInv
<1>2. CASE Reset
  BY <1>2, ResetKeepsHubInv
<1>3. CASE Stop
  BY <1>3, StopKeepsHubInv
<1>4. ASSUME NEW c \in Clients, Visit(c) PROVE HubInv'
  BY <1>4, VisitKeepsHubInv
<1>5. CASE Unlock
  BY <1>5, UnlockKeepsHubInv
<1>6. ASSUME NEW c \in Clients, CreateSubscriber(c) PROVE HubInv'
  BY <1>6, CreateKeepsHubInv
<1>7. ASSUME NEW c \in Clients, NEW n \in 1 .. Capacity, PopData(c, n)
      PROVE HubInv'
  BY <1>7, PopKeepsHubInv
<1>8. ASSUME NEW c \in Clients, RemoveStops(c) PROVE HubInv'
  BY <1>8, RemoveStopsKeepsHubInv
<1>9. ASSUME NEW c \in Clients, RemoveErases(c) PROVE HubInv'
  BY <1>9, RemoveErasesKeepsHubInv
<1>u. CASE UNCHANGED vars
  BY <1>u DEF vars, HubInv, TypeOK, LockInv, OpenInv, FanOutComplete,
              MembersAreClients, StopInv, StoppedHubIsSilent, ResetInv
<1> QED
  BY <1>1, <1>2, <1>3, <1>4, <1>5, <1>6, <1>7, <1>8, <1>9, <1>u DEF Next

-----------------------------------------------------------------------------
(* The theorems *)

\* Every reachable state of the hub satisfies the inductive invariant.
THEOREM HubInvariant == Spec => []HubInv
<1> QED
  BY HubInit, HubStep, PTL DEF Spec

\* Type correctness: a loop over m_subscribers only ever visits subscribers
\* that are still registered.
THEOREM HubTypes == Spec => []TypeOK
<1>1. HubInv => TypeOK
  BY DEF HubInv
<1> QED
  BY <1>1, HubInvariant, PTL

\* PushData reaches every open subscriber with everything pushed since it
\* joined, however slow the others are and whoever leaves during the loop.
THEOREM FanOutIsComplete == Spec => []FanOutComplete
<1>1. HubInv => FanOutComplete
  BY DEF HubInv
<1> QED
  BY <1>1, HubInvariant, PTL

\* m_subscribers holds the subscribers of the live clients, and nothing after
\* Stop: CreateSubscriber and RemoveSubscriber leak none and forget none.
THEOREM MembersAreTheClients == Spec => []MembersAreClients
<1>1. HubInv => MembersAreClients
  BY DEF HubInv
<1> QED
  BY <1>1, HubInvariant, PTL

\* After Stop no subscriber is open, whenever it was or will be created.
THEOREM StopSilencesEveryone == Spec => []StoppedHubIsSilent
<1>1. HubInv => StoppedHubIsSilent
  BY DEF HubInv
<1> QED
  BY <1>1, HubInvariant, PTL

\* After Reset has returned no PopData returns a packet pushed before it.
THEOREM ResetForgetsTheOld == Spec => NothingFromBeforeReset
<1> DEFINE New == \A c \in Clients :
                    took'[c] \notin {took[c], Nothing} => took'[c] >= resetAt
<1>1. HubInv /\ [Next]_vars => [New]_vars
  <2> SUFFICES ASSUME HubInv, Next, NEW c \in Clients,
                      took'[c] \notin {took[c], Nothing}
               PROVE  took'[c] >= resetAt
    OBVIOUS
  <2>1. ASSUME NEW d \in Clients, NEW n \in 1 .. Capacity, PopData(d, n)
        PROVE took'[c] >= resetAt
    <3>1. d = c /\ took'[c] = window[c].low /\ window[c].open
      BY <2>1 DEF PopData, CanTake, HubInv, TypeOK
    <3>2. resetAt <= window[c].low
      BY <3>1 DEF HubInv, ResetInv
    <3>3. resetAt \in Nat /\ window[c].low \in Nat
      BY DEF HubInv, TypeOK, Windows
    <3> QED
      BY <3>1, <3>2, <3>3
  <2>2. ASSUME NEW d \in Clients, CreateSubscriber(d)
        PROVE FALSE
    BY <2>2 DEF CreateSubscriber, HubInv, TypeOK
  <2>3. ASSUME UNCHANGED took PROVE FALSE
    BY <2>3
  <2> QED
    BY <2>1, <2>2, <2>3 DEF Next, PushData, Reset, Stop, Visit, Unlock,
                            RemoveStops, RemoveErases
<1> QED
  BY <1>1, HubInvariant, PTL DEF Spec, NothingFromBeforeReset
=============================================================================
