------------------------ MODULE HttpStreamer_proofs ------------------------
(***************************************************************************)
(* The HTTP server is correct for every set of handler threads and of      *)
(* handles and every limit on connections: each thread has its connection  *)
(* to itself and in the list, Stop leaves nothing behind, and the counts   *)
(* of clients and subscribers agree with the threads.                      *)
(*                                                                         *)
(* The argument is about who owns an open handle: the accept thread, or    *)
(* exactly one handler.                                                    *)
(***************************************************************************)
EXTENDS HttpStreamer, FiniteSetTheorems, TLAPS

-----------------------------------------------------------------------------
(* The inductive invariant *)

\* The type invariant without the limit and without the counters, which are
\* natural numbers only because they count threads.
Types ==
  /\ running \in BOOLEAN /\ scanning \in BOOLEAN
  /\ open \subseteq Sockets /\ dead \subseteq Sockets /\ clients \subseteq Sockets
  /\ acceptor \in {"accept", "accepted", "spawn", "done"}
  /\ accepted \in Sockets \cup {NoSocket}
  /\ pc \in [Handlers -> Working \cup {"none"}]
  /\ conn \in [Handlers -> Sockets \cup {NoSocket}]
  /\ thrown \in 0..MaxThrows
  /\ stopper \in {"none", "close", "join", "wait", "stopped"}

\* An open handle is listed, unless the accept thread has yet to admit it; and
\* nothing is listed that is closed.
OpenInv ==
  /\ clients \subseteq open
  /\ \A k \in open : k \in clients \/ (acceptor = "accepted" /\ k = accepted)

\* The accept thread holds an open handle from accept to the start of a thread,
\* and lists it in between.
AcceptorInv ==
  /\ acceptor \in {"accepted", "spawn"} => accepted \in open
  /\ acceptor = "accepted" => accepted \notin clients
  /\ acceptor \in {"accept", "done"} => accepted = NoSocket

\* A thread that has left has no handle.
IdleInv == \A h \in Handlers : ~Live(h) => conn[h] = NoSocket

LimitInv == Cardinality(clients) <= MaxClients

\* Stop has begun exactly when m_running is false; what it waited for stays over.
StopInv ==
  /\ running <=> stopper = "none"
  /\ stopper \in {"wait", "stopped"} => acceptor = "done"
  /\ stopper = "stopped" => clients = {}

HttpInv == /\ Types /\ OpenInv /\ AcceptorInv /\ IdleInv /\ ConnectionsListed
           /\ LimitInv /\ StopInv /\ CountsMatch

-----------------------------------------------------------------------------
(* Counting threads *)

Streamers == {h \in Handlers : Streaming(h)}
Holders == {h \in Handlers : Holding(h)}

StreamPlaces == {"test", "send", "pop", "over"}
HoldPlaces == StreamPlaces \cup {"first", "header"}

\* The number of elements after one may have left and one may have come.
LEMMA CountAfter ==
  ASSUME NEW S, IsFiniteSet(S), NEW x, NEW T, NEW in \in BOOLEAN,
         T = IF in THEN S \cup {x} ELSE S \ {x}
  PROVE  /\ Cardinality(S) \in Nat
         /\ x \in S => Cardinality(S) > 0
         /\ x \in S /\ in => Cardinality(T) = Cardinality(S)
         /\ x \in S /\ ~in => Cardinality(T) = Cardinality(S) - 1
         /\ x \notin S /\ in => Cardinality(T) = Cardinality(S) + 1
         /\ x \notin S /\ ~in => Cardinality(T) = Cardinality(S)
<1>1. Cardinality(S) \in Nat
  BY FS_CardinalityType
<1>2. x \in S => Cardinality(S) # 0
  BY FS_EmptySet
<1>3. CASE in
  BY <1>1, <1>2, <1>3, FS_AddElement
<1>4. CASE ~in
  BY <1>1, <1>2, <1>4, FS_RemoveElement
<1> QED
  BY <1>3, <1>4

\* What a step of one thread does to the two sets of threads.
LEMMA Moved ==
  ASSUME Types, NEW h \in Handlers, NEW next, Goto(h, next)
  PROVE  /\ Streamers' = IF next \in StreamPlaces THEN Streamers \cup {h}
                         ELSE Streamers \ {h}
         /\ Holders' = IF next \in HoldPlaces THEN Holders \cup {h}
                       ELSE Holders \ {h}
BY DEF Types, Goto, Streamers, Holders, Streaming, Holding, StreamPlaces, HoldPlaces

LEMMA FiniteThreads == IsFiniteSet(Streamers) /\ IsFiniteSet(Holders)
BY FS_Subset, HttpAssumption DEF Streamers, Holders

\* The same in numbers.
Counted(S, T, before, after) ==
  /\ Cardinality(S) \in Nat
  /\ before => Cardinality(S) > 0
  /\ before /\ after => Cardinality(T) = Cardinality(S)
  /\ before /\ ~after => Cardinality(T) = Cardinality(S) - 1
  /\ ~before /\ after => Cardinality(T) = Cardinality(S) + 1
  /\ ~before /\ ~after => Cardinality(T) = Cardinality(S)

LEMMA MovedCount ==
  ASSUME Types, NEW h \in Handlers, NEW next, Goto(h, next)
  PROVE  /\ Counted(Streamers, Streamers', pc[h] \in StreamPlaces, next \in StreamPlaces)
         /\ Counted(Holders, Holders', pc[h] \in HoldPlaces, next \in HoldPlaces)
<1>1. h \in Streamers <=> pc[h] \in StreamPlaces
  BY DEF Streamers, Streaming, StreamPlaces
<1>2. h \in Holders <=> pc[h] \in HoldPlaces
  BY DEF Holders, Holding, HoldPlaces, StreamPlaces
<1>3. /\ Streamers' = IF next \in StreamPlaces THEN Streamers \cup {h} ELSE Streamers \ {h}
      /\ Holders' = IF next \in HoldPlaces THEN Holders \cup {h} ELSE Holders \ {h}
  BY Moved
<1>4. Counted(Streamers, Streamers', pc[h] \in StreamPlaces, next \in StreamPlaces)
  BY <1>1, <1>3, FiniteThreads, CountAfter DEF Counted
<1>5. Counted(Holders, Holders', pc[h] \in HoldPlaces, next \in HoldPlaces)
  BY <1>2, <1>3, FiniteThreads, CountAfter DEF Counted
<1> QED
  BY <1>4, <1>5

-----------------------------------------------------------------------------
(* The steps of a handler thread *)

One(b) == IF b THEN 1 ELSE 0

\* A step inside a thread: it keeps its connection, and the counters follow it
\* into and out of a stream, an exception being counted apart.
Within(h, next) ==
  /\ pc[h] \in Working /\ next \in Working /\ Goto(h, next)
  /\ UNCHANGED <<server, open, dead, conn>>
  /\ scanning' \in BOOLEAN
  /\ thrown' \in 0..MaxThrows
  /\ active' = active + (thrown' - thrown)
                 + One(next \in StreamPlaces) - One(pc[h] \in StreamPlaces)
  /\ members' = members + (thrown' - thrown)
                  + One(next \in HoldPlaces) - One(pc[h] \in HoldPlaces)

LEMMA Counters ==
  ASSUME Types, CountsMatch
  PROVE  active \in Nat /\ members \in Nat /\ thrown \in Nat
BY FiniteThreads, FS_CardinalityType, HttpAssumption
   DEF Types, CountsMatch, Streamers, Holders

LEMMA EveryStepIsWithin ==
  ASSUME Types, CountsMatch, NEW h \in Handlers, Handler(h), ~Leave(h)
  PROVE  \E next \in Working : Within(h, next)
<1>0. /\ active \in Nat /\ members \in Nat /\ thrown \in Nat /\ thrown \in 0..MaxThrows
      /\ MaxThrows \in Nat /\ scanning \in BOOLEAN
  BY Counters, HttpAssumption DEF Types
<1> USE DEF Within, Working, One, StreamPlaces, HoldPlaces
<1>1. CASE Read(h)
  BY <1>0, <1>1 DEF Read
<1>2. CASE Api(h)
  <2>1. scanning' \in BOOLEAN
    BY <1>0, <1>2 DEF Api
  <2>2. Within(h, "finish")
    BY <1>0, <1>2, <2>1 DEF Api
  <2> QED
    BY <2>2
<1>3. CASE Route(h)
  BY <1>0, <1>3 DEF Route
<1>4. CASE Tune(h)
  BY <1>0, <1>4 DEF Tune
<1>5. CASE First(h)
  BY <1>0, <1>5 DEF First
<1>6. CASE Header(h)
  BY <1>0, <1>6 DEF Header, SubscriberRemoved
<1>7. CASE Test(h)
  BY <1>0, <1>7 DEF Test
<1>8. CASE TestThrows(h)
  BY <1>0, <1>8 DEF TestThrows
<1>9. CASE Send(h)
  BY <1>0, <1>9 DEF Send, SendFailed
<1>10. CASE Pop(h)
  BY <1>0, <1>10 DEF Pop
<1>11. CASE Over(h)
  BY <1>0, <1>11 DEF Over
<1>12. CASE Finish(h)
  BY <1>0, <1>12 DEF Finish, ClosedUnderLock
<1> QED
  BY <1>1, <1>2, <1>3, <1>4, <1>5, <1>6, <1>7, <1>8, <1>9, <1>10, <1>11, <1>12
     DEF Handler

\* The counts follow every such step.
LEMMA WithinCounts ==
  ASSUME Types, CountsMatch, NEW h \in Handlers, NEW next \in Working, Within(h, next)
  PROVE  CountsMatch'
<1>1. /\ Counted(Streamers, Streamers', pc[h] \in StreamPlaces, next \in StreamPlaces)
      /\ Counted(Holders, Holders', pc[h] \in HoldPlaces, next \in HoldPlaces)
  BY MovedCount DEF Within
<1>2. /\ active = Cardinality(Streamers) + thrown
      /\ members = Cardinality(Holders) + thrown
  BY DEF CountsMatch, Streamers, Holders
<1>3. thrown \in Nat /\ thrown' \in Nat
  BY HttpAssumption DEF Within, Types
<1>4. active' = Cardinality(Streamers') + thrown'
  BY <1>1, <1>2, <1>3 DEF Within, Counted, One
<1>5. members' = Cardinality(Holders') + thrown'
  BY <1>1, <1>2, <1>3 DEF Within, Counted, One
<1> QED
  BY <1>4, <1>5 DEF CountsMatch, Streamers, Holders

LEMMA WithinKeeps ==
  ASSUME HttpInv, NEW h \in Handlers, NEW next \in Working, Within(h, next)
  PROVE  HttpInv'
<1>1. /\ Types /\ Goto(h, next) /\ pc[h] # "none" /\ next # "none"
      /\ UNCHANGED <<running, clients, open, dead, acceptor, accepted, conn, stopper>>
  BY DEF HttpInv, Within, server, Working
<1>2. Types'
  BY <1>1 DEF Types, Goto, Within
<1>3. \A g \in Handlers : Live(g)' <=> Live(g)
  BY <1>1 DEF Goto, Live
<1>4. OpenInv' /\ AcceptorInv' /\ LimitInv' /\ StopInv'
  BY <1>1 DEF HttpInv, OpenInv, AcceptorInv, LimitInv, StopInv
<1>5. IdleInv' /\ ConnectionsListed'
  BY <1>1, <1>3 DEF HttpInv, IdleInv, ConnectionsListed
<1>6. CountsMatch'
  BY WithinCounts DEF HttpInv
<1> QED
  BY <1>2, <1>4, <1>5, <1>6 DEF HttpInv

\* Only the handle of the thread that leaves is closed and taken off the list.
LEMMA LeaveKeeps ==
  ASSUME HttpInv, NEW h \in Handlers, Leave(h)
  PROVE  HttpInv'
<1>1. /\ Types /\ Live(h) /\ pc[h] = "locked" /\ Goto(h, "none")
      /\ conn[h] \in clients \cap open /\ conn[h] # accepted
      /\ open' = open \ {conn[h]} /\ clients' = clients \ {conn[h]}
      /\ conn' = [conn EXCEPT ![h] = NoSocket]
      /\ UNCHANGED <<running, dead, acceptor, accepted, active, members, thrown,
                     scanning, stopper>>
  BY DEF HttpInv, Leave, ConnectionsListed, Live
<1>2. Types'
  BY <1>1 DEF Types, Goto
<1>3. \A g \in Handlers \ {h} : (Live(g)' <=> Live(g)) /\ conn'[g] = conn[g]
  BY <1>1 DEF Goto, Live
<1>4. ~Live(h)' /\ conn'[h] = NoSocket
  BY <1>1 DEF Types, Goto, Live
<1>5. OpenInv' /\ AcceptorInv' /\ StopInv'
  BY <1>1 DEF HttpInv, OpenInv, AcceptorInv, StopInv
<1>6. IdleInv'
  BY <1>3, <1>4 DEF HttpInv, IdleInv
<1>7. ConnectionsListed'
  <2> SUFFICES ASSUME NEW g \in Handlers, Live(g)'
               PROVE  /\ conn'[g] \in clients' \cap open' /\ conn'[g] # accepted'
                      /\ \A f \in Handlers \ {g} : conn'[f] # conn'[g]
    BY DEF ConnectionsListed
  <2>1. g # h /\ Live(g) /\ conn'[g] = conn[g] /\ conn[g] \in Sockets
    BY <1>1, <1>3, <1>4 DEF HttpInv, ConnectionsListed, Types
  <2>2. conn[h] # conn[g] /\ NoSocket # conn[g]
    BY <2>1, HttpAssumption DEF HttpInv, ConnectionsListed
  <2> QED
    BY <1>1, <1>3, <1>4, <2>1, <2>2 DEF HttpInv, ConnectionsListed
<1>8. LimitInv'
  BY <1>1, HttpAssumption, FS_Subset, FS_RemoveElement, FS_CardinalityType
     DEF HttpInv, LimitInv, Types
<1>9. CountsMatch'
  <2>1. Streamers' = Streamers /\ Holders' = Holders
    BY <1>1 DEF Goto, Streamers, Holders, Streaming, Holding
  <2> QED
    BY <1>1, <2>1 DEF HttpInv, CountsMatch, Streamers, Holders
<1> QED
  BY <1>2, <1>5, <1>6, <1>7, <1>8, <1>9 DEF HttpInv

-----------------------------------------------------------------------------
(* The accept thread *)

\* What the accept thread does leaves threads and counters alone.
LEMMA SameCounts ==
  ASSUME CountsMatch, UNCHANGED <<pc, active, members, thrown>>
  PROVE  CountsMatch'
BY DEF CountsMatch, Streaming, Holding

\* The new handle was closed, so no thread has it and it is not listed.
LEMMA AcceptKeeps ==
  ASSUME HttpInv, Accept
  PROVE  HttpInv'
<1>1. PICK k \in Sockets \ open :
        /\ open' = open \cup {k} /\ dead' = dead \ {k} /\ accepted' = k
        /\ acceptor = "accept" /\ acceptor' = "accepted"
        /\ UNCHANGED <<running, clients, pc, conn, active, members, thrown, scanning, stopper>>
  BY DEF Accept
<1>2. Types'
  BY <1>1 DEF HttpInv, Types
<1>3. OpenInv' /\ AcceptorInv'
  BY <1>1 DEF HttpInv, OpenInv, AcceptorInv
<1>4. IdleInv' /\ ConnectionsListed'
  BY <1>1 DEF HttpInv, IdleInv, ConnectionsListed, Live
<1>5. LimitInv' /\ StopInv'
  BY <1>1 DEF HttpInv, LimitInv, StopInv
<1>6. CountsMatch'
  BY <1>1, SameCounts DEF HttpInv
<1> QED
  BY <1>2, <1>3, <1>4, <1>5, <1>6 DEF HttpInv

LEMMA AcceptFailsKeeps ==
  ASSUME HttpInv, AcceptFails
  PROVE  HttpInv'
<1>1. Types' /\ OpenInv' /\ AcceptorInv'
  BY DEF HttpInv, AcceptFails, Types, OpenInv, AcceptorInv
<1>2. IdleInv' /\ ConnectionsListed' /\ LimitInv' /\ StopInv'
  BY DEF HttpInv, AcceptFails, IdleInv, ConnectionsListed, Live, LimitInv, StopInv
<1>3. CountsMatch'
  BY SameCounts DEF HttpInv, AcceptFails
<1> QED
  BY <1>1, <1>2, <1>3 DEF HttpInv

\* Listed while running and below the limit, else closed, and no thread has it.
LEMMA AdmitKeeps ==
  ASSUME HttpInv, Admit
  PROVE  HttpInv'
<1>1. /\ Types /\ acceptor = "accepted" /\ accepted \in open \ clients
      /\ accepted \in Sockets /\ IsFiniteSet(clients)
      /\ \A h \in Handlers : Live(h) => conn[h] # accepted
  BY FS_Subset, HttpAssumption
     DEF HttpInv, Types, Admit, AcceptorInv, ConnectionsListed
<1>2. /\ UNCHANGED <<running, dead, pc, conn, active, members, thrown, scanning, stopper>>
      /\ CountsMatch'
  BY SameCounts DEF HttpInv, Admit
<1>3. CASE running /\ HasRoom
  <2>1. /\ clients' = clients \cup {accepted} /\ acceptor' = "spawn"
        /\ UNCHANGED <<open, accepted>>
    BY <1>3 DEF Admit
  <2>2. Types'
    BY <1>1, <1>2, <2>1 DEF Types
  <2>3. OpenInv' /\ AcceptorInv' /\ StopInv'
    BY <1>1, <1>2, <1>3, <2>1 DEF HttpInv, OpenInv, AcceptorInv, StopInv
  <2>4. IdleInv' /\ ConnectionsListed'
    BY <1>2, <2>1 DEF HttpInv, IdleInv, ConnectionsListed, Live
  <2>5. LimitInv'
    <3>1. Cardinality(clients) \in Nat /\ Cardinality(clients) < MaxClients
      BY <1>1, <1>3, FS_CardinalityType DEF HasRoom
    <3>2. Cardinality(clients \cup {accepted}) = Cardinality(clients) + 1
      BY <1>1, FS_AddElement
    <3> QED
      BY <2>1, <3>1, <3>2, HttpAssumption DEF LimitInv
  <2> QED
    BY <1>2, <2>2, <2>3, <2>4, <2>5 DEF HttpInv
<1>4. CASE ~(running /\ HasRoom)
  <2>1. /\ open' = open \ {accepted} /\ accepted' = NoSocket /\ NextAccept
        /\ clients' = clients
    BY <1>4 DEF Admit
  <2>2. Types'
    BY <1>1, <1>2, <2>1 DEF Types, NextAccept
  <2>3. OpenInv' /\ AcceptorInv' /\ LimitInv'
    BY <1>1, <2>1 DEF HttpInv, OpenInv, AcceptorInv, LimitInv, NextAccept
  <2>4. StopInv'
    BY <1>1, <1>2, <2>1 DEF HttpInv, StopInv
  <2>5. IdleInv' /\ ConnectionsListed'
    BY <1>1, <1>2, <2>1, HttpAssumption
       DEF HttpInv, Types, IdleInv, ConnectionsListed, Live
  <2> QED
    BY <1>2, <2>2, <2>3, <2>4, <2>5 DEF HttpInv
<1> QED
  BY <1>3, <1>4

\* The handle passes from the accept thread to a thread that had none.
LEMMA SpawnKeeps ==
  ASSUME HttpInv, Spawn
  PROVE  HttpInv'
<1>1. PICK h \in Handlers :
        /\ pc[h] = "none" /\ Goto(h, "read")
        /\ conn' = [conn EXCEPT ![h] = accepted]
        /\ acceptor = "spawn" /\ accepted' = NoSocket /\ NextAccept
        /\ UNCHANGED <<running, clients, open, dead, active, members, thrown, scanning,
                       stopper>>
  BY DEF Spawn, Goto
<1>2. /\ Types /\ accepted \in Sockets \cap open \cap clients /\ accepted # NoSocket
  BY <1>1, HttpAssumption DEF HttpInv, Types, OpenInv, AcceptorInv
<1>3. \A g \in Handlers \ {h} : (Live(g)' <=> Live(g)) /\ conn'[g] = conn[g]
  BY <1>1, <1>2 DEF Goto, Live
<1>4. Live(h)' /\ ~Live(h) /\ conn'[h] = accepted
  BY <1>1, <1>2 DEF Types, Goto, Live
<1>5. Types'
  BY <1>1, <1>2 DEF Types, Goto, Working, NextAccept
<1>6. OpenInv' /\ AcceptorInv' /\ LimitInv'
  BY <1>1 DEF HttpInv, OpenInv, AcceptorInv, LimitInv, NextAccept
<1>7. StopInv'
  BY <1>1 DEF HttpInv, StopInv
<1>8. IdleInv'
  BY <1>3, <1>4 DEF HttpInv, IdleInv
<1>9. ConnectionsListed'
  <2> SUFFICES ASSUME NEW g \in Handlers, Live(g)'
               PROVE  /\ conn'[g] \in clients' \cap open' /\ conn'[g] # accepted'
                      /\ \A f \in Handlers \ {g} : conn'[f] # conn'[g]
    BY DEF ConnectionsListed
  <2>1. CASE g = h
    <3>1. \A f \in Handlers \ {h} : conn[f] # accepted
      BY <1>2 DEF HttpInv, ConnectionsListed, IdleInv
    <3> QED
      BY <1>1, <1>2, <1>3, <1>4, <2>1, <3>1
  <2>2. CASE g # h
    <3>1. Live(g) /\ conn'[g] = conn[g] /\ conn[g] \in Sockets /\ conn[g] # NoSocket
      BY <1>2, <1>3, <2>2, HttpAssumption DEF HttpInv, ConnectionsListed, Types
    <3> QED
      BY <1>1, <1>3, <1>4, <3>1 DEF HttpInv, ConnectionsListed
  <2> QED
    BY <2>1, <2>2
<1>10. CountsMatch'
  <2>1. Streamers' = Streamers /\ Holders' = Holders
    BY <1>1, <1>2 DEF Goto, Streamers, Holders, Streaming, Holding
  <2> QED
    BY <1>1, <2>1 DEF HttpInv, CountsMatch, Streamers, Holders
<1> QED
  BY <1>5, <1>6, <1>7, <1>8, <1>9, <1>10 DEF HttpInv

LEMMA SpawnFailsKeeps ==
  ASSUME HttpInv, SpawnFails
  PROVE  HttpInv'
<1>1. /\ Types /\ acceptor = "spawn" /\ accepted \in open
      /\ open' = open \ {accepted} /\ clients' = clients \ {accepted}
      /\ accepted' = NoSocket /\ NextAccept
      /\ UNCHANGED <<running, dead, pc, conn, active, members, thrown, scanning, stopper>>
  BY DEF HttpInv, AcceptorInv, SpawnFails, Erased
<1>2. Types'
  BY <1>1 DEF Types, NextAccept
<1>3. OpenInv' /\ AcceptorInv'
  BY <1>1 DEF HttpInv, OpenInv, AcceptorInv, NextAccept
<1>4. IdleInv' /\ ConnectionsListed'
  BY <1>1, HttpAssumption DEF HttpInv, Types, IdleInv, ConnectionsListed, Live
<1>5. LimitInv'
  BY <1>1, HttpAssumption, FS_Subset, FS_RemoveElement, FS_CardinalityType
     DEF HttpInv, LimitInv, Types
<1>6. StopInv'
  BY <1>1 DEF HttpInv, StopInv
<1>7. CountsMatch'
  BY <1>1, SameCounts DEF HttpInv
<1> QED
  BY <1>2, <1>3, <1>4, <1>5, <1>6, <1>7 DEF HttpInv

-----------------------------------------------------------------------------
(* Stop and the surroundings *)

\* Stop closes the listening socket, joins, shuts down and waits; a peer goes
\* and a scan ends: no list, handle or thread changes in any of them.
LEMMA OthersKeep ==
  ASSUME HttpInv,
         Stop \/ Stopper \/ ScanEnds \/ (\E k \in Sockets : PeerGoes(k))
  PROVE  HttpInv'
<1>1. UNCHANGED <<clients, open, acceptor, accepted, pc, conn, active, members, thrown>>
  BY DEF Stop, Stopper, StopCloses, StopShutsDown, StopWaits, ScanEnds, PeerGoes, rest,
         server
<1>2. OpenInv' /\ AcceptorInv' /\ LimitInv' /\ CountsMatch'
  BY <1>1, SameCounts DEF HttpInv, OpenInv, AcceptorInv, LimitInv
<1>3. IdleInv' /\ ConnectionsListed'
  BY <1>1 DEF HttpInv, IdleInv, ConnectionsListed, Live
<1>4. Types'
  <2>1. running' \in BOOLEAN /\ scanning' \in BOOLEAN
    BY DEF HttpInv, Types, Stop, Stopper, StopCloses, StopShutsDown, StopWaits, ScanEnds,
           PeerGoes, rest, server
  <2>2. /\ dead' \subseteq Sockets
        /\ stopper' \in {"none", "close", "join", "wait", "stopped"}
    BY DEF HttpInv, Types, Stop, Stopper, StopCloses, StopShutsDown, StopWaits, ScanEnds,
           PeerGoes, rest, server
  <2> QED
    BY <1>1, <2>1, <2>2 DEF HttpInv, Types
<1>5. StopInv'
  BY <1>1 DEF HttpInv, StopInv, Stop, Stopper, StopCloses, StopShutsDown, StopWaits,
              ScanEnds, PeerGoes, AcceptorOver, rest, server
<1> QED
  BY <1>2, <1>3, <1>4, <1>5 DEF HttpInv

-----------------------------------------------------------------------------
(* The theorems *)

LEMMA HttpStart == Init => HttpInv
<1> SUFFICES ASSUME Init PROVE HttpInv
  OBVIOUS
<1>1. Types
  BY HttpAssumption DEF Init, Types
<1>2. OpenInv /\ AcceptorInv /\ IdleInv /\ ConnectionsListed /\ StopInv
  BY DEF Init, OpenInv, AcceptorInv, IdleInv, ConnectionsListed, Live, StopInv
<1>3. LimitInv
  BY FS_EmptySet, HttpAssumption DEF Init, LimitInv
<1>4. CountsMatch
  <2>1. Streamers = {} /\ Holders = {}
    BY DEF Init, Streamers, Holders, Streaming, Holding
  <2> QED
    BY <2>1, FS_EmptySet DEF Init, CountsMatch, Streamers, Holders
<1> QED
  BY <1>1, <1>2, <1>3, <1>4 DEF HttpInv

LEMMA HttpStep == HttpInv /\ [Next]_vars => HttpInv'
<1> SUFFICES ASSUME HttpInv, [Next]_vars PROVE HttpInv'
  OBVIOUS
<1>1. CASE Accept
  BY <1>1, AcceptKeeps
<1>2. CASE AcceptFails
  BY <1>2, AcceptFailsKeeps
<1>3. CASE Admit
  BY <1>3, AdmitKeeps
<1>4. CASE Spawn
  BY <1>4, SpawnKeeps
<1>5. CASE SpawnFails
  BY <1>5, SpawnFailsKeeps
<1>6. CASE \E h \in Handlers : Handler(h)
  <2>1. PICK h \in Handlers : Handler(h)
    BY <1>6
  <2>2. CASE Leave(h)
    BY <2>2, LeaveKeeps
  <2>3. CASE ~Leave(h)
    BY <2>1, <2>3, EveryStepIsWithin, WithinKeeps DEF HttpInv
  <2> QED
    BY <2>2, <2>3
<1>7. CASE Stop \/ Stopper \/ ScanEnds \/ (\E k \in Sockets : PeerGoes(k))
  BY <1>7, OthersKeep
<1>8. CASE UNCHANGED vars
  BY <1>8 DEF HttpInv, Types, OpenInv, AcceptorInv, IdleInv, ConnectionsListed, Live,
              LimitInv, StopInv, CountsMatch, Streaming, Holding, vars
<1> QED
  BY <1>1, <1>2, <1>3, <1>4, <1>5, <1>6, <1>7, <1>8 DEF Next

\* The inductive invariant holds in every reachable state.
THEOREM HttpInvariant == Spec => []HttpInv
<1> QED
  BY HttpStart, HttpStep, PTL DEF Spec

\* Every variable stays in its type, there are never more connections listed
\* than the limit allows, and no counter of clients falls below zero.
THEOREM HttpTypes == Spec => []TypeOK
<1>1. HttpInv => TypeOK
  BY Counters DEF HttpInv, Types, TypeOK, LimitInv
<1> QED
  BY <1>1, HttpInvariant, PTL

\* A handle that was closed and given out again never has two users, and every
\* thread's handle is in the list that Stop waits on.
THEOREM EveryConnectionIsListed == Spec => []ConnectionsListed
<1>1. HttpInv => ConnectionsListed
  BY DEF HttpInv
<1> QED
  BY <1>1, HttpInvariant, PTL

\* When Stop has returned, no thread uses the server and no handle is open, also
\* of connections that were admitted while it ran.
THEOREM StopLeavesNothing == Spec => []StoppedIsQuiet
<1>1. HttpInv => StoppedIsQuiet
  BY DEF HttpInv, StopInv, OpenInv, ConnectionsListed, StoppedIsQuiet
<1> QED
  BY <1>1, HttpInvariant, PTL

\* Clients and subscribers are counted exactly, but for the streams that ended
\* by an exception.
THEOREM TheCountsMatch == Spec => []CountsMatch
<1>1. HttpInv => CountsMatch
  BY DEF HttpInv
<1> QED
  BY <1>1, HttpInvariant, PTL

-----------------------------------------------------------------------------
(* Why the wait of Stop ends *)

\* Whom Stop waits for: every listed handle is that of a running thread or is
\* about to be one's, and once Stop waits every listed connection is shut down.
ListedInv ==
  /\ \A k \in clients : (acceptor = "spawn" /\ k = accepted)
                        \/ \E h \in Handlers : Live(h) /\ conn[h] = k
  /\ stopper = "wait" => clients \subseteq dead

\* Stop waits on m_clientsCv only for threads that run, whose sends and receives
\* fail at once since their sockets are shut down: nobody it waits for could have
\* left without telling it, and no one is blocked on a client.
WaitIsForRunning ==
  stopper = "wait" => \A k \in clients : k \in dead /\ \E h \in Handlers : Live(h) /\ conn[h] = k

LEMMA ListedStep == HttpInv /\ ListedInv /\ [Next]_vars => ListedInv'
<1> SUFFICES ASSUME HttpInv, ListedInv, [Next]_vars PROVE ListedInv'
  OBVIOUS
<1> USE DEF ListedInv
<1>1. CASE Accept \/ AcceptFails
  BY <1>1 DEF HttpInv, StopInv, Accept, AcceptFails, Live
<1>2. CASE Admit
  BY <1>2 DEF HttpInv, StopInv, Admit, Live
<1>3. CASE Spawn
  <2>1. PICK h \in Handlers :
          /\ pc[h] = "none" /\ pc' = [pc EXCEPT ![h] = "read"]
          /\ conn' = [conn EXCEPT ![h] = accepted]
    BY <1>3 DEF Spawn
  <2>2. /\ pc \in [Handlers -> Working \cup {"none"}]
        /\ conn \in [Handlers -> Sockets \cup {NoSocket}]
    BY DEF HttpInv, Types
  <2>3. Live(h)' /\ conn'[h] = accepted
    BY <2>1, <2>2 DEF Live
  <2>4. \A g \in Handlers : Live(g) => Live(g)' /\ conn'[g] = conn[g]
    BY <2>1, <2>2 DEF Live
  <2>5. stopper' # "wait" /\ clients' = clients
    BY <1>3 DEF HttpInv, StopInv, Spawn
  <2> QED
    BY <2>3, <2>4, <2>5
<1>4. CASE SpawnFails
  <2>1. /\ clients' = clients \ {accepted} /\ stopper' # "wait"
        /\ UNCHANGED <<pc, conn>>
    BY <1>4 DEF HttpInv, StopInv, SpawnFails, Erased
  <2> QED
    BY <2>1 DEF Live
<1>5. CASE \E h \in Handlers : Handler(h)
  <2>1. PICK h \in Handlers : Handler(h)
    BY <1>5
  <2>2. CASE Leave(h)
    <3>1. /\ clients' = clients \ {conn[h]} /\ UNCHANGED <<acceptor, accepted, stopper, dead>>
          /\ pc' = [pc EXCEPT ![h] = "none"] /\ conn' = [conn EXCEPT ![h] = NoSocket]
      BY <2>2 DEF Leave, Goto
    <3>2. \A g \in Handlers \ {h} : Live(g) => Live(g)' /\ conn'[g] = conn[g]
      BY <3>1 DEF Live
    <3> QED
      BY <3>1, <3>2
  <2>3. CASE ~Leave(h)
    <3>1. PICK next \in Working : Within(h, next)
      BY <2>1, <2>3, EveryStepIsWithin DEF HttpInv
    <3>2. UNCHANGED <<clients, acceptor, accepted, stopper, dead, conn>>
      BY <3>1 DEF Within, server
    <3>3. \A g \in Handlers : Live(g) => Live(g)'
      BY <3>1 DEF Within, Goto, Live, Working
    <3> QED
      BY <3>2, <3>3
  <2> QED
    BY <2>2, <2>3
<1>6. CASE Stop \/ Stopper \/ ScanEnds \/ (\E k \in Sockets : PeerGoes(k))
  <2>1. UNCHANGED <<clients, acceptor, accepted, pc, conn>>
    BY <1>6 DEF Stop, Stopper, StopCloses, StopShutsDown, StopWaits, ScanEnds, PeerGoes,
                rest, server
  <2>2. stopper' = "wait" => clients \subseteq dead'
    BY <1>6 DEF Stop, Stopper, StopCloses, StopShutsDown, StopWaits, ScanEnds, PeerGoes,
                rest, server
  <2> QED
    BY <2>1, <2>2 DEF Live
<1>7. CASE UNCHANGED vars
  BY <1>7 DEF vars, Live
<1> QED
  BY <1>1, <1>2, <1>3, <1>4, <1>5, <1>6, <1>7 DEF Next

\* The safety half of StopReturns: what Stop waits for is under way and cannot
\* be held up by a client.
THEOREM StopWaitsForTheRunning == Spec => []WaitIsForRunning
<1>1. Init => ListedInv
  BY DEF Init, ListedInv
<1>2. HttpInv /\ ListedInv => WaitIsForRunning
  BY DEF HttpInv, StopInv, ListedInv, WaitIsForRunning
<1> QED
  BY <1>1, <1>2, ListedStep, HttpInvariant, PTL DEF Spec
=============================================================================
