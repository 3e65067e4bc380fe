---------------------------- MODULE HttpStreamer ----------------------------
(***************************************************************************)
(* The HTTP server (src/src/HttpStreamer.cpp): an accept thread, a         *)
(* detached thread per connection, and Stop, which must not return while   *)
(* any of them still uses the object.                                      *)
(*                                                                         *)
(* Connections are socket handles, which the system hands out again as     *)
(* soon as they are closed; m_clientSockets is what Stop waits on. A       *)
(* handler reads one request and answers it; for /stream it tunes,         *)
(* subscribes to the hub and sends until something ends it. The other      *)
(* routes are one step, whose effects on the tuner and on the other        *)
(* streamers are the subject of ChannelSwitch, RtspStreamer and            *)
(* MulticastStreamer; only the start of a scan matters here.               *)
(***************************************************************************)
EXTENDS Naturals, FiniteSets

CONSTANTS Handlers,          \* names for handler threads
          Sockets,           \* socket handles
          MaxClients,        \* 64 in the source
          NoSocket,
          MaxThrows          \* bound on the queries that throw inside a stream

ASSUME HttpAssumption == /\ IsFiniteSet(Handlers) /\ IsFiniteSet(Sockets)
                         /\ MaxClients \in Nat /\ NoSocket \notin Sockets
                         /\ MaxThrows \in Nat

VARIABLES running,           \* m_running
          clients,           \* m_clientSockets
          open, dead,        \* handles that are open, and those past sending
          acceptor, accepted,\* the accept thread and the handle it has
          pc, conn,          \* each handler thread and its handle
          active,            \* m_activeClients
          members,           \* subscribers of this server in the hub
          thrown,            \* history: queries that threw inside a stream
          scanning,          \* the core scans
          stopper            \* the thread in Stop

vars == <<running, clients, open, dead, acceptor, accepted, pc, conn, active,
          members, thrown, scanning, stopper>>

Init ==
  /\ running = TRUE
  /\ clients = {} /\ open = {} /\ dead = {}
  /\ acceptor = "accept" /\ accepted = NoSocket
  /\ pc = [h \in Handlers |-> "none"]
  /\ conn = [h \in Handlers |-> NoSocket]
  /\ active = 0 /\ members = 0 /\ thrown = 0
  /\ scanning \in BOOLEAN        \* main may have started a scan
  /\ stopper = "none"

-----------------------------------------------------------------------------
(* The accept thread *)

\* The listening socket is closed by Stop's second step.
Listening == stopper \in {"none", "close"}

Accept ==
  /\ acceptor = "accept" /\ Listening
  /\ \E k \in Sockets \ open :
       /\ open' = open \cup {k} /\ dead' = dead \ {k}
       /\ accepted' = k
  /\ acceptor' = "accepted"
  /\ UNCHANGED <<running, clients, pc, conn, active, members, thrown, scanning, stopper>>

\* The listening socket is closed, or accept fails for another reason: the
\* loop ends either way.
AcceptFails ==
  /\ acceptor = "accept"
  /\ acceptor' = "done"
  /\ UNCHANGED <<running, clients, open, dead, accepted, pc, conn, active,
                 members, thrown, scanning, stopper>>

NextAccept == acceptor' = IF running THEN "accept" ELSE "done"

HasRoom == Cardinality(clients) < MaxClients

\* Under m_clientsMutex: the handle is listed, or closed when stopping or full.
Admit ==
  /\ acceptor = "accepted"
  /\ IF running /\ HasRoom
     THEN /\ clients' = clients \cup {accepted}
          /\ acceptor' = "spawn"
          /\ UNCHANGED <<open, accepted>>
     ELSE /\ open' = open \ {accepted}
          /\ accepted' = NoSocket
          /\ NextAccept /\ UNCHANGED clients
  /\ UNCHANGED <<running, dead, pc, conn, active, members, thrown, scanning, stopper>>

Spawn ==
  /\ acceptor = "spawn"
  /\ \E h \in Handlers :
       /\ pc[h] = "none"
       /\ pc' = [pc EXCEPT ![h] = "read"]
       /\ conn' = [conn EXCEPT ![h] = accepted]
  /\ accepted' = NoSocket /\ NextAccept
  /\ UNCHANGED <<running, clients, open, dead, active, members, thrown, scanning, stopper>>

\* Variant: a connection without a thread stays listed.
Kept(k) == clients

Erased(k) == clients \ {k}

\* No thread can be created.
SpawnFails ==
  /\ acceptor = "spawn"
  /\ open' = open \ {accepted} /\ clients' = Erased(accepted)
  /\ accepted' = NoSocket /\ NextAccept
  /\ UNCHANGED <<running, dead, pc, conn, active, members, thrown, scanning, stopper>>

-----------------------------------------------------------------------------
(* A handler thread *)

Goto(h, next) == pc' = [pc EXCEPT ![h] = next]

server == <<running, clients, acceptor, accepted, stopper>>

Alive(h) == conn[h] \notin dead

\* The request is complete within 5 s, or the connection is given up.
Read(h) ==
  /\ pc[h] = "read"
  /\ \/ Alive(h) /\ Goto(h, "api")
     \/ Alive(h) /\ Goto(h, "route")
     \/ Goto(h, "finish")
  /\ UNCHANGED <<server, open, dead, conn, active, members, thrown, scanning>>

\* Every route but /stream: a response, or an exception and none.
Api(h) ==
  /\ pc[h] = "api"
  /\ scanning' \in {scanning, TRUE}
  /\ Goto(h, "finish")
  /\ UNCHANGED <<server, open, dead, conn, active, members, thrown>>

\* /stream: 409 during a scan, 400 for a bad channel, or an exception.
Route(h) ==
  /\ pc[h] = "route"
  /\ \/ ~scanning /\ Goto(h, "tune")
     \/ Goto(h, "finish")
  /\ UNCHANGED <<server, open, dead, conn, active, members, thrown, scanning>>

\* The core tunes, or refuses (503), which it does during a scan.
Tune(h) ==
  /\ pc[h] = "tune"
  /\ \/ ~scanning /\ Goto(h, "first") /\ members' = members + 1
     \/ Goto(h, "finish") /\ UNCHANGED members
  /\ UNCHANGED <<server, open, dead, conn, active, thrown, scanning>>

\* The first packets within 5 s, or RemoveSubscriber and 503.
First(h) ==
  /\ pc[h] = "first"
  /\ \/ Goto(h, "header") /\ UNCHANGED members
     \/ Goto(h, "finish") /\ members' = members - 1
  /\ UNCHANGED <<server, open, dead, conn, active, thrown, scanning>>

\* Variant: a client that takes no header keeps its subscriber.
SubscriberKept == members

SubscriberRemoved == members - 1

\* The response header, after which the client counts as active.
Header(h) ==
  /\ pc[h] = "header"
  /\ \/ /\ Alive(h)
        /\ active' = active + 1
        /\ Goto(h, "test") /\ UNCHANGED members
     \/ /\ members' = SubscriberRemoved
        /\ Goto(h, "finish") /\ UNCHANGED active
  /\ UNCHANGED <<server, open, dead, conn, thrown, scanning>>

MayStream == running /\ ~scanning

Test(h) ==
  /\ pc[h] = "test"
  /\ Goto(h, IF MayStream THEN "send" ELSE "over")
  /\ UNCHANGED <<server, open, dead, conn, active, members, thrown, scanning>>

Holding(h) == pc[h] \in {"first", "header", "test", "send", "pop", "over"}
Streaming(h) == pc[h] \in {"test", "send", "pop", "over"}

\* The query throws inside the loop, and the exception leaves StreamTsToClient
\* and HandleClient at once.
TestThrows(h) ==
  /\ pc[h] = "test" /\ running
  /\ thrown < MaxThrows
  /\ thrown' = thrown + 1
  /\ Goto(h, "finish")
  /\ UNCHANGED <<server, open, dead, conn, active, members, scanning>>

\* Variant: a failed send is tried again with the next packets.
SendsOn(h) == "pop"

SendFailed(h) == "over"

\* SendAll: everything is sent, or a send fails or takes more than 5 s.
Send(h) ==
  /\ pc[h] = "send"
  /\ \/ Alive(h) /\ Goto(h, "pop")
     \/ Goto(h, SendFailed(h))
  /\ UNCHANGED <<server, open, dead, conn, active, members, thrown, scanning>>

\* More packets within 2 s.
Pop(h) ==
  /\ pc[h] = "pop"
  /\ Goto(h, "test") \/ Goto(h, "over")
  /\ UNCHANGED <<server, open, dead, conn, active, members, thrown, scanning>>

Over(h) ==
  /\ pc[h] = "over"
  /\ members' = members - 1 /\ active' = active - 1
  /\ Goto(h, "finish")
  /\ UNCHANGED <<server, open, dead, conn, thrown, scanning>>

\* Variant: the handle is closed before m_clientsMutex is taken, so that the
\* system may give it to a new connection first.
ClosedFirst(h) == open \ (IF pc[h] = "finish" THEN {conn[h]} ELSE {})

ClosedUnderLock(h) == open

\* The wait for m_clientsMutex.
Finish(h) ==
  /\ pc[h] = "finish"
  /\ open' = ClosedUnderLock(h)
  /\ Goto(h, "locked")
  /\ UNCHANGED <<server, dead, conn, active, members, thrown, scanning>>

\* Under m_clientsMutex: closed, no longer listed, and Stop is told.
Leave(h) ==
  /\ pc[h] = "locked"
  /\ open' = open \ {conn[h]}
  /\ clients' = clients \ {conn[h]}
  /\ conn' = [conn EXCEPT ![h] = NoSocket]
  /\ Goto(h, "none")
  /\ UNCHANGED <<running, dead, acceptor, accepted, active, members, thrown, scanning, stopper>>

-----------------------------------------------------------------------------
(* The surroundings and Stop *)

PeerGoes(k) ==
  /\ k \in open \ dead
  /\ dead' = dead \cup {k}
  /\ UNCHANGED <<server, open, pc, conn, active, members, thrown, scanning>>

ScanEnds ==
  /\ scanning /\ scanning' = FALSE
  /\ UNCHANGED <<server, open, dead, pc, conn, active, members, thrown>>

rest == <<clients, open, acceptor, accepted, pc, conn, active, members, thrown, scanning>>

Stop ==
  /\ stopper = "none" /\ running
  /\ running' = FALSE /\ stopper' = "close"
  /\ UNCHANGED <<rest, dead>>

StopCloses ==
  /\ stopper = "close" /\ stopper' = "join"
  /\ UNCHANGED <<rest, running, dead>>

\* Variant: the accept thread is not waited for.
AcceptorIgnored == TRUE

AcceptorOver == acceptor = "done"

\* join, then shutdown of every listed socket under m_clientsMutex.
StopShutsDown ==
  /\ stopper = "join" /\ AcceptorOver
  /\ dead' = dead \cup clients
  /\ stopper' = "wait"
  /\ UNCHANGED <<rest, running>>

\* m_clientsCv.wait.
StopWaits ==
  /\ stopper = "wait" /\ clients = {}
  /\ stopper' = "stopped"
  /\ UNCHANGED <<rest, running, dead>>

-----------------------------------------------------------------------------
Handler(h) == \/ Read(h) \/ Api(h) \/ Route(h) \/ Tune(h) \/ First(h) \/ Header(h)
              \/ Test(h) \/ TestThrows(h) \/ Send(h) \/ Pop(h) \/ Over(h)
              \/ Finish(h) \/ Leave(h)

Stopper == StopCloses \/ StopShutsDown \/ StopWaits

Next == \/ Accept \/ AcceptFails \/ Admit \/ Spawn \/ SpawnFails
        \/ \E h \in Handlers : Handler(h)
        \/ \E k \in Sockets : PeerGoes(k)
        \/ ScanEnds
        \/ Stop \/ Stopper

Spec == Init /\ [][Next]_vars

\* Every thread runs and all its blocking calls have limits (recv and send 5 s,
\* PopData 5 s and 2 s); accept returns when its socket is closed. Clients,
\* scans and Stop need not come.
LiveSpec == /\ Spec
            /\ \A h \in Handlers : WF_vars(Handler(h))
            /\ WF_vars(Admit \/ Spawn \/ SpawnFails)
            /\ WF_vars(~Listening /\ AcceptFails)
            /\ WF_vars(Stopper)

-----------------------------------------------------------------------------
(* Properties *)

Working == {"read", "api", "route", "tune", "first", "header", "test", "send",
            "pop", "over", "finish", "locked"}
Live(h) == pc[h] # "none"

\* Types, and the limit on connections.
TypeOK ==
  /\ running \in BOOLEAN /\ scanning \in BOOLEAN
  /\ open \subseteq Sockets /\ dead \subseteq Sockets /\ clients \subseteq Sockets
  /\ Cardinality(clients) <= MaxClients
  /\ acceptor \in {"accept", "accepted", "spawn", "done"}
  /\ accepted \in Sockets \cup {NoSocket}
  /\ pc \in [Handlers -> Working \cup {"none"}]
  /\ conn \in [Handlers -> Sockets \cup {NoSocket}]
  /\ active \in Nat /\ members \in Nat /\ thrown \in 0..MaxThrows
  /\ stopper \in {"none", "close", "join", "wait", "stopped"}

\* A handler has its connection to itself while it works on it, and Stop finds
\* it in the list: a handle that was closed and given out again never gets two
\* users, and the erase of the one never hides the other.
ConnectionsListed ==
  \A h \in Handlers :
    Live(h) => /\ conn[h] \in clients \cap open
               /\ conn[h] # accepted
               /\ \A g \in Handlers \ {h} : conn[g] # conn[h]

\* When Stop returns no thread is left that uses the server (the comment in Stop:
\* detached threads use this, so the object is kept until the last has gone).
StoppedIsQuiet ==
  stopper = "stopped" => acceptor = "done" /\ open = {} /\ \A h \in Handlers : ~Live(h)

\* A client that left is not counted and not subscribed any more, whichever way
\* it left but one: a query to the core that throws inside its stream.
CountsMatch ==
  /\ active = Cardinality({h \in Handlers : Streaming(h)}) + thrown
  /\ members = Cardinality({h \in Handlers : Holding(h)}) + thrown

\* The comment in StreamTsToClient: the subscriber is removed from the hub when
\* the connection ends.
SubscribersReturned == members <= Cardinality({h \in Handlers : Holding(h)})

\* Stop returns, whatever clients do.
StopReturns == ~running ~> stopper = "stopped"

\* A stream whose client has gone ends, though the tuner keeps delivering.
DeadClientsGo == \A h \in Handlers : (Streaming(h) /\ ~Alive(h)) ~> ~Streaming(h)

\* A scan that goes on gets all streams off the tuner.
ScanStopsStreams == <>[]scanning => <>[](\A h \in Handlers : ~Streaming(h))

\* Streams end when they should: both of the above.
StreamsEnd == DeadClientsGo /\ ScanStopsStreams
=============================================================================
