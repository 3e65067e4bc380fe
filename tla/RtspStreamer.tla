---------------------------- MODULE RtspStreamer ----------------------------
(***************************************************************************)
(* The RTSP server (src/src/RtspStreamer.cpp): one accept thread, and per  *)
(* connection a handler thread that answers requests and a stream thread   *)
(* that it starts on PLAY and joins on PAUSE, SETUP and at the end, while  *)
(* other threads disable the service or stop the whole server.             *)
(*                                                                         *)
(* A step is what a thread does between two points where another one can   *)
(* interfere: the tests of the atomic flags, the sections of sendMutex and *)
(* m_sessionsMutex, the joins and the blocking calls. Requests arrive      *)
(* already parsed; sessions are reusable names, a name being free again    *)
(* once its finished session has been pruned or joined.                    *)
(***************************************************************************)
EXTENDS Naturals, FiniteSets

CONSTANTS Sessions,          \* names for sessions
          MaxSessions,       \* 32 in the source
          Requests           \* what clients send

Methods == {"OPTIONS", "SETUP", "PLAY", "PAUSE", "TEARDOWN", "PING", "RTCP"}

\* valid: of a SETUP, an acceptable transport; of an RTCP frame, the agreed
\* channel; of the others, the right session id.
ASSUME RtspAssumption ==
  /\ IsFiniteSet(Sessions) /\ MaxSessions \in Nat
  /\ Requests \subseteq [method : Methods, transport : {"udp", "tcp"}, valid : BOOLEAN]

VARIABLES running, enabled,  \* m_running, m_enabled
          sessions,          \* m_sessions
          acceptor,          \* the accept thread
          stopper, joinList, \* the thread in Stop and the sessions it took over
          disabling,         \* a SetEnabled(false) that has yet to interrupt
          handler, after,    \* each handler thread, and where StopStream returns
          request,           \* the request it is processing
          closing, play,     \* its locals close and play
          stream,            \* each stream thread
          session            \* the fields both threads share

vars == <<running, enabled, sessions, acceptor, stopper, joinList, disabling,
          handler, after, request, closing, play, stream, session>>

server == <<running, enabled, sessions, acceptor, stopper, joinList, disabling>>
locals == <<request, closing, play>>

Fresh == [running |-> FALSE, playing |-> FALSE, setup |-> FALSE,
          transport |-> "udp", udp |-> FALSE, tcp |-> "none",
          subscriber |-> "none", finished |-> FALSE, wire |-> "whole"]

\* What goes out on a connection, wire, is whole messages; after one that was left
\* half sent, a frame or a response, everything else is mixed into it.
Then(wire, rest) == IF wire = "whole" THEN rest ELSE "mixed"

NoRequest == [method |-> "OPTIONS", transport |-> "udp", valid |-> TRUE]

Init ==
  /\ running = TRUE /\ enabled = FALSE
  /\ sessions = {}
  /\ acceptor = "accept" /\ stopper = "none" /\ joinList = {}
  /\ disabling = FALSE
  /\ handler = [s \in Sessions |-> "none"]
  /\ after = [s \in Sessions |-> "none"]
  /\ request = [s \in Sessions |-> NoRequest]
  /\ closing = [s \in Sessions |-> FALSE]
  /\ play = [s \in Sessions |-> FALSE]
  /\ stream = [s \in Sessions |-> "none"]
  /\ session = [s \in Sessions |-> Fresh]

Goto(s, pc) == handler' = [handler EXCEPT ![s] = pc]
StreamGoto(s, pc) == stream' = [stream EXCEPT ![s] = pc]

\* Interrupt: the flag, and a shutdown of the socket if it is still there.
Interrupted(x) == [x EXCEPT !.running = FALSE,
                            !.tcp = IF @ = "up" THEN "down" ELSE @]

-----------------------------------------------------------------------------
(* The accept thread *)

\* accept() returns a connection.
Accept ==
  /\ acceptor = "accept" /\ running
  /\ acceptor' = "accepted"
  /\ UNCHANGED <<running, enabled, sessions, stopper, joinList, disabling,
                 handler, after, locals, stream, session>>

\* accept() fails, because Stop closed the listening socket or for any other
\* reason: the loop ends.
AcceptFails ==
  /\ acceptor = "accept"
  /\ acceptor' = "done"
  /\ UNCHANGED <<running, enabled, sessions, stopper, joinList, disabling,
                 handler, after, locals, stream, session>>

Pruned == {s \in sessions : session[s].finished}

FreeNames == Sessions \ (sessions \cup joinList)

\* Under m_sessionsMutex: join and forget finished sessions, then take the
\* connection in, or close it when stopping, when full, or without a thread.
Register ==
  LET kept == sessions \ Pruned IN
  /\ acceptor = "accepted"
  /\ acceptor' = IF running THEN "accept" ELSE "done"
  /\ \/ /\ running /\ Cardinality(kept) < MaxSessions
        /\ \E s \in FreeNames \cup Pruned :
             /\ sessions' = kept \cup {s}
             /\ session' = [session EXCEPT ![s] =
                              [Fresh EXCEPT !.running = TRUE, !.tcp = "up"]]
             /\ Goto(s, "check")
             /\ closing' = [closing EXCEPT ![s] = FALSE]
             /\ play' = [play EXCEPT ![s] = FALSE]
     \/ /\ sessions' = kept
        /\ UNCHANGED <<session, handler, closing, play>>
  /\ UNCHANGED <<running, enabled, stopper, joinList, disabling, after, request, stream>>

-----------------------------------------------------------------------------
(* StopStream, called by the handler: after says where it goes on *)

CallStop(s, next) ==
  /\ Goto(s, "stop")
  /\ after' = [after EXCEPT ![s] = next]

StopStream(s) ==
  /\ handler[s] = "stop"
  /\ session' = [session EXCEPT ![s].playing = FALSE,
                                ![s].subscriber = IF @ = "open" THEN "stopped" ELSE @]
  /\ Goto(s, "join")
  /\ UNCHANGED <<server, after, locals, stream>>

StreamOver(s) == stream[s] \in {"none", "ended"}

JoinStream(s) ==
  /\ handler[s] = "join"
  /\ StreamOver(s)
  /\ StreamGoto(s, "none")
  /\ session' = [session EXCEPT ![s].subscriber = "none"]
  /\ Goto(s, after[s])
  /\ after' = [after EXCEPT ![s] = "none"]
  /\ UNCHANGED <<server, locals>>

-----------------------------------------------------------------------------
(* The handler thread *)

\* Variant: a loop that looks at close alone.
RunsOn(s) == TRUE

MayRun(s) == running /\ session[s].running

\* The loop test. A request that is already buffered is taken without a wait.
Check(s) ==
  /\ handler[s] = "check"
  /\ IF MayRun(s) /\ ~closing[s]
     THEN \/ Goto(s, "wait") /\ UNCHANGED request
          \/ \E r \in Requests : /\ request' = [request EXCEPT ![s] = r]
                                 /\ Goto(s, "process")
     ELSE Goto(s, "exit") /\ UNCHANGED request
  /\ UNCHANGED <<server, after, closing, play, stream, session>>

\* select with its interval of 250 ms, after which the flags are looked at.
Wait(s) ==
  /\ handler[s] = "wait"
  /\ Goto(s, IF MayRun(s) THEN "check" ELSE "exit")
  /\ UNCHANGED <<server, after, locals, stream, session>>

Receive(s) ==
  /\ handler[s] = "wait"
  /\ MayRun(s) /\ session[s].tcp = "up"
  /\ \E r \in Requests : request' = [request EXCEPT ![s] = r]
  /\ Goto(s, "process")
  /\ UNCHANGED <<server, after, closing, play, stream, session>>

\* A request that has been dealt with is not looked at again.
Forget(s) == request' = [request EXCEPT ![s] = NoRequest]

\* The peer has gone, sends what cannot be parsed, or is idle for too long.
GiveUp(s) ==
  /\ handler[s] \in {"wait", "process"}
  /\ Goto(s, "exit") /\ Forget(s)
  /\ UNCHANGED <<server, after, closing, play, stream, session>>

NeedsSession(r) == r.method \in {"PLAY", "PAUSE", "TEARDOWN", "PING"}

WrongSession(s) ==
  NeedsSession(request[s]) /\ (~session[s].setup \/ ~request[s].valid)

\* ProcessRtspRequest up to its first StopStream, in the order of its tests.
Process(s) ==
  LET r == request[s]
      respond(c, p) == /\ Goto(s, "respond")
                       /\ closing' = [closing EXCEPT ![s] = c]
                       /\ play' = [play EXCEPT ![s] = p]
                       /\ Forget(s) /\ UNCHANGED after
  IN /\ handler[s] = "process"
     /\ \/ /\ r.method = "RTCP"
           /\ Goto(s, IF session[s].setup /\ r.valid THEN "check" ELSE "exit")
           /\ Forget(s) /\ UNCHANGED <<after, closing, play>>
        \/ /\ r.method # "RTCP"
           /\ \/ WrongSession(s) \/ (r.method = "SETUP" /\ session[s].playing)
           /\ respond(FALSE, FALSE)
        \/ /\ r.method # "RTCP" /\ ~WrongSession(s)
           /\ ~(r.method = "SETUP" /\ session[s].playing)
           /\ IF ~enabled THEN respond(TRUE, FALSE)
              ELSE \/ r.method \in {"OPTIONS", "PING"} /\ respond(FALSE, FALSE)
                   \/ r.method = "TEARDOWN" /\ respond(TRUE, FALSE)
                   \/ r.method = "PLAY" /\ respond(FALSE, TRUE)
                   \/ /\ r.method \in {"SETUP", "PAUSE"}
                      /\ CallStop(s, IF r.method = "SETUP" THEN "setup" ELSE "respond")
                      /\ play' = [play EXCEPT ![s] = FALSE]
                      /\ UNCHANGED <<request, closing>>
     /\ UNCHANGED <<server, stream, session>>

\* The rest of SETUP: the old UDP sockets go, the new transport is agreed on,
\* refused (461) or cannot get its ports (500).
Setup(s) ==
  LET r == request[s] IN
  /\ handler[s] = "setup"
  /\ \E granted \in {TRUE, FALSE} :
       /\ granted => r.valid
       /\ ~granted => ~r.valid \/ r.transport = "udp"
       /\ session' = [session EXCEPT ![s].transport = r.transport,
                                     ![s].setup = granted,
                                     ![s].udp = granted /\ r.transport = "udp"]
  /\ Goto(s, "respond") /\ Forget(s)
  /\ UNCHANGED <<server, after, closing, play, stream>>

SendFree(s) == handler[s] # "sending" /\ stream[s] # "sending"

Respond(s) ==
  /\ handler[s] = "respond"
  /\ SendFree(s)
  /\ Goto(s, "sending")
  /\ UNCHANGED <<server, after, locals, stream, session>>

\* send gets through, or fails on a dead connection or after two seconds, with
\* nothing or only a part of the response sent.
Sent(s) ==
  /\ handler[s] = "sending"
  /\ \/ /\ session[s].tcp = "up"
        /\ session' = [session EXCEPT ![s].wire = Then(@, "whole")]
        /\ UNCHANGED closing
     \/ /\ \/ UNCHANGED session
           \/ session' = [session EXCEPT ![s].wire = Then(@, "response")]
        /\ closing' = [closing EXCEPT ![s] = TRUE]
  /\ Goto(s, "answered")
  /\ UNCHANGED <<server, after, request, play, stream>>

StartsStream(s) == play[s] /\ ~closing[s] /\ ~session[s].playing

Answered(s) ==
  /\ handler[s] = "answered"
  /\ play' = [play EXCEPT ![s] = FALSE]
  /\ IF StartsStream(s)
     THEN CallStop(s, "start")
     ELSE Goto(s, "check") /\ UNCHANGED after
  /\ UNCHANGED <<server, request, closing, stream, session>>

\* A new subscriber and a new stream thread; without a thread the exception
\* ends the session.
StartStream(s) ==
  /\ handler[s] = "start"
  /\ session' = [session EXCEPT ![s].subscriber = "open", ![s].playing = TRUE]
  /\ \/ StreamGoto(s, "loop") /\ Goto(s, "check")
     \/ Goto(s, "exit") /\ UNCHANGED stream
  /\ UNCHANGED <<server, after, locals>>

\* Variant: a session that ends leaves its stream thread alone.
ExitsAtOnce(s) == Goto(s, "close") /\ UNCHANGED after

ExitsThrough(s) == CallStop(s, "close")

Exit(s) ==
  /\ handler[s] = "exit"
  /\ session' = [session EXCEPT ![s] = Interrupted(@)]
  /\ ExitsThrough(s)
  /\ UNCHANGED <<server, locals, stream>>

Close(s) ==
  /\ handler[s] = "close"
  /\ session' = [session EXCEPT ![s].tcp = "closed", ![s].udp = FALSE,
                                ![s].finished = TRUE, ![s].wire = "whole"]
  /\ Goto(s, "done")
  /\ UNCHANGED <<server, after, locals, stream>>

-----------------------------------------------------------------------------
(* The stream thread *)

\* Variant: the stream does not look at its own isPlaying.
GoesOnAnyway(s) == running /\ enabled /\ session[s].running

GoesOn(s) == running /\ enabled /\ session[s].running /\ session[s].playing

StreamTest(s) ==
  /\ stream[s] = "loop"
  /\ StreamGoto(s, IF GoesOn(s) THEN "pop" ELSE "end")
  /\ UNCHANGED <<server, handler, after, locals, session>>

\* PopData: data, or nothing within 100 ms or because the subscriber stopped.
StreamPop(s) ==
  /\ stream[s] = "pop"
  /\ \/ session[s].subscriber = "open" /\ StreamGoto(s, "have")
     \/ StreamGoto(s, "loop")
  /\ UNCHANGED <<server, handler, after, locals, session>>

\* The flags once more, then the datagram or the wait for sendMutex.
StreamSend(s) ==
  /\ stream[s] = "have"
  /\ \/ /\ ~(session[s].playing /\ session[s].running)
        /\ StreamGoto(s, "end")
     \/ /\ session[s].playing /\ session[s].running
        /\ session[s].transport = "udp"
        /\ \/ StreamGoto(s, "loop")
           \/ StreamGoto(s, "end")
     \/ /\ session[s].playing /\ session[s].running
        /\ session[s].transport = "tcp"
        /\ StreamGoto(s, "frame")
  /\ UNCHANGED <<server, handler, after, locals, session>>

StreamLock(s) ==
  /\ stream[s] = "frame"
  /\ SendFree(s)
  /\ StreamGoto(s, "sending")
  /\ UNCHANGED <<server, handler, after, locals, session>>

\* send takes a part of the frame; the loop looks at the flags and goes on.
StreamPart(s) ==
  /\ stream[s] = "sending" /\ session[s].tcp = "up"
  /\ session[s].wire # "frame"
  /\ session' = [session EXCEPT ![s].wire = Then(@, "frame")]
  /\ UNCHANGED <<server, handler, after, locals, stream>>

\* Variant: a send that fails only ends the frame.
OnlyFrameOver(x) == x

\* A send that fails ends the session.
SessionOver(x) == [x EXCEPT !.running = FALSE]

\* The frame is through, or it is left where it is, for a flag or for a send that
\* fails; sendMutex is free again.
StreamSent(s) ==
  /\ stream[s] = "sending"
  /\ StreamGoto(s, "loop")
  /\ \/ /\ session[s].tcp = "up"
        /\ session' = [session EXCEPT ![s].wire =
                         IF @ = "frame" THEN "whole" ELSE Then(@, "whole")]
     \/ ~MayRun(s) /\ UNCHANGED session
     \/ session' = [session EXCEPT ![s] = SessionOver(@)]
  /\ UNCHANGED <<server, handler, after, locals>>

StreamEnd(s) ==
  /\ stream[s] = "end"
  /\ session' = [session EXCEPT ![s].playing = FALSE]
  /\ StreamGoto(s, "ended")
  /\ UNCHANGED <<server, handler, after, locals>>

-----------------------------------------------------------------------------
(* SetEnabled and Stop, from other threads *)

Enable ==
  /\ enabled' = TRUE
  /\ UNCHANGED <<running, sessions, acceptor, stopper, joinList, disabling,
                 handler, after, locals, stream, session>>

Disable ==
  /\ ~disabling
  /\ enabled' = FALSE /\ disabling' = TRUE
  /\ UNCHANGED <<running, sessions, acceptor, stopper, joinList,
                 handler, after, locals, stream, session>>

\* Variant: the sessions are left to notice by themselves.
NobodyInterrupted == {}

ToInterrupt == sessions

DisableInterrupts ==
  /\ disabling
  /\ disabling' = FALSE
  /\ session' = [s \in Sessions |-> IF s \in ToInterrupt THEN Interrupted(session[s])
                                    ELSE session[s]]
  /\ UNCHANGED <<running, enabled, sessions, acceptor, stopper, joinList,
                 handler, after, locals, stream>>

Stop ==
  /\ stopper = "none" /\ running
  /\ running' = FALSE
  /\ stopper' = "joinAccept"
  /\ UNCHANGED <<enabled, sessions, acceptor, joinList, disabling,
                 handler, after, locals, stream, session>>

\* Variant: the sessions are taken over without waiting for the accept thread.
AcceptorIgnored == TRUE

AcceptorOver == acceptor = "done"

StopTakesSessions ==
  /\ stopper = "joinAccept" /\ AcceptorOver
  /\ joinList' = sessions /\ sessions' = {}
  /\ stopper' = "interrupt"
  /\ UNCHANGED <<running, enabled, acceptor, disabling, handler, after, locals,
                 stream, session>>

StopInterrupts ==
  /\ stopper = "interrupt"
  /\ session' = [s \in Sessions |-> IF s \in joinList THEN Interrupted(session[s])
                                    ELSE session[s]]
  /\ stopper' = "joinHandlers"
  /\ UNCHANGED <<running, enabled, sessions, acceptor, joinList, disabling,
                 handler, after, locals, stream>>

StopJoins ==
  /\ stopper = "joinHandlers"
  /\ \A s \in joinList : handler[s] = "done"
  /\ stopper' = "stopped" /\ joinList' = {}
  /\ UNCHANGED <<running, enabled, sessions, acceptor, disabling,
                 handler, after, locals, stream, session>>

-----------------------------------------------------------------------------
Handler(s) == \/ Check(s) \/ Wait(s) \/ Process(s) \/ Setup(s)
              \/ Respond(s) \/ Sent(s) \/ Answered(s) \/ StartStream(s)
              \/ StopStream(s) \/ JoinStream(s) \/ Exit(s) \/ Close(s)

Stream(s) == \/ StreamTest(s) \/ StreamPop(s) \/ StreamSend(s)
             \/ StreamLock(s) \/ StreamPart(s) \/ StreamSent(s) \/ StreamEnd(s)

Stopper == StopTakesSessions \/ StopInterrupts \/ StopJoins

Next == \/ Accept \/ AcceptFails \/ Register
        \/ \E s \in Sessions : Handler(s) \/ Receive(s) \/ GiveUp(s) \/ Stream(s)
        \/ Enable \/ Disable \/ DisableInterrupts
        \/ Stop \/ Stopper

Spec == Init /\ [][Next]_vars

\* Every thread runs, and every blocking call of a handler or stream thread has
\* a limit (select 250 ms, PopData 100 ms, send 2 s). A closed listening socket
\* ends accept. Requests, connections and commands need not come.
Fairness == /\ \A s \in Sessions : WF_vars(Handler(s)) /\ WF_vars(Stream(s))
            /\ WF_vars(Register) /\ WF_vars(~running /\ AcceptFails)
            /\ WF_vars(DisableInterrupts) /\ WF_vars(Stopper)

LiveSpec == Spec /\ Fairness

-----------------------------------------------------------------------------
(* Properties *)

HandlerStates == {"none", "check", "wait", "process", "setup", "respond", "sending",
                  "answered", "start", "stop", "join", "exit", "close", "done"}
StreamStates == {"none", "loop", "pop", "have", "frame", "sending", "end", "ended"}

\* Types; a session is in one list at most.
TypeOK ==
  /\ running \in BOOLEAN /\ enabled \in BOOLEAN /\ disabling \in BOOLEAN
  /\ sessions \subseteq Sessions /\ joinList \subseteq Sessions \ sessions
  /\ acceptor \in {"accept", "accepted", "done"}
  /\ stopper \in {"none", "joinAccept", "interrupt", "joinHandlers", "stopped"}
  /\ handler \in [Sessions -> HandlerStates]
  /\ after \in [Sessions -> {"none", "setup", "respond", "start", "close"}]
  /\ request \in [Sessions -> Requests \cup {NoRequest}]
  /\ closing \in [Sessions -> BOOLEAN] /\ play \in [Sessions -> BOOLEAN]
  /\ stream \in [Sessions -> StreamStates]
  /\ session \in [Sessions -> [running : BOOLEAN, playing : BOOLEAN, setup : BOOLEAN,
                               transport : {"udp", "tcp"}, udp : BOOLEAN,
                               tcp : {"none", "up", "down", "closed"},
                               subscriber : {"none", "open", "stopped"},
                               finished : BOOLEAN,
                               wire : {"whole", "frame", "response", "mixed"}]]

Streaming(s) == stream[s] \notin {"none", "ended"}
Live(s) == handler[s] \notin {"none", "done"}

\* A stream thread never meets a socket that was closed or a subscriber that
\* was given back under it, and streams only what a SETUP agreed on. isPlaying,
\* which the client count and the 455 answer rely on, is never left set without a
\* stream thread (but in a session that is being torn down).
StreamHasItsResources ==
  \A s \in Sessions :
    /\ Streaming(s) => /\ session[s].setup
                       /\ session[s].subscriber # "none"
                       /\ session[s].tcp # "closed"
                       /\ session[s].transport = "udp" => session[s].udp
    /\ session[s].playing => Streaming(s) \/ handler[s] \in {"exit", "stop"}

Answering(s) ==
  \/ handler[s] \in {"wait", "process", "setup", "respond", "sending"}
  \/ after[s] \in {"setup", "respond"}

\* Responses and frames share a TCP connection, and each may be left half sent. A
\* response never goes into a frame that is still being sent. A frame is only cut
\* short in a session whose loops have been told to end. And once a response was
\* cut, or anything was sent behind a cut message, the handler answers nobody more:
\* at most the one response that is under way goes into a cut frame.
CutEndsSession ==
  \A s \in Sessions :
    /\ session[s].wire = "frame" =>
         (stream[s] = "sending" /\ handler[s] # "sending") \/ ~MayRun(s)
    /\ session[s].wire \in {"response", "mixed"} =>
         (~MayRun(s) \/ closing[s]) /\ ~Answering(s)

\* Every running handler thread is in a list that Stop or the accept loop
\* joins it from, and a finished session has nothing left.
NoStrayHandler ==
  \A s \in Sessions :
    /\ Live(s) => s \in sessions \cup joinList
    /\ session[s].finished => /\ ~Streaming(s) /\ session[s].subscriber = "none"
                              /\ session[s].tcp = "closed" /\ ~session[s].udp

\* When Stop returns the server is quiet: no thread, no session, no subscriber.
StoppedIsQuiet ==
  stopper = "stopped" =>
    /\ acceptor = "done" /\ sessions = {}
    /\ \A s \in Sessions : ~Live(s) /\ ~Streaming(s) /\ session[s].subscriber = "none"

\* Stop returns, whatever clients, streams and SetEnabled do meanwhile.
StopReturns == ~running ~> stopper = "stopped"

\* SetEnabled(false) ends the sessions that exist: a client that is playing when
\* the service is disabled is ended, not only starved of data.
DisableEndsPlaying ==
  \A s \in Sessions : (disabling /\ session[s].playing) ~> ~Live(s)

\* docs/source-architecture-analysis.md: PLAY starts streaming. So when PLAY has
\* been answered with 200 and the handler goes on, in a service nobody has
\* disabled or stopped, a stream is under way.
PlayStartsStreaming ==
  [][\A s \in Sessions :
       handler[s] = "answered" /\ handler'[s] = "check" /\ play[s] /\ ~closing[s]
         /\ running /\ enabled /\ ~disabling /\ session[s].running
         => stream[s] \notin {"none", "end", "ended"}]_vars

\* Every request is answered or its connection ended: the join inside PAUSE and
\* SETUP and the wait for sendMutex cannot hang. A std::mutex promises no turn to
\* a waiting thread, so this presumes that a handler is not passed over for ever
\* by its own stream, which takes the mutex for every frame.
LockIsFair(s) == SF_vars(Respond(s))

RequestsAnswered ==
  \A s \in Sessions :
    LockIsFair(s) => (handler[s] = "process") ~> (handler[s] \in {"check", "done"})
=============================================================================
