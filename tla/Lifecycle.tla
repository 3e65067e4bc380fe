------------------------------ MODULE Lifecycle ------------------------------
(***************************************************************************)
(* The process from start to end, over ChannelSwitch: main (src/src/       *)
(* main.cpp) creates the parts, starts them one after the other, has the   *)
(* core scan or restore the last broadcast while HTTP threads already      *)
(* command it too, waits in the tray's message loop, stops everything in   *)
(* an order of its own and destroys it. A start may fail or throw on the   *)
(* way; what was started by then is stopped by main or by its destructor.  *)
(*                                                                         *)
(* Main is one of the threads that send commands. That the Stop of each    *)
(* part returns is shown in the module of that part.                       *)
(***************************************************************************)
EXTENDS ChannelSwitch

CONSTANTS Main,              \* main's thread, one of the Commanders
          Failing            \* the parts whose start may fail or throw

Parts == {"udp", "rtp", "rtsp", "http"}

ASSUME MainAssumption == Main \in Commanders /\ Failing \subseteq Parts

HttpThreads == Commanders \ {Main}

VARIABLES main,              \* place in Order
          part,              \* m_running of each part, and its thread
          handler,           \* HTTP threads: none, admitted, or have sent their command
          tray,              \* TrayApp::m_running
          quit               \* WM_QUIT is in main's message queue

process == <<main, part, handler, tray, quit>>
lifeVars == <<vars, process>>

\* Variant: the scanner is shut down before the HTTP server is closed.
ScannerFirst ==
  <<"load", "initialize", "udp", "rtp", "rtsp", "http", "resume", "tray", "loop",
    "shutdown", "close http", "join http", "stop rtsp", "stop rtp", "stop udp", "stop",
    "destroy http", "destroy rtsp", "destroy rtp", "destroy udp", "destroy core",
    "destroy hub", "over">>

Order ==
  <<"load", "initialize", "udp", "rtp", "rtsp", "http", "resume", "tray", "loop",
    "close http", "join http", "shutdown", "stop rtsp", "stop rtp", "stop udp", "stop",
    "destroy http", "destroy rtsp", "destroy rtp", "destroy udp", "destroy core",
    "destroy hub", "over">>

Place(step) == CHOOSE i \in DOMAIN Order : Order[i] = step
At(step) == Order[main] = step
Past(step) == main > Place(step)

GoOn == main' = main + 1
GoTo(step) == main' = Place(step)

LifeInit ==
  /\ Init
  /\ main = 1
  /\ part = [p \in Parts |-> "off"]
  /\ handler = [c \in HttpThreads |-> "none"]
  /\ tray = FALSE /\ quit = FALSE

-----------------------------------------------------------------------------
(* main's own commands *)

MainCalls ==
  /\ \/ \E op \in {"load", "initialize", "shutdown", "stop"} : At(op) /\ Call(Main, op, "none")
     \/ At("resume") /\ Call(Main, "scan", "none")
     \/ At("resume") /\ \E b \in Broadcasts : Call(Main, "restore", b)
  /\ UNCHANGED <<sent, process>>

\* A command that fails is passed over, but for the loading of the channels.
MainReturns ==
  /\ \/ Execute(Main) \/ ResetHub(Main)
     \/ ~At("load") /\ ExecuteFails(Main)
  /\ main' = IF thread'[Main].at = "idle" THEN main + 1 ELSE main
  /\ UNCHANGED <<part, handler, tray, quit>>

\* Whoever leaves Run, by a return or by an exception, passes the destructors.
LeaveRun == GoTo("destroy http")

LoadFails ==
  /\ At("load") /\ ExecuteFails(Main)
  /\ LeaveRun
  /\ UNCHANGED <<part, handler, tray, quit>>

\* No channels are stored, and --no-scan.
NothingToResume ==
  /\ At("resume") /\ thread[Main].at = "idle"
  /\ GoOn
  /\ UNCHANGED <<vars, part, handler, tray, quit>>

-----------------------------------------------------------------------------
(* Start-up and shutdown *)

\* "up": m_running is set and the part's thread runs.
Start(p) ==
  /\ At(p)
  /\ part' = [part EXCEPT ![p] = "up"]
  /\ GoOn
  /\ UNCHANGED <<vars, handler, tray, quit>>

\* Without UDP main returns, without HTTP it first stops what it has started.
StartFails(p) ==
  /\ At(p) /\ p \in Failing
  /\ CASE p = "udp" -> LeaveRun
       [] p = "http" -> GoTo("stop rtsp")
       [] OTHER -> GoOn
  /\ UNCHANGED <<vars, part, handler, tray, quit>>

\* The thread cannot be created, m_running is set already: the exception leaves
\* Run and is caught in main.
StartThrows(p) ==
  /\ At(p) /\ p \in Failing
  /\ part' = [part EXCEPT ![p] = "threadless"]
  /\ LeaveRun
  /\ UNCHANGED <<vars, handler, tray, quit>>

\* Without a window the message loop ends before it has begun.
InitializeTray ==
  /\ At("tray")
  /\ tray' \in BOOLEAN
  /\ GoOn
  /\ UNCHANGED <<vars, part, handler, quit>>

\* Variant: the loop looks only at the tray.
TrayGone == ~tray

LoopOver == ~tray \/ quit

RunMessageLoop ==
  /\ At("loop") /\ LoopOver
  /\ GoOn
  /\ UNCHANGED <<vars, part, handler, tray, quit>>

Off(p) == part' = [part EXCEPT ![p] = "off"]

CloseHttp ==
  /\ At("close http")
  /\ Off("http")
  /\ GoOn
  /\ UNCHANGED <<vars, handler, tray, quit>>

HandlersGone == \A c \in HttpThreads : handler[c] = "none"

JoinHttp ==
  /\ At("join http") /\ HandlersGone
  /\ GoOn
  /\ UNCHANGED <<vars, part, handler, tray, quit>>

\* The Stop of each streamer; it returns at once where the start had failed.
StopStreamer ==
  /\ \/ At("stop rtsp") /\ Off("rtsp")
     \/ At("stop rtp") /\ Off("rtp")
     \/ At("stop udp") /\ Off("udp")
  /\ GoOn
  /\ UNCHANGED <<vars, handler, tray, quit>>

\* Variant: a destructor that leaves its part as it is.
EmptyDestructor(p) == UNCHANGED part

\* Every destructor calls Stop, which does nothing if that has been done.
Destructor(p) == Off(p) /\ (p = "http" => HandlersGone)

DestroyPart ==
  /\ \/ At("destroy http") /\ Destructor("http")
     \/ At("destroy rtsp") /\ Destructor("rtsp")
     \/ At("destroy rtp") /\ Destructor("rtp")
     \/ At("destroy udp") /\ Destructor("udp")
  /\ GoOn
  /\ UNCHANGED <<vars, handler, tray, quit>>

\* stc_destroy: the core ends its scan, its reception and its thread.
DestroyCore ==
  /\ At("destroy core")
  /\ receiving' = FALSE /\ scanning' = FALSE
  /\ GoOn
  /\ UNCHANGED <<broadcast, thread, switched, missed, window, label, sent,
                 part, handler, tray, quit>>

DestroyHub ==
  /\ At("destroy hub")
  /\ GoOn
  /\ UNCHANGED <<vars, part, handler, tray, quit>>

-----------------------------------------------------------------------------
(* HTTP threads *)

Admit(c) ==
  /\ part["http"] = "up" /\ handler[c] = "none"
  /\ handler' = [handler EXCEPT ![c] = "admitted"]
  /\ UNCHANGED <<vars, main, part, tray, quit>>

Command(c) ==
  /\ handler[c] = "admitted"
  /\ \E op \in Ops, b \in Broadcasts : Send(c, op, b)
  /\ handler' = [handler EXCEPT ![c] = "served"]
  /\ UNCHANGED <<main, part, tray, quit>>

Leave(c) ==
  /\ handler[c] # "none" /\ thread[c].at = "idle"
  /\ handler' = [handler EXCEPT ![c] = "none"]
  /\ UNCHANGED <<vars, main, part, tray, quit>>

-----------------------------------------------------------------------------
(* The user *)

\* The menu of the tray icon, which main serves in its loop: TrayApp::Stop.
Exit ==
  /\ At("loop") /\ tray
  /\ tray' = FALSE
  /\ UNCHANGED <<vars, main, part, handler, quit>>

\* ConsoleCtrlHandler, on a thread of the system's. main's queue is there from the
\* beginning, so that the message is kept until the loop.
Interrupt ==
  /\ ~At("over")
  /\ quit' = TRUE
  /\ UNCHANGED <<vars, main, part, handler, tray>>

-----------------------------------------------------------------------------
MainSteps ==
  \/ MainCalls \/ MainReturns \/ LoadFails \/ NothingToResume
  \/ \E p \in Parts : Start(p) \/ StartFails(p) \/ StartThrows(p)
  \/ InitializeTray \/ RunMessageLoop \/ CloseHttp \/ JoinHttp
  \/ StopStreamer \/ DestroyPart \/ DestroyCore \/ DestroyHub

Serves(c) == Carry(c) /\ UNCHANGED process

CoreSteps == OnTs \/ ScanEnds

\* Threads that take from the hub: of the streamers, and for HTTP clients.
Clients == /\ \/ \E p \in Parts : part[p] = "up"
              \/ \E c \in HttpThreads : handler[c] # "none"
           /\ \E n \in 1..Capacity : PopData(n)

LifeNext ==
  \/ MainSteps
  \/ \E c \in HttpThreads : Admit(c) \/ Command(c) \/ Serves(c) \/ Leave(c)
  \/ (CoreSteps \/ Clients) /\ UNCHANGED process
  \/ Exit \/ Interrupt

\* Threads of the process run, a command is carried out, and a scan ends.
LifeFairness ==
  /\ WF_lifeVars(MainSteps)
  /\ WF_lifeVars(ScanEnds /\ UNCHANGED process)
  /\ \A c \in HttpThreads : WF_lifeVars(Serves(c) \/ Leave(c))

LifeSpec == LifeInit /\ [][LifeNext]_lifeVars /\ LifeFairness

-----------------------------------------------------------------------------
(* Properties *)

LifeTypeOK ==
  /\ TypeOK
  /\ main \in DOMAIN Order
  /\ handler \in [HttpThreads -> {"none", "admitted", "served"}]
  /\ part \in [Parts -> {"off", "threadless", "up"}]
  /\ tray \in BOOLEAN /\ quit \in BOOLEAN

\* No thread is inside the core or about to reset the hub once they are gone, no
\* callback comes to a hub that is gone and no streamer takes from it, and while any
\* HTTP thread is left, which may use every part, none has been stopped. On every
\* way out, also those of a start that failed or threw with others running.
NothingUsedAfterItsEnd ==
  /\ Past("destroy core") => /\ \A c \in Commanders : thread[c].at = "idle"
                             /\ ~receiving /\ ~scanning
                             /\ \A p \in Parts : part[p] = "off"
  /\ (\E c \in HttpThreads : handler[c] # "none") => main <= Place("join http")

\* main.cpp, "7.": the HTTP server is stopped first so that no request undoes
\* the rest. Once the scanner was shut down no scan begins, nothing is tuned and
\* a reception that has ended stays so.
ShutdownIsFinal ==
  [][Past("shutdown") => /\ broadcast' = broadcast
                         /\ scanning' => scanning
                         /\ receiving' => receiving]_lifeVars

\* However and whenever the user asks for it, during the start as well and whatever
\* requests and scans are under way, the process comes to its end.
ShutdownEnds == quit \/ (Past("tray") /\ ~tray) ~> At("over")
=============================================================================
