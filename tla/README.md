# Sideway TS server: a TLA+ model with proofs

Sideway TS server takes the MPEG transport stream of a USB TV tuner and hands it
to many clients at once: over HTTP, as UDP and RTP multicast, and over RTSP.
This directory models the parts of it that keep state or run concurrently, checks
them with TLC, and proves with TLAPS the safety properties of every modelled part for
all values of the constants: any number of clients, sessions, threads and crashes.

Paths such as `src/src/RtspStreamer.cpp` are relative to the directory above this
one; `PROJECT.json` lists for every definition the lines it stands for.

## 1. Inventory

### Parts and how they interact

```
 core DLL --callback--> TunerClient::OnTs --> TsBroadcaster --+--> TsSubscriber --> UdpStreamer worker
    ^                                            ^    Reset    +--> TsSubscriber --> RtpStreamer worker
    |                                            |             +--> TsSubscriber --> one thread per RTSP session
    +--- Command / Query --- TunerClient <-------+             +--> TsSubscriber --> one thread per /stream client
                                 ^
 HTTP requests --> HttpStreamer -+--> SetEnabled of Udp/Rtp/RtspStreamer, QualityStore
```

| Part | State | Operations | Called by |
|---|---|---|---|
| `TsSubscriber` | byte ring with `m_head`, `m_tail`, `m_count`, `m_active`; mutex and condition variable | `PushData`, `PopData`, `Stop`, `Reset` | hub (core's thread), one client thread |
| `TsBroadcaster` | set of subscribers, `m_active`; mutex | `CreateSubscriber`, `RemoveSubscriber`, `PushData`, `Reset`, `Stop` | core's thread, all streamers, `TunerClient` |
| `TunerClient`, `ScanClient` | handle of the core | `Command` (tune, select, restore, scan, stop, ...), `Query`, `OnTs` | HTTP threads, `main` |
| `RtspStreamer` | sessions with their flags, sockets, subscriber, two threads each; `m_enabled`, `m_running` | accept loop, request handling, stream loop, `SetEnabled`, `Stop` | clients, HTTP threads, `main` |
| `HttpStreamer` | set of client sockets, counters, `m_running` | accept loop, routes, `/stream`, `Stop` | clients, `main` |
| `UdpStreamer`, `RtpStreamer` | `m_enabled`, `m_running`, socket, subscriber, sequence number | `Start`, `SetEnabled`, worker loop, `Stop` | HTTP threads, `main` |
| `QualityStore` | settings, revision, reports; the file `quality.json` | `Load`, `UpdateFromJson`, `ToJsonString`, `Acknowledge`, `ApplicationStatus` | HTTP threads |
| `WireProtocol` | none (pure); its callers keep a receive buffer and a deadline | `Extract`: one message off a receive buffer | the receive loops of RTSP and HTTP |
| `ChannelStore` | a JSON file | `Load`, `Save` | the core DLL |
| `WebDashboard` | the browser page's buttons | status poll, toggles | browser |
| `TrayApp` | `m_running`, window and icon | `Initialize`, `RunMessageLoop`, `Stop` | `main`, user |
| `main` | the parts and their order | start, resume, message loop, shutdown, destructors; `ConsoleCtrlHandler` | user |
| core DLL, `json.hpp` | closed source; third party | `stc_command`, `stc_query`, TS callback | `TunerClient` |

### What is hard, and what makes each part correct

* **Ring.** Three indices moved by pushes that wrap, drop or exceed the ring, by
  pops that wrap and by resets; a reader that sleeps while any of it happens.
  *Correct:* the newest data in order without a gap, always whole packets, nothing
  twice, nothing from before a reset, no lost wake-up.
* **Hub.** One lock over a loop over subscribers, each with its own lock, which
  clients stop and read meanwhile. *Correct:* all open subscribers get everything, a
  slow one harms only itself, nobody gets data after Stop or from before a reset.
* **Channel change.** Status query, command and reset are three steps without a
  common lock. *Correct:* clients do not get the old broadcast as if it were the new.
* **RTSP.** Handler, stream, accept, SetEnabled and Stop threads share a session's
  flags and sockets; two of them send on one connection, and a flag or a send that fails may
  leave a message half sent. *Correct:* no use of closed resources, a session ends with a
  message that was cut, one stream thread at a time, every end is reached.
* **HTTP.** Detached threads, reused socket handles, exceptions. *Correct:* Stop
  outlasts every thread, nothing leaks, dead clients and scans end streams.
* **Multicast.** A worker and requests write one flag; 16-bit numbers. *Correct:* silent
  when off, numbers without gaps.
* **Framing.** TCP cuts and joins messages at any byte; a body may look like the end of a
  header, a frame's data like a request; deadlines move with every message. *Correct:*
  messages come out as they were sent, the buffer stays below its limit, nobody holds a
  connection by sending slowly, and a silent one ends.
* **Process.** HTTP threads command the core while `main` starts up, resumes the last
  broadcast and shuts down; the callback runs until the core is gone; each start may fail or throw with others
  running. *Correct:* nothing is used after its end or left running, no request undoes the
  shutdown, and it is reached.
* **Settings.** Crash between file and memory, two locks per POST, revisions that
  wrap, a good file that cannot be read at one start. *Correct:* what was promised survives, a revision names one value.

`PROJECT.json` has the hazards one by one, with the line where each bites and the
properties that would show it going wrong.

## 2. Modules

| Module | Models | Uses |
|---|---|---|
| `StreamWindow` | what a subscriber can deliver, as a run `low..high-1` of the stream (pure operators) | |
| `DropOldestQueue` | abstract specification: what a subscriber promises | `StreamWindow` |
| `TsSubscriber` | the ring, byte by byte, and its condition variable | `DropOldestQueue` (refinement) |
| `TsSubscriber_proofs` | theorems about it | |
| `TsBroadcaster` | the hub and its clients; each subscriber is a window | `StreamWindow` |
| `TsBroadcaster_proofs` | theorems about it | |
| `ChannelSwitch` | `TunerClient::Command` on several threads, the core (external), one buffer | `StreamWindow` |
| `Lifecycle` | `main` from the creation of the parts to their end, the tray, the console signal, HTTP threads that come and go | `ChannelSwitch` (extends) |
| `Lifecycle_proofs` | theorems about the channel switch, alone and in the process, and about the process | |
| `WireProtocol` | `Extract` (pure operators) | |
| `MessageReader` | the receive loops of RTSP and HTTP with their deadlines, a client, TCP | `WireProtocol` (extends) |
| `MessageReader_proofs` | theorems about both | |
| `RtspStreamer` | the RTSP server with all its threads | |
| `RtspStreamer_proofs` | theorems about it | |
| `HttpStreamer` | the HTTP server with its accept, client and Stop threads | |
| `HttpStreamer_proofs` | theorems about it | |
| `MulticastStreamer` | `UdpStreamer` or `RtpStreamer`, which differ in two places | |
| `Dashboard` | the page's button of a multicast streamer, its polls and posts, with the HTTP threads that serve them | `MulticastStreamer` (extends) |
| `MulticastStreamer_proofs` | theorems about the streamer, and that the page only drives it | |
| `QualityStore` | the settings, their file, posters, players, crashes | |
| `QualityStore_proofs` | theorems about it | |
| `MC...` | small instances of each for TLC | |

The chain of abstraction: `TsSubscriber` is proved to implement `DropOldestQueue`,
whose state is a window. The modules above it (`TsBroadcaster`, `ChannelSwitch`) use
windows as subscribers, and `RtspStreamer`, `HttpStreamer` and `MulticastStreamer`
only whether one is there, stopped or has data. In the same way `MessageReader` shows that
the loops hand over whole requests, and `RtspStreamer` and `HttpStreamer` begin with a request.
`Lifecycle` takes from the streamers that their `Stop` returns, which their own runs show.

### How state and actions correspond to the code

* **Steps.** A critical section of a mutex is one step. What another thread can
  see between two of them is a state: between an unlock and its `notify`, between the
  hub's visits to two subscribers, between `isPlaying = false` and the join, between
  the replacing of a file and the assignment to memory. Reads of atomics are steps
  where they are loop tests or decide something.
* **Threads.** A thread is a program counter named after what it does next
  (`handler[s]`, `stream[s]`, `acceptor`, `stopper`, `worker`, `reader`, `poster[h]`).
  A helper that is called from two places (`StopStream`) returns by `after[s]`.
* **Blocking calls** have a step for each way they end. A time-out may happen at any
  time. Only `MessageReader` has a clock, in steps of the 250 ms of RTSP's select.
* **Data.** A byte is its position in the stream (ring), a packet a position
  (hub, channel switch), a datagram a count (multicast), a line or a
  number of a message a symbol (framing). A broadcast, a socket handle, a
  request and a settings value are members of small sets.
* **Variants.** Definitions commented `Variant:` change the definition below them the
  way a plausible mistake would. No specification uses them: they are substituted, one at a
  time, to see that each property does fail then (`mutants` in `PROJECT.json`).
* **History variables** (`pushed`, `resetAt`, `promised`, `truth`, `switched`, `age`, `quiet`, ...) are
  commented as such and no guard depends on them, except where they
  number the data (`pushed`).

Notes on single modules:

* `TsSubscriber`: `PopData` is `PopData`/`Recheck` (lock taken, predicate looked at),
  `Timeout`, `Spurious` and `Notify`. There is one reader per subscriber in the code. `PushData`
  waits for its previous notification, as the core has one callback thread.
* `TsBroadcaster`: `lock` says whose loop holds `m_subscribersMutex`, `todo` who has not
  been visited. `RemoveSubscriber` is two steps. The class lets anyone call `Stop` at any time, and
  the module too; in the program only the destructor does, when the clients are gone (`Lifecycle`).
* `ChannelSwitch`: the core's part (`Retunes`, `ScanEnds` and the effects in `Execute`)
  is external: commands are serialised, a scan suspends the callback and refuses others.
  `Send` is a command of an HTTP request, one disjunct for each place that sends them.
* `Lifecycle`: `main` is a place in `Order`, the list of the steps of `main.cpp` from the
  loading of the channels to the destructors, which run in reverse order of the objects. `part` is
  `m_running` of each streamer with its thread. A start that fails (`StartFails`) goes to the step
  where that return leaves to. One that throws (`StartThrows`), since `std::thread` can throw
  when `m_running` is set already, leaves `Run` by the exception that `main` catches
  (`main.cpp:171`); both ways pass the destructors, whose `Stop` ends what still runs. `main` is one of the
  `Commanders` of `ChannelSwitch`, and the HTTP threads (`handler`) the others.
  `tray` is `TrayApp::m_running`, `quit` the WM_QUIT that the console signal posts.
* `WireProtocol`: a buffer is a sequence of symbols (a text line, one that cannot
  be parsed, a line end, `$`, a number). A number is the header line Content-Length, or
  the size in a frame. `Ends` is where a header ends, `Request` and `Frame` the two formats,
  in the order of the code's early returns.
* `MessageReader`: `rtsp` chooses the loop. `Receive(n)` is a recv of any size, `Tick` 250 ms
  without data, `Handles` a message with the deadline set anew after it, with what came behind
  it kept. The time limits are whole numbers of ticks. `age` and `quiet` measure time beside `left`,
  the time to the deadline, so that the property does not read the variable it is about.
* `RtspStreamer`: a request is a method with its transport and whether its
  session header is right; `session[s]` has the flags, and `tcp`, `udp`, `subscriber` for the
  resources. `wire` says what was sent on the connection: whole messages, a part of a frame or
  of a response at the end, or something behind such a part. `StreamPart` is a send that takes
  less than the frame, after which the loop looks at its flags. A connection that is refused for
  the limit of sessions, and one whose thread cannot be created, are disjuncts of `Register`.
* `HttpStreamer`: a handle is free again as soon as it is closed. `/stream` is
  modelled step by step; every other route is `Api`.
* `MulticastStreamer`: its `main` is the order in which `main.cpp` starts a streamer and
  turns it off. `CoreDelivers` is an assumption about the core: no packets before its first
  command to tune or scan. The HTTP server, which sends such commands, is started after
  `SetEnabled(false)` of all streamers (`main.cpp:104-122`), and `main` sends its own after that
  (`:131-132`). Without it UDP, whose `m_enabled` starts as true, could send in between.
* `Dashboard`: composes the page with the streamer. A request of the page is a record in
  `fetch` (asked, for a post set, answered); requests may overtake each other, and `Fails` is the
  loss of either direction. `ServePost` is the streamer's `SetEnabled`, and `Answer` reads
  `enabled` in a step of its own. `restless` says that somebody still clicks, posts or cuts connections.
* `QualityStore`: `SaveReplaces` and `Commit` are two steps under one lock (`Free`),
  with `Crash` in between. `Load` may fail with any file, also a good one: `catch(...)` does not
  tell a file that is not accepted from one that cannot be opened or read. Such a process has the
  defaults and revision 0. A good file without a revision (`ByHand`) counts as revision 1.
  `LoseFile` is somebody else deleting, damaging or writing the file; `forgotten` records that a
  process that could not read a good file has replaced it.

## 3. Runs

| Run | Question | Bounds |
|---|---|---|
| `ring` | is the ring sound, does it implement the queue, is every waiting reader woken without its time-out | 3 packets of 2 bytes asked for as 7 bytes; pushes and pops of 0, 2, 3 (misaligned), 4, 8 (oversized); 12 bytes |
| `hub` | does everybody get everything, and nothing old; is a stopped hub silent | 2 clients, buffers of 2, pushes of 1-3, 5 packets |
| `lifecycle` | is nothing used after its end or left running, is the shutdown final and reached; does a switch clear the buffers, and only a switch | `main` and 2 HTTP threads, 2 broadcasts, 5 commands, 2 of HTTP beside `main`'s own, every start may fail or throw, 1 packet |
| `reader` | do messages survive being cut, is the buffer bounded, are the deadlines kept, do silent connections end | 9 messages (both formats, all bad kinds), 3 per connection, receives of 1-4 symbols; header 7, body 2, frame 7, buffer 13; limits of 3 and 2 ticks |
| `switch_race` | is nothing old left when all commands are over (**no**) | 2 threads, `tune` only, 3 commands, 2 packets |
| `rtsp` | are one session's threads safe, does a cut message end the session, do they end, are requests answered | 1 session, all requests |
| `rtsp_two` | do Stop and the accept loop account for all sessions | 2 sessions, SETUP and PLAY |
| `rtsp_play` | does an answered PLAY stream (**no**) | 1 session |
| `http` | does Stop outlast all threads, are the counts right, do dead clients and scans end streams | 2 clients, 3 handles, 1 query that throws |
| `http_leak` | is every subscriber given back (**no**, when a query throws) | as `http` |
| `multicast` | is the worker silent when off, numbered without gaps and stoppable, for UDP and for RTP; does the page come to show what it does | 4 numbers, 2 datagrams, 2 requests of the page at a time |
| `quality` | do file, memory, answers, revisions and reports agree, also when a good file cannot be read | 2 posters, 2 players, 2 settings, revisions 0-3, room for 1 report, 2 crashes, 1 lost file |

**Why the bounds are enough.** A ring of three packets has every relation of head and
tail, and 12 bytes wrap it twice; the proofs cover all other sizes. Two clients of
the hub show every order of one visit and one other client's action, and the hub treats
them alike. Two threads in `Command` are what a race of its steps needs. RTSP
sessions share only the list, the enabled flag and the Stop thread, so one session
shows what its own threads do and two what the shared parts do. The limit
on HTTP clients is below the number of handles, so that some are turned away and a handle
is reused while its old owner leaves. Counters that wrap (revision, RTP number) have four
values, so they do wrap. Two HTTP threads beside `main` are a request for each side of the race
in `Command` and one more thread for the shutdown to meet; in `lifecycle` one packet is enough,
since no step depends on how many are buffered and a single old one would show, and HTTP threads
need not send `restore`, which only `main` does. Two restarts are one that cannot read the file and one that
can again. In the reader the buffer's limit is exactly what the room for one
receive requires (`RoomAssumption`), so that one symbol less would show; a receive of four
is less than most messages and more than the shortest, so that messages are cut and joined;
the proofs cover all other limits.

**Type invariants.** `ring` checks `TypeOK`. The other modules' are proved (section 5), and
the configurations leave them out in favour of the other properties.

**Deadlock.** `ring` and `hub` are checked for it: in them some thread can always move. The others may end: a server that was stopped, or
bounded packets, commands or crashes that are used up. There `CHECK_DEADLOCK FALSE` is set,
and the liveness properties say what must not hang (`StopReturns`, `RequestsAnswered`, ...).

**Fairness.** Weak fairness is assumed of threads the server itself owns and
that have work, because the system schedules them and every call they block in has
a limit in the code (select 250 ms, PopData 100 ms to 5 s, send 2 s or 5 s) or is ended by
closing the socket. Nothing is assumed of clients, packets, requests, the time-out of
PopData (in `ring`) or, in `http`, the end of a scan. In `reader` the loop runs (`Loop`) and time
passes (`Tick`), and the client need not do anything. In `lifecycle` `main` and the HTTP
threads run, a command comes back and a scan ends by itself, as a shutdown waits for it; the user
need not do anything. The page's interval goes on, and a server that is up answers
what reaches it; connections may fail as long as `restless` holds. One exception is named where it is made:
`RequestsAnswered` presumes `LockIsFair`, strong fairness of the handler's turn at
`sendMutex`, because a stream thread that takes the mutex for every frame could pass it
over for ever; `std::mutex` does not promise fairness, so this property rests on the
platform's. `DisableEndsPlaying` and `StopReturns` do not need it.

**Provisions.** Two properties name the exception that a finding is about instead of
assuming it away: `OldDataOnlyDuringSwitch` leaves out the race of `switch_race` (`missed`)
and so shows that it is the only way old data stays; `CountsMatch` counts the
queries that threw (`thrown`) and so shows that they are the only leak. `PromiseKept`,
`RevisionNamesSettings` and `CurrentMeansApplied` hold under `Undisturbed`: nobody else has touched
the file, and no process that could not read a good file was told to save. They do cover processes
that could not read it, as long as nobody posts to them; what a post then does is in section 4.
`SilentWhenOff` rests on `CoreDelivers` (section 2).

## 4. Where the code does not do what it says

1. **Concurrent tunes leave old data** (`switch_race`). A call whose target was
   tuned when it looked, but not any more when it executes, switches the broadcast back
   and does not reset the hub (`TunerClient.cpp:34-39`).
2. **A throwing query leaks a subscriber** (`http_leak`). `IsScanning()` in the stream
   loop leaves `StreamTsToClient` past `RemoveSubscriber` and the count (`HttpStreamer.cpp:488`).
3. **A PLAY can be lost** (`rtsp_play`). After a UDP send error the stream thread has
   left its loop but not cleared `isPlaying`; PLAY is answered 200 and starts nothing (`RtspStreamer.cpp:148`).

Seen while modelling, without a run of their own:

* A disabled RTSP service keeps connections open whose requests are answered by
  454 or 455, since those are checked first (`RtspStreamer.cpp:212-216`);
  `docs/변경_기록.md:7` says that any request in that state is answered by 503 and its
  socket closed at once ("비활성화 상태에서 들어오는 RTSP 요청에 대해 `503 Service Unavailable`을
  응답하고 소켓을 즉시 닫아").
* An `accept` that fails for a passing reason ends the accept loop for good while the server
  still says that it runs (`HttpStreamer.cpp:178-183`, `RtspStreamer.cpp:90`).
* The answer 409 during a scan (`HttpStreamer.cpp:303`) is not reached by `/api/tune` and
  `/api/udp/toggle`, which return before it (`:216-229`); the core still refuses the tune.
* If the tray window cannot be created, the message loop ends at once and so does the program
  (`TrayApp.cpp`); `lifecycle` has this path.

* A settings file that is good but cannot be opened or read at one start (`QualityConfig.h:108`)
  leaves a process with the defaults and revision 0. It does not touch the file, but the
  first POST to it writes revision 1 over it: the settings that were answered before are gone, and
  revisions count again from 1. The same numbering starts over after `quality.json` was lost
  (`:102`). A report of an old revision may then be taken for a new one, though
  `docs/안정성_보강_2026-09-18.md:91` has old revisions refused ("오래된 revision은 409를 반환하므로").
  `Undisturbed` leaves out exactly these two.
* `docs/변경_기록.md:46` says that `sendMutex` prevents collisions of responses and RTP frames. It does
  while both are whole. A frame that was cut by a flag or by a send that fails, and after which the mutex
  is free, may be followed by the one response that is under way (`RtspStreamer.cpp:404-411`, `:146-147`).
  The session ends then; that it always does is `CutEndsSession`.
* A worker's `m_enabled = false` after a failed send undoes a request that has enabled the service
  since the send (`RtpStreamer.cpp:157`, `UdpStreamer.cpp:125`). `SilentWhenOff` and `PageSettles` hold all
  the same: the page comes to show that it is off.

Also: the comments on `m_head`
and `m_tail` (`TsBroadcaster.h:61-62`) are exchanged. A concurrent tune may also clear the
buffers once more than needed: it resets when the broadcast changed during
the call, also by another thread (`RetuneKeepsBuffer` is stated accordingly).

## 5. Proofs

### The ring

`TsSubscriber_proofs` proves, for every packet size, capacity of at least one packet
and sets of request sizes:

| Theorem | States |
|---|---|
| `TypeCorrect` | `TypeOK` |
| `RingSound` | `RingAgrees`: `IndicesAgree`, `HoldsNewest` and `OnPacketBoundary` |
| `PacketsStayWhole` | `WholePackets`, of the ring and of what a client gets |
| `NeverBackwards` | `ForwardOnly` |
| `RingImplementsQueue` | the ring implements `DropOldestQueue` |
| `NoWakeupIsLost` | `NotifyIsOwed`: a reader asleep although its wait is over has a notify coming |

*Assumptions* (in `TsSubscriber`, evaluated by TLC too): the packet size is a positive
natural number, sizes are naturals, and the rounded capacity is at least one packet, since the
constructor throws otherwise.

*The inductive invariant* `Inv` is the five invariants above with two more:
`RequestOK` (the size a sleeping reader waits for passed the argument check; without it
`Recheck` might take more than the ring holds) and `ChunkPast` (what was delivered lies before
what is buffered; without it a push that drops data says nothing of the order of the
next delivery). The invariants need each other: that a push leaves
the bytes it keeps in place (`KeptBytesUntouched`) takes the agreement of the indices, that a
delivered chunk is whole takes `HoldsNewest`.

*The argument.* All modular arithmetic is in lemmas about one index that moves by at most
one ring (`WrapOnce`, `AdvancedIndex`), and all arithmetic of packets in `AlignedSum` and
`AlignedDifference`. `PushInv`, `FinishInv` and `ResetInv` treat the steps that
change the ring, `QuietInv` all others. `NeverBackwards` and the refinement follow from
`Inv` and from what a step does to the chunk (`ChunkStep`, `NextRefines`). The refinement
maps the ring to the window `[pushed - count, pushed)`.

### The framing

`MessageReader_proofs` proves, for every set of messages, every number of them and all limits:

| Theorem | States |
|---|---|
| `TypeCorrect` | `TypeOK` of `MessageReader` |
| `NeverOverfull` | `BufferBounded` |
| `InTime` | `TimeLimits` |
| `Intact` | `MessagesIntact` |

*Assumptions* (in `MessageReader`, evaluated by TLC too): `ReaderAssumption` has the types and
that the limit of one message is not above that of the wait for it; `RoomAssumption`
that the buffer's limit leaves room for one receive beyond the longest message that is waited for (with the
constants of the code 69633 of 73728 bytes); `MessagesAssumption` that a message is
one: Extract says of the whole of it, alone, what it deserves. What Extract says of a part of
it or of more than it is what the proof is about.

*The argument.* The core is `ExtractStable`: once Extract has an answer for a buffer, further
bytes behind it do not change it. With frames that is arithmetic (`FrameStable`); with requests it needs that
the first end of a header is the same (`EndsStable`), that what is before it is the same
(`HeaderStable`), and that a header that was too long without an end is so with one
(`RequestStable`). `ExtractSound` bounds what is waited for.

*The inductive invariants.* `NeverOverfull` needs `Roomy`: the loop waits only when Extract
wants more, for which there is room. `InTime` needs `Clocks`: time taken and time left
add up to one of the two limits exactly, which of the two depending on whether the first byte shortened the
deadline. `Intact` needs `InOrder`, that what is in the buffer and on the wire is
the messages not yet handled, one behind the other (there is a function that says where each ends,
`Laid`, which takes the place of a recursive concatenation), and `Verdict`, what was handled and
refused so far. From them `ExtractsTheNext` compares the buffer with the next message: one is a prefix of
the other, and `ExtractStable` applies either way.

### The hub

`TsBroadcaster_proofs` proves, for every set of clients, buffer size and set of push sizes:

| Theorem | States |
|---|---|
| `HubTypes` | `TypeOK` |
| `FanOutIsComplete` | `FanOutComplete` |
| `MembersAreTheClients` | `MembersAreClients` |
| `StopSilencesEveryone` | `StoppedHubIsSilent` |
| `ResetForgetsTheOld` | `NothingFromBeforeReset` |

*Assumptions:* `HubAssumption`, that sizes are natural numbers, positive where the code's are.

*The inductive invariant* `HubInv` adds to these what is true in the middle of a loop that
holds the mutex: an open subscriber is registered (`OpenInv`), so the loop comes to it; Stop has closed
those it has visited (`StopInv`); those a Reset has visited start at the newest packet, and all that are open at
the last finished Reset or later (`ResetInv`). Without the middle of the loops none of the
properties is inductive: `Unlock` turns "visited so far" into "everyone".

### The channel switch and the process

`Lifecycle_proofs` proves, for every set of HTTP threads, broadcasts, commands and every buffer size:

| Theorem | States |
|---|---|
| `SwitchInvariant`, `RetuneKeepsTheBuffer` | of `ChannelSwitch` alone: its types, `OldDataOnlyDuringSwitch` and `RetuneKeepsBuffer` |
| `LifeTypesHold` | `LifeTypeOK` |
| `NoOldData`, `RetuneKeepsTheBufferInProcess` | the same two properties in the whole process |
| `NothingIsUsedAfterItsEnd` | `NothingUsedAfterItsEnd` |
| `ShutdownStaysFinal` | `ShutdownIsFinal` |

*Assumptions:* `SwitchAssumption` (bounds and sizes are natural numbers, operations are those of
the interface) and `MainAssumption` (`main` is one of the commanders; any of the parts may fail to start).

*The inductive invariants.* `SwitchInv` needs `TuneInv`: a tune that goes to its reset has seen the
broadcast change, and one that has found a difference either has seen it change or still differs from it, so
that its own execution will change it. `LifeInv` adds where `main` is when it
is inside `Command` (`MainInv`), that requests are only there between the start of the HTTP
server and the end of its Stop, and in `Command` only when admitted (`ServeInv`), that no
part outlives its destructor (`PartsInv`), and that a destroyed core is silent (`CoreInv`).

*The argument.* Every step of the process is one of `main`'s, which moves along `Order`, or a
step of `ChannelSwitch`, for which `SwitchInv` is reused as it is. `Places` turns the names of
`Order` into numbers once, so that "past" is arithmetic. Every way out of `Run`, by a return or by an
exception, is a jump to the destructors or before them, so that `PartsInv` is kept by each.

### The multicast streamers

`MulticastStreamer_proofs` proves, for UDP and RTP, every width of the numbers and length of the queue:

| Theorem | States |
|---|---|
| `WorkerKeepsItsResources` | `WorkerHasItsResources` |
| `OffIsSilent` | `SilentWhenOff` |
| `NumbersHaveNoGaps` | `NumbersWithoutGaps` |
| `PageTypes` | `PageTypeOK` of `Dashboard` |
| `PageDrivesStreamer` | `PageSpec => Spec`: the page implements the streamer's specification |

The last one is why the first three hold where `multicast` checks them, under `PageSpec`.

*The inductive invariant* `StreamerInv` adds that Stop takes nothing away before the
worker has ended (`ResourceInv`), that nothing is buffered before `main` has turned the service off
once (`QuietInv`), and which number is next between its assignment and the send, when
it is already one ahead (`NumberInv`). *Assumptions:* the width is at least two, and, of the
environment, `CoreDelivers`.

### The settings

`QualityStore_proofs` proves, for all posters, players, settings, widths of the revision, limits of the
table and numbers of crashes and losses:

| Theorem | States |
|---|---|
| `StoreTypes` | `TypeOK`, with the limit of the table |
| `TheFileHoldsMemory` | `FileHoldsMemory` |
| `ThePromiseIsKept` | `PromiseKept` |
| `ARevisionNamesSettings` | `RevisionNamesSettings` |
| `CurrentHasApplied` | `CurrentMeansApplied` |

*Assumptions:* `QualityAssumption`, numbers and a default among the settings.

`FileHoldsMemory` holds without a provision; the next three under `Undisturbed` (section 3).

*The inductive invariant* `StoreInv` says everything about the file instead of the memory, since a crash
leaves only the file, and a process that cannot read it has not even that in memory. `Behind` is what a
revision with settings may be beside a file: not above it, the file's settings if it is the file's revision, and
the defaults if it is zero. The last answer (`PromiseInv`), what players have (`PlayerInv`) and
what they have reported (`ReportInv`) are behind the file; two players agree (`PairInv`);
between the two writes of a POST the file is what the POST wrote, otherwise memory is what reading it gives or
the defaults (`FileInv`); one POST holds the lock and its revision is still the next (`LockInv`).

*The argument.* `MemoryIsBehind` carries all of it over to the memory when the lock is free, also to that of a
process that could not read the file. Only `SaveReplaces` moves the file: where nothing was forgotten the process had read it,
so that the new revision is above all that is behind it (`HigherFile`). That a revision is not reused rests on
`LockInv` and on the refusal of zero: without it the number would wrap below what players already have.

### The HTTP server

`HttpStreamer_proofs` proves, for every set of threads and handles and every limit:

| Theorem | States |
|---|---|
| `HttpTypes` | `TypeOK`, with the limit on connections |
| `EveryConnectionIsListed` | `ConnectionsListed` |
| `StopLeavesNothing` | `StoppedIsQuiet` |
| `TheCountsMatch` | `CountsMatch` |
| `StopWaitsForTheRunning` | `WaitIsForRunning`: when Stop waits, every listed handle is shut down and belongs to a thread that runs |

*Assumptions:* `HttpAssumption`: threads and handles are finitely many, which is what counting them needs.

*The inductive invariant* `HttpInv` is about who owns an open handle: it is listed or in the
accept thread's hand before admission (`OpenInv`, `AcceptorInv`), and a listed one has one thread at most
(`ConnectionsListed`). Since a handle leaves the list in the step that closes it, a handle that is given out
again has no owner left. `MovedCount` counts: one step of a thread changes the set of streams and of
subscribers by that thread at most, and `Within` says that the counters follow. `ListedInv`, for the last
theorem, is the converse of `ConnectionsListed`.

### The RTSP server

`RtspStreamer_proofs` proves, for every set of sessions, limit and set of requests:

| Theorem | States |
|---|---|
| `RtspTypes` | `TypeOK` |
| `StreamsKeepTheirResources` | `StreamHasItsResources` |
| `CutsEndTheSession` | `CutEndsSession` |
| `EveryHandlerIsListed` | `NoStrayHandler` |
| `StopLeavesNothing` | `StoppedIsQuiet` |
| `EveryJoinIsAnswered` | `JoinsAreAnswered`: a joined stream has been told to end and has nothing to wait for, and so have the handlers Stop joins |

*Assumptions:* of `RtspAssumption` only what a request is.

*The inductive invariant* `RtspInv` has a part per session and one for the lists. In a session, past a join
nothing of a stream is left (`QuietInv`), a PLAY that has been accepted but not yet answered belongs to a session
that is still set up, since no SETUP comes between (`SetupInv`), the sockets are closed by the
handler's last step only (`EndInv`), and one thread at a time is in a send (`SendInv`). `ListInv` says that
every running handler is in a list, `StopInv` that the accept loop is over before
Stop takes them. `OneSessionKeeps` reduces a step to the session it is of. `WaitInv`, for the last theorem, adds
that nothing turns an interrupted session on again. `WireInv`, for `CutsEndTheSession`, is kept relative to `RtspInv`:
a cut frame is in a send or in a session that ends, and the handler has no answer left after a cut
response or a mixed one. It needs that one thread at a time sends (`SendInv`) and that the flags, once
off, stay off until the name is free again.

### What stays with TLC

All liveness (`ReaderWakes`, `ConnectionEnds`, `ShutdownEnds`, `StopReturns`, `DisableEndsPlaying`,
`RequestsAnswered`, `StreamsEnd`, `PageSettles`) needs fairness and `ENABLED`, which the prover
does not handle; `NoWakeupIsLost`, `StopWaitsForTheRunning` and `EveryJoinIsAnswered` prove the part
of it that is safety. `QuietMeansCurrent`, `PlayStartsStreaming` and `SubscribersReturned` are false (section 4). Every other
property of a run has its theorem. The inductive invariants were checked on the instances of the runs before
they were proved.

## 6. Not modelled

* `ChannelStore`: it loads and saves a file for the core DLL, whose source is not here, so that nothing
  says who calls it when; the replacing of a file is in `QualityStore`.
* The page's other buttons (channels, scans, settings). The one of RTSP is the same code as
  those in `Dashboard`.
* Of `TrayApp` the icon, the notification and the opening of the browser; of `main` the parsing
  of arguments and the lock of the single instance, which come before everything; `Common.h`.
* The system may end the process a few seconds after a console window is closed, whatever `main` is
  doing then. `QualityStore` has crashes at any point; `Lifecycle` has not.
* The core DLL beyond what `src/` relies on, and `json.hpp`.
* Texts of responses, header fields but those that decide something, RTP time stamps,
  bitrate and uptime counters, socket options.
* Time, but for the deadlines of the receive loops: elsewhere time-outs may come at any moment.

## 7. Plan

Done, each with its proofs: the ring, the framing, the hub, the three kinds of
streamer, the page over the multicast streamers, the HTTP server, the settings, and the process
over the channel switch. What is left to model, in this order:

1. `Dashboard`: the broadcast button and the list of channels, whose selection is an
   optimistic toggle too.
2. Composition: `HttpStreamer` over `TsBroadcaster`, so that the leak of
   section 4 is seen in the hub's set.

Proofs: every safety property has one. What is left is how the models fit together: that what the hub does
to each subscriber is what `DropOldestQueue` allows it, and that the streamers' views of a subscriber (there,
stopped, has data) are views of a window.
