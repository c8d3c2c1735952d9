# Verification of polhemstylus

TLA+ models of the Polhem stylus system: the firmware of the stylus, the proxy
that turns its BLE notifications into a local socket, the client's side of that
socket, and the controller of the haptic device the stylus is mounted on. The
models are translated from the C++, JavaScript and Arduino sources; TLC checks
them on small instances, and TLAPS proves the safety properties for every value
of the constants.

Contents: [the system](#1-the-system), [modules and code](#2-modules-and-code),
[runs](#3-runs), [fairness](#4-fairness), [proofs](#5-proofs),
[what the code does otherwise](#6-what-the-code-does-otherwise),
[not modelled](#7-not-modelled), [plan](#8-plan).

## 1. The system

    stylus firmware --BLE--> proxy (Linux or Windows) --AF_UNIX--> SocketClient, aClient
    stylus_service.js        glibMain.cpp / winMain.cpp            SocketClient.h, aClient.cpp
                             + SocketServer

    haptic device firmware <--serial/USB--> host
    polhem_teensy.ino                       uhaptikfabriken.h

The stylus samples an angle sensor and two buttons and publishes two bytes as a
notifying characteristic. The proxy connects to it while it has a client,
receives the notifications and broadcasts each to all its clients. A client
keeps the newest message. The haptic device is separate: a host sends forces or
currents as lines, the firmware drives three motors and answers with positions.

| Component | State | Operations | Interacts by | What is hard | What makes it correct |
|---|---|---|---|---|---|
| Socket server (`proxy/src/SocketServer.cpp`) | the list of connections, its mutex, the listening socket, `isRunning`, `stopServer`, the thread | `Start`, `Shutdown`, `Send`, `HasActiveClient`, `Listen`, `DetectDisconnectedClients` | called by the proxies; AF_UNIX sockets to the clients | three places remove connections, any thread may call `Send`, `send` may block, shutdown from another context | no leak or double close, one order of samples without gaps, after a successful start a shutdown that leaves nothing open, healthy clients stay as far as `select` works |
| Linux proxy (`proxy/src/glibMain.cpp`) | `gattConnection`, `doQuit`, the main loop, the link | `main`, `monitorConnection`, `activateConnection`, `deActivateConnection`, the two gattlib callbacks, `on_user_abort` | GLib callbacks, gattlib, the server, SIGINT | a signal handler between any two instructions and inside the libraries, a second signal on another thread, BLE calls that fail | the link follows the clients, no link is forgotten, Ctrl-C ends the program and cleans up |
| Windows proxy (`proxy/src/winMain.cpp`) | `sessionStatus`, the device, its services, the registered handlers | `main`, `stylusValueHandler`, `stylusSessionStatusChanged` | WinRT's thread pool, the server, the finder | callbacks on pool threads, a status that main and a callback write, calls that fail or throw at every point of the search | a client gets the stylus, an idle device is closed, a session that closed ends the wait, samples in one order |
| Windows device finder (`BLEdeviceFinder.cpp`) | the numbered list of devices | the watcher's callbacks, the prompt | pool threads | an unlocked list, devices that come and go while the user reads their numbers | a number keeps its device, no device has two |
| Stylus firmware, service edition (`firmware/stylus_service.js`) | the mode, the timeout token, the interval, the counter, the last sample, the message | `updatePossition`, `buttonActivity`, `activateBLE`, the start of SPI | timers and pin watches of the interpreter, the radio | callbacks that re-arm one timer, a link that changes inside a callback, leftover timeouts | one timer, sampling while awake, radio and mode agree, the message is what is remembered, it falls asleep |
| Stylus firmware, first edition (`firmware/polhem_stylus.js`) | `energySavingMode`, the tokens of a timeout and an interval, the interpreter's table of timers | the start, `sleep`, `wakeup`, the watch `b2` | timers, a pin watch | a token that is not kept, tokens that are used again | one interval before the first sleep, an interval after every edge, the last interval stops when the button is left alone |
| Stylus simulator (`firmware/simple.js`) | a counter | one timer | BLE | nothing | – |
| Socket client (`proxyClient/SocketClient.h`) | the newest message, the descriptor, `stopClient`, `connected` | `Start`, `Shutdown`, `Get`, the destructor, `Listen` | the server's socket; its owner | the destructor closes a descriptor the thread uses; a server that comes and goes; partial messages | whole messages in order, reconnection, a destructor that returns |
| Example client (`proxyClient/aClient.cpp`) | the last value, a counter | `main` | two calls of `Get` | the value changes between the two | prints different values, ends |
| Haptic device firmware (`tmp/winworks-2020-11-04/polhem_teensy.ino`) | currents, duty cycles, the enable pin, forces, the watchdog, encoders | `loop`, `wdCallback`, the button and encoder interrupts | serial lines, interrupts | interrupts between any two statements, a watchdog racing a message, two interrupts that follow one axis | limited currents, motors that stop without messages, truthful answers, a counter that follows the axis |
| Host side of the serial line (`uhaptikfabriken.h`) | the port, a buffer, the last message | `open`, `wait_online`, `setForce`, `getPos` | serial lines | bytes are counted, not framed; newlines and answers that come late | an answer belongs to its message |
| Build, service and documentation files | – | – | – | – | – |

`PROJECT.json` lists, for each of these, the hazards at the lines where they
bite and the properties that would catch each one going wrong. A hazard without
a property has a note saying why.

## 2. Modules and code

| Module | Models | Kind |
|---|---|---|
| `StylusFeed` | what the server promises: subscribers, each with the samples since it subscribed | abstract specification |
| `SocketServer` | `SocketServer.cpp` with its sockets, callers and clients | component |
| `GlibProxy` | `glibMain.cpp`, EXTENDS `SocketServer` | composition |
| `DeviceFinder` | `BLEdeviceFinder.cpp`, the list and the prompt | component |
| `WinProxy` | `winMain.cpp`, EXTENDS `SocketServer` and `DeviceFinder` | composition |
| `StylusService` | `stylus_service.js` | component |
| `PolhemStylus` | `polhem_stylus.js` and the interpreter's timers | component |
| `SocketClient` | `SocketClient.h`, with the server as its environment | component |
| `AClient` | `aClient.cpp`, EXTENDS `SocketClient` | composition |
| `TeensyLoop` | `loop()`, the watchdog and the button of `polhem_teensy.ino` | component |
| `Quadrature` | an incremental encoder and its interrupts in `polhem_teensy.ino` | component |
| `SerialLink` | the bytes between `uhaptikfabriken.h` and `polhem_teensy.ino`, EXTENDS `Quadrature` | composition |
| `MC...` | symmetry sets and constants of the instances that need them | for TLC |
| `...Proofs` | theorems about the module of that name | for TLAPS |

Some modules hold definitions whose name is that of another one and a suffix,
such as `RecvFails_onData`: plausible mistakes in the code, one or more for each
property. No specification uses them; put in the place of the definition, each
breaks the property that `PROJECT.json` lists it for, which shows that the
property depends on that code.

**SocketServer.** A C++ variable keeps its name. `listener` says where `Listen`
stands and `ctl` where the controlling thread stands in `Start` or `Shutdown`,
so that the listener can move between the statements of either. A critical
section that does nothing but move data is one step (`Store`,
`DetectDisconnectedClients`, the end of `Listen`); `Send` holds the mutex over
calls that may block and is one step per connection. `messageSocket` is the
socket that `accept` returned and the list does not yet hold. `cli`, `srv`,
`reset`, `stray`, `sent` and `taken` are the kernel's view of each connection:
an orderly close makes `recvfrom` return 0, a close with unread data makes it
fail once the data before it is consumed. A client may write: the server reads
one byte of it per pass. In `DetectDisconnectedClients` the `select` on any of the
connections may fail, which the code takes for a disconnection: such a connection
is closed whatever its client does. `listenSocket` is "unbound" for a descriptor
that a `Start` which failed has left behind. `ClientsThere` is what
`HasActiveClient` returns. `log`, `base`, `up` (the last control call was a
successful `Start`), `started` (so was the last `Start` that did something) and
`selectError` (the connections on which the last detection failed) are history
variables. The two
overloads of `Send` differ in the payload only. `send` on a connection whose
client has gone returns an error, i.e. SIGPIPE is taken to be ignored: that is
the process's disposition and not in this code.

**GlibProxy.** `mainAt` is the main thread, outside the server's calls, which
are the server's own actions with `Main` as the thread. `handler` is
`on_user_abort`, which runs on the main thread's stack: while it runs the main
thread does not move. SIGINT belongs to the process and is blocked only in the
thread that handles it, so that a second one, during the handler, runs
`on_user_abort` on the listener, whose `Shutdown` makes that thread join itself:
the process aborts (`InterruptsListener`). The threads that the libraries start
are taken to block signals. The handler calls GLib and gattlib, which may not be
called from a signal handler: `heldLock` is the library lock that the interrupted
code may hold (`LocksAt`), and a call that needs it never returns. `signalAt`
remembers, for the properties, where the last signal found the main thread.
`monitorConnection` reads the clients, `doQuit` and `gattConnection` one after the
other, and a signal may come between. `link` is what the gattlib handle is worth
("none" after `gattlib_disconnect` freed it, "freed" when it did so because
notifications failed), which `gattConnection` may not know. A gattlib call with
a freed or NULL handle is undefined behaviour; the model takes, of its outcomes,
the one without an effect, which is the most favourable one.

**WinProxy.** `mainAt` is the main thread outside the server's calls, with a value
for each point of the connection loop at which a WinRT call may fail or throw, or
another thread may come in between; sleeps and prints change nothing and are
no steps. `session` is the truth about the GATT session, and `statusEvents` counts,
for each status, the events that WinRT has not yet delivered: they belong to this
session or to an earlier one, and pool threads may run them in any order. The
program knows `sessionStatus`, which `Visits` writes once per service and the
callback once per event. `valueHandler` says whether `stylusValueHandler` is
registered, which is also what the local `found` says. It is "silent" when the
request for notifications (line 151), which the code neither awaits nor checks,
fails: the stylus is then found and never heard of. `busy` are the pool threads
inside `stylusValueHandler`: each calls `Send` on its own, also after its handler
was revoked. `Releases` is the end of the try block, on whatever path: WinRT's
reference counts release the device, the session and the handlers, and an event
may still be under way. Two things are taken as favourable: the services are
those of the device, because they are asked for uncached, and the stylus'
characteristic can notify, as the firmware declares it. Where `GetsAddress` leaves
the prompt its variables get fixed values, because nothing reads them any more.

**DeviceFinder.** A callback of the watcher is up to three steps (test, push,
print) and the prompt may run between them; the watcher itself delivers one event
after the other. `FirstDigit` is what `getline` into two bytes leaves of a number.
Reading the vector while it is extended may crash, `ReadsTornList`: the process
is gone then.

**StylusService.** The interpreter runs one callback at a time and a callback is
one step, but the BLE link is run by the radio's stack: `UpdatePossition` reads
it twice, and it may change between the two. `pending` is the set of timeouts
that the interpreter has not fired, `timeoutToken` the one the code remembers.
`getRotation`'s loop waits for three equal readings and is modelled by its
result. `Norm` is the code's normalisation of the 11 bit reading, `Pack` what
assigning to a `Uint8Array` does, `Unpack` what `uhaptikfabriken.h` does with the
two bytes. `connected` is `NRF.getSecurityStatus().connected`; `NRF.sleep` ends
a link.

**PolhemStylus.** A callback is one step. `timer` is the interpreter's table, in
which a number that has become free may be given to any later timer; this is
what makes the `energyTimeout` that `b2` does not renew interesting. An interval
only prints, so that its firing is no step. What `clearTimeout(undefined)` does,
before the start, is left open: it throws, which ends the callback, or does
nothing.

**SocketClient, AClient.** `at` is the thread, `owner` how far the destructor
has come. `descriptor` is what the kernel thinks of the number in
`listenSocket`, so that a close by the destructor under the thread's hands is
visible; a blocked `recvfrom` keeps the socket it was called with, the calls
after it fail. A message is `dataSize` bytes, a byte is a pair of the message's
number and a position, so that mixtures of two messages are told apart. The
server writes a message whole; it arrives a byte at a time.

**TeensyLoop.** A statement of `loop()` that touches what an interrupt touches
is a step, and the interrupts may come between any two of them. The currents
that a message or the kinematics ask for are any of `Amps`; the forces are "zero"
or "set". Only their effects on the motors, the mode and the answer are kept.
The bytes of lines and answers are those of `SerialLink`. One assumption on time
is made: the 100 ms of the watchdog do not pass between its `begin` and the
answer to the same message (`JustArmed`). Without it the answer might report
currents that the watchdog has just taken away.

**Quadrature.** The axis moves by single steps, each of which changes one pin and
makes that channel's interrupt pending. A handler reads its own pin only, when
it is served, and takes the other channel as last read. One assumption is made:
the other channel does not change while a handler waits, i.e. handlers are in
time; the firmware has no means to notice when they are not. `offset`, `seen` and
`sure` are history variables.

**SerialLink.** The host has no framing. A byte is the answer that it belongs to
and its place in it, so that a buffer with the end of one answer and the start of
the next one is told from an answer. A line to the device is the number of its
message, or 0 for a newline alone. `Parse` does what `sscanf` does: it
skips blanks and needs all numbers of one answer. The device's side is one step
per line, with the mode after the line as the form of its answer, as in
`loop()`. A second passes for the host at any time (`ProbeFails`,
`GetPosTimesOut`), whatever the device does; `late` remembers it. The port is
taken to be in raw mode.

## 3. Runs

`tlc -config X.cfg M` in this directory. Deadlock is checked in the runs of
`SocketServer`, `StylusService` and `TeensyLoop`, which never stop. The others
may: `AClient` returns, the processes of `GlibProxy` and `WinProxy` end at
"exited", and in `SerialLink` and `PolhemStylus` the user has no duty to go on
(in `SerialLink` a host that has sent `MaxSent` messages is done). Where
a process should end, a deadlock would be seen as a violation of `ReturnEnds`,
`OrdinaryInterruptQuits` or `InterruptQuits`, which say that the end is reached.

### What each shows

| Run | Shows |
|---|---|
| `server_safety` | Two broadcasting threads, two clients and the listener in every interleaving. `LockDiscipline`: no connection is closed behind the back of an iteration of `Send`. `SocketAccounting`: the server's open ends are exactly the list and the one socket `Listen` is about to store. `StreamsAgree`: each client gets a gapless segment of the one order of broadcasts. `ShutdownIsComplete`, `StartedMeansListening`: what the control calls promise once a `Start` has succeeded. `HealthyClientsStay`: only a client that closed its end, or on whose own descriptor `select` failed, is removed before the end of `Listen`; a failure elsewhere takes nobody out. `ImplementsFeed`: the server refines `StylusFeed`, with a broadcast taking effect when `Send` gets the mutex. |
| `server_disconnect` | expected violation: an orderly close is not noticed (section 6). |
| `proxy` | Two signals from the moment the handler is installed, on the main thread and, during the handler, on the listener; BLE calls that fail, a link that breaks. `NoForgottenLink`: a NULL handle means there is no link. `ExitClosesSockets`: what a successful `Start` opened is closed when `main` returns. `ExitClosesLink`: the link may be left open then, but only by a signal between the test of `doQuit` and the assignment of the handle (section 6). `LinkFollowsClient`, `IdleLinkIsDropped`: the link and the clients, when notifications start. `OrdinaryInterruptQuits`: a signal that finds the loop running, and the main thread outside the critical sections of the server and of the libraries, ends the program, in order or by the abort of a second signal. |
| `proxy_dangling`, `proxy_locked` | expected violations (section 6). |
| `win` | `NumbersAreKept`: the numbers on the screen keep their devices. `WaitingIsServed`, `ResetIsNoticed`: the server's liveness, under a caller that keeps asking and threads that keep sending. `ClientGetsStylus`: whatever fails or throws, main comes back to the search until the stylus is found; whether it then notifies is decided by a request that nothing checks. `IdleDeviceIsClosed`: without a client the device is closed. `ClosedEndsWait`: when only Closed events are under way while main waits, of this session or an earlier one, a lost session ends the wait. |
| `win_lost` | expected violation (section 6). |
| `client` | `WholeMessages`, `NeverOlder`: pieces, lost connections and restarts of the server never mix or reorder messages. `OwnDescriptor`, `ReturnEnds`: the destructor. `FindsServer`, `GetsMessages`: reconnection and delivery. |
| `service` | `TimeoutFollowsMode` (one timeout, which polls while awake and is slow only when idle), `RadioFollowsMode`, `PublishedIsRemembered`, `OnlyActivityWakes`, and, under fairness, `LeftAloneSleeps` and `RestIsPublished`. |
| `polhem` | `OneIntervalAtFirst`; `ButtonKeepsSending`, an interval runs right after each edge; under fairness `LastIntervalStops`, once the button is left alone the interval started last is stopped, after the first sleep and after any later one. Earlier intervals may print on (section 6). With the numbers of timers used again in every way. |
| `teensy` | `EnabledIsWatched`, `DutyIsLimited`, `RecordedIsApplied`, `SilenceStops`, with the watchdog and the button between any two statements. |
| `serial` | `CounterFollows`: the counter is exact after a calibration, and never more than four steps off before one. `AnswersInStep`: as long as the device answers within the host's second, each `getPos` returns the position for its own message, whole, and at most one step of the axis off. |

### Bounds

| Instance | Bounds | Why they are enough |
|---|---|---|
| `SocketServerSafety` | 2 connections, 2 threads, 2 samples, backlog 1, 2 samples per socket buffer, 3 broadcasts, one life of the server | two senders contend, a client joins between broadcasts, one client's failure is seen by the iteration for the other, a full buffer blocks `send`, one client waits while another is accepted |
| `SocketServerDisconnect` | 1 connection, 1 thread, 2 broadcasts | a counterexample needs no more |
| `GlibProxy` | 1 connection, 2 signals, 2 broadcasts | one client is enough for the link to be wanted or not; a second Ctrl-C during the first one's handler, on the listener, or after it has done its work. That a second client changes nothing in the safety properties is what the theorems show |
| `GlibProxyDangling`, `GlibProxyLocked` | 1 broadcast, at most 1 signal | each isolates one cause |
| `WinProxy`, `WinProxyLost` | 1 connection, 1 pool thread, 1 (0) broadcast, 1 event of each status under way; `win`: a device with the stylus' service or another one, `win_lost`: with another one behind it; 3 devices, 2 of them with names; base 2 and numbers up to 2 instead of base 10 | an Active of an earlier session and this one's Closed are under way together and are delivered in either order, and each races main's writes and the end of the session; where the order of services matters the stylus has one behind its own; a second and a nameless device, a number of one digit too many and one of a device that is not there |
| `AClient` | messages of 2 bytes, 3 messages, 2 starts of the server, 1 round | a message can be cut in two, be followed by another in the same connection and in the next |
| `StylusService` | threshold 2 instead of 1500, 3 tokens, 2 waiting edges, 4 readings | the threshold is reached, passed and reset; a second and a third timeout would be visible; the readings give the initial value, 0, the largest value and one with a high byte |
| `PolhemStylus` | 6 timer numbers | an edge finds three numbers in use and as many free ones, one of them the stale one |
| `TeensyLoop` | currents 6000, 6001, -6000, -6001 | both limits and their outer neighbours; the proof covers all others |
| `SerialLink` | 5 positions, answers of 2 fields and 1 blank for 60 and 3, 3 messages, 2 probes that may go unanswered | the axis passes through all four states of the pins; two messages can be ahead of their answers; the odd byte of a 64 byte answer can stand before, between and behind the others. After a late answer the run goes on, but `AnswersInStep` says nothing more: the host never resynchronises |

`MaxSends`, `MaxSignals`, `MaxEdges`, `MaxMessages`, `MaxRestarts`, `MaxEvents`,
`MaxTyped`, `MaxSent` and `MaxProbes` bound what the environment does and are
guards of its actions only; nothing in the code depends on them. `b2` needs three
free numbers, which bounds how many intervals the button may start.
`AllowRestart` is FALSE in the runs: `stopServer` is never reset, so after
`Shutdown` a second `Start` gets a listener that leaves at once. Nothing in the
repository restarts a server.

## 4. Fairness

- *Threads that can run do run* (WF on the steps of `Listen`, of the main
  thread, of the client's thread, of the callbacks of the interpreter and of
  `loop()` outside its wait for a line).
- *The mutex is not withheld for ever from one thread* (SF on the steps that
  need it). The other threads hold it briefly: the monitor runs every
  millisecond, notifications are rarer.
- *`select` goes on reporting a waiting connection and `accept` does not fail
  for ever* (SF on `SelectReady`, `Accept`), and in the proxy *every ready
  source of the GLib loop has its turn*, *a stylus that is asked again and again
  is at last reached* (SF).
- *The signal handler goes on as far as it can* (WF on `OnUserAbort`). Nothing is
  assumed of a call into a library whose lock the interrupted code holds: it
  does not return.
- *A connected client reads* (WF on `ClientReads`). `Send` writes to blocking
  sockets while it holds the mutex. A client that never reads would block every
  caller, `Shutdown` included. `SocketClient`'s thread does read.
- *A status event is delivered, and a stylus that is asked again and again is at
  last reached, has its service and yields its characteristic* (`WinProxy`: WF on
  the delivery of some event, in no order, SF on `Reaches`, `Answers`,
  `Subscribes`). Nothing is assumed of the user at the prompt; the properties
  begin with a client or a device.
- *A timer fires*, in `TeensyLoop` unless it is restarted again and again (WF
  on `wdCallback` while the loop is not just about to restart it). No message is
  promised.
- Nothing is assumed of the user, of clients that connect or close, of signals,
  of messages, or of a link that breaks.

## 5. Proofs

All constants are arbitrary but for the named assumptions beside their
declarations: `ServerAssumption` (`Nobody` is no thread, `NoSocket` no
connection, the bounds are naturals), `ProxyAssumption` (`Main` is one of the
threads), `ServiceAssumption` (readings have 11 bits, the threshold is
positive), `AmpsAssumption` (currents are integers), `FinderAssumption` and
`WinAssumption` (a base of at least 2, named devices are devices, lists of
services), `ClientAssumption` (messages are not empty), `PolhemAssumption`
(`undefined` is no number of a timer), `PositionsAssumption` (positions are
integers), `LinkAssumption` (an answer has at least one byte of numbers and one
blank). TLC evaluates them in the runs.

Every safety invariant and every action property that a run checks is the
subject of a theorem. Some theorems state more than any run does: they say why
a liveness property may be expected to hold, or what is at the bottom of a
finding of section 6. Two theorems about `Start` have a hypothesis of their own,
`~AllowRestart`.

**SocketServerProofs.** The invariants are stacked, each proved under the ones
below it.

1. `TypeInv`, `TypeOK` with "a socket is held exactly in `store`": without it the
   element that `Store` puts into the list has no type. → `TypeCorrect`.
2. `LockInv`, `LockDiscipline /\ SocketAccounting` with "a connection unused by
   the client is unused by the server": it makes a new connection different from
   every open one. Two lemmas say what the mutex gives: when it is free no
   iteration is under way, and at most one is. → `LockCorrect`,
   `AccountingCorrect`.
3. `QuietInv`, that before and after the listener's life every connection is
   closed, and the listening socket too if the last `Start` succeeded.
   → `ShutdownCorrect`. What that leaves out is a theorem of its own:
   `RunningListens`, a listener runs on a socket that listens, so that no step
   closes an "unbound" descriptor → `UnboundStaysOpen`.
4. `StartInv`, the phases of `Start` against those of the listener, only for
   `~AllowRestart`. → `StartCorrect`, `NoThreadOverwrittenCorrect` (`Start` never
   assigns to a thread that was not joined). With a
   restart both statements about `Start` would be false, which is why they carry
   the hypothesis.
5. `StreamInv`, `StreamsAgree` with "the thread in `Send` sends the last element
   of the log" and "nothing is sent before a connection is stored".
   → `StreamsCorrect`.
6. `FeedStep`: every step is, under the refinement mapping `StreamsNow`, one of
   `StylusFeed` or a stutter. The mapping counts the sample under way as
   delivered as soon as `Send` has the mutex. → `ServerImplementsFeed`.
7. `ResetIsClosed`: a reset connection was closed by its client, so that of the
   detection's removals only those of a failed `select` remain
   → `HealthyClientsStayCorrect`.
8. `Agree`, of two streams the shorter one is the end of the longer one, is kept
   by each action of `StylusFeed`: `FeedAgrees` is a theorem about the abstract
   specification, and `ServerImplementsFeed` carries it to the clients of the
   server → `ClientsAgreeCorrect`.
9. Two stable states. `Closing`: once `Shutdown` was called and `Listen` is out of
   its loop, no connection is opened again, whatever `AllowRestart` is
   → `RestartServesNobody`. `Stuck`: with a full buffer before it `Send` keeps the
   mutex, which `LockInv` says is its own, until that client reads or closes
   → `SendWaitsForClient`. It is why fairness of the clients has to be assumed.

**GlibProxyProofs.** `ProxyStepIsServerStep`: each step of the proxy is a step
of the server or leaves it alone, because the proxy is built from the server's
actions. So the server's invariants hold of the proxy, and
`ProxyImplementsFeed`. `LinkInv` ties `link` to `gattConnection` between the two
statements of each operation on them. → `NoForgottenLinkCorrect`. `ExitInv`: the
loop stops only after the handler has joined the listener, and nothing revives
it; with the server's `QuietInv` → `ExitClosesSocketsCorrect`. `AbortInv`: once
the handler has been past `deActivateConnection` there is no handle and none is on
its way, unless the last signal came when the main thread had found `doQuit`
false and had not yet assigned one → `ExitClosesLinkCorrect`. Two states from
which there is no way back. `Missed`: a signal has been handled before
`g_main_loop_run` set the loop running; without a further signal the loop runs on
without a listener → `MissedIsForEver`. `Deadlocked`: the handler joins while
the thread it interrupted holds the mutex and the listener has not ended; no
step of the listener, the clients or the stylus leaves it, only the abort of a
second signal on the listener does → `DeadlockIsForEver`, what is behind
`proxy_locked`. `HandleInv` names the two places in which the handle that main
keeps is freed, one of them what is behind `proxy_dangling` → `HandleCorrect`.

**WinProxyProofs.** As for the other proxy, each step is a step of the server or
leaves it alone → `WinUsesServer`, `WinImplementsFeed`. `FinderInv` adds to
`NumbersAreKept` that the device a callback has pushed is the last of the list
until it is printed, which is why the number it prints, the length of the list,
is that device's. → `NumbersCorrect`. `Hidden`: a
value handler is registered, the session is lost, and neither does `sessionStatus`
say so nor is a Closed under way. `SessionInv` says where the handlers of both
kinds are registered. With it a step makes a loss hidden only if it delivers an
Active or is main's own assignment for a service (line 120): the loss itself puts
a Closed under way, and no failed call, no release and no other delivery hides
one. → `LossIsSeenCorrect`.

**SocketClientProofs.** What has to be shown of the bytes is stated of one line:
`dataBuffer` followed by `stream`, what the thread has read and what is still
under way. `LineInv`: the line is in order (`InOrder`, each byte follows the one
before it, within a message or from the last of one to the first of a later
one), begins with a first byte, ends with a last one while the server is up, and
holds nothing older than what `Get` returns. A buffer of `dataSize` bytes that is
such a line's beginning is a message (`WholeIsMessage`), and everything behind it
is newer. `ReceptionStep` shows that every step keeps this.
→ `WholeMessagesCorrect`, `NeverOlderCorrect`. `DescriptorInv` ties the
descriptor to the place of the thread → `OwnDescriptorCorrect`. `ReadingInv`: the
thread calls `recvfrom` for the first bytes of a message only when `select` has
seen some, or the end. With `LineInv`, by which a line that does not end in the
middle of a message cannot be a part of one only, a blocked thread has bytes or
the end of the connection coming → `BlockedIsWokenCorrect`, the safety half of
`ReturnEnds`. `MainUsesClient` carries all four over to the example client.

**StylusServiceProofs.** `PackUnpack`: the host decodes what the stylus encodes,
for every rotation. The inductive invariant is the conjunction of `TypeOK` and
the invariants of the run; `UpdateKeeps` shows that one run of `updatePossition`
keeps it whichever callback runs it. → `TimeoutCorrect`, `RadioCorrect`,
`PublishedCorrect`, and from it the action property → `WakesOnlyByActivity`.

**PolhemStylusProofs.** `StaleIsNoInterval`: before the first sleep the number in
`energyTimeout` is free or that of a timeout, never that of the interval, because
an interval is only started by the start and after a sleep. With it
`OneIntervalAtFirst` is inductive. → `OneIntervalCorrect`, `ButtonCorrect`. Under
the same invariant a timeout of `sleep` is set whenever the interval started last
runs, before the first sleep and after any later one, because `b2` sets one in
the callback in which it clears one → `SleepIsArmedCorrect`, the safety half of
`LastIntervalStops`; and an interval that neither `bluetoothInterval` nor
`energyTimeout` names (`Orphan`) stays one → `OrphansRunOn`.

**TeensyLoopProofs.** `DutyRange`: for every integer the limited current gives a
duty between 819 and 7371. `LoopInv` adds to the properties which kind of
message is at which statement and which motors have been written.
→ `DutyCorrect`, `WatchedCorrect`, `ReportCorrect`. From the last one: between two
messages the motors are all at the currents of the answer, or all stopped
→ `RestIsWholeCorrect`.

**SerialLinkProofs.** First the encoder alone. The invariant has a phase for what
has been read. In
`Unread` and in `BackwardsA` and `BackwardsB`, where one channel has been read and
the other one is taken for 0 but is 1, the first transitions count backwards, by
at most two. From then on the encoder `Follows` with a loss that is fixed: the
channels as read are those of the position, or of its neighbour while a handler
is to come, and the counter is off by the loss and that step. A calibration in
this phase sets the loss to 0; one in an earlier phase leaves it bounded.
→ `CounterCorrect`, for an axis of any range, and because the link moves the
encoder as it moves alone (`LinkHasEncoder`) → `LinkCounterCorrect`.

Then the bytes. `InStep`, the inductive invariant as long as nothing was late,
says what is in the line in each state of the host. While it probes: the newline,
or its answer. Once it is online: the lines that are under way are the newest
messages in their order, and the bytes that the host has not read are whole
answers to the messages between those and the ones read, with at most the odd
last byte of the newline's answer of 64 bytes before them. So a block of 63
bytes starts with that byte, in place of the previous answer's last blank, or with
an answer (`Blocks`, `InBlock`), and `ParseWhole` shows that `Parse`, which skips
blanks, finds the one whole answer in it. The error of an
answer is bounded by the encoder's invariant at the time of the answer. →
`AnswersCorrect`, for answers of any size and any number of messages and
newlines.

**Model-checked only.** The fifteen liveness properties: the prover handles
neither fairness nor ENABLED. No safety property is left to TLC alone.

## 6. What the code does otherwise

Each of these is a run whose property states what a line of the repository says,
and which TLC refutes.

| Run | The repository says | The code does |
|---|---|---|
| `server_disconnect` | `SocketServer.cpp:150`, "Inactive or broken connection, close and remove" | `recvfrom` returns 0 for a client that closed its end and only `res < 0` counts (line 144): the connection stays until a `Send` fails, and `HasActiveClient` says true until then |
| `proxy_dangling` | `glibMain.cpp:93`, "If active client, sets up BLE connection" | when `gattlib_notification_start` fails (line 75) the handle is freed but `gattConnection` keeps it, so the proxy never connects again |
| `proxy_locked` | `glibMain.cpp:142`, "Press ctrl-c to quit." | a signal while the main thread holds the mutex joins a listener that waits for that mutex: deadlock |
| `win_lost` | `winMain.cpp:32`, "keep track of session status (connected or not)" | line 120 sets `sessionStatus` to Active for every service: a Closed that came after the stylus' characteristic was found is overwritten when the next service is visited, and main waits for a session that is gone |

Noted while modelling, and described by the models but not the subject of a run:

- `SocketServer::Start` returns true when the server runs already and when a step
  fails, `listen` included (line 71, although its comment says "No error"), and
  false on success; neither `main` looks at the result. When `remove`, `bind` or
  `listen` fails the socket stays open, and no later call closes it
  (`UnboundStaysOpen`).
- A `select` that fails in `DetectDisconnectedClients` (lines 135-140) removes a
  client that is neither "Inactive" nor "broken" (line 150). `HealthyClientsStay`
  has this exception.
- A SIGINT between `monitorConnection`'s test of `doQuit` and the assignment of
  the handle finds none to close; the link is then completed and left open when
  `main` returns, although `glibMain.cpp:146` says "closes connections and cleans
  up". `ExitClosesLink` says that this is the only way.
- `on_user_abort` calls gattlib and GLib, neither of which may be called from a
  signal handler. When the signal interrupts the main thread while it holds a lock
  that the handler needs, the handler never gets past that call (`heldLock`). It
  calls `printf` too, whose lock is taken to be recursive, as in glibc.
- SIGINT is a signal of the whole process: a second Ctrl-C while the handler waits
  for the listener runs the handler on the listener, which joins itself and
  aborts (`InterruptsListener`).
- `aClient` compares one `Get` and prints a second one, between which the value
  may have gone back to the one printed last; `aClient.cpp:14` speaks of 1000
  different values, the loop ends after 100.
- `winMain`: the request for notifications of line 151 is neither awaited nor
  checked; when it fails main waits with a stylus that stays silent. Status events
  carry no order, so that an Active of an earlier session that is delivered late
  hides the loss of this one (`LossIsSeenCorrect`). The loop of line 131 that
  should wait up to ten seconds ends at once (`||` for `&&`), and `get()` waits
  instead; `ValueChanged(token)` revokes the handler, the status handler's token
  is never stored; a device that has gone makes `FromIdAsync` yield nothing
  outside of the try block.
- `BLEdeviceFinder`: the list has no lock (`ReadsTornList`), and `getline` keeps one
  digit, so that the tenth device and those after it cannot be chosen and "12"
  selects the first.
- `polhem_stylus.js`: `energySavingMode` is never reset and `sleep` stops the last
  interval only, so that after the first sleep each edge starts an interval, of
  which all but the last go on until the next reset; the timeout has 60 seconds
  where line 20 says 5 minutes.
- `uhaptikfabriken.h`: a host that has waited a second takes a late answer for the
  next one, and a newline's late answer of 64 bytes, the counters of the encoders,
  for a position; it never resynchronises. On a time-out the buffer, filled with
  the character 0, is parsed as it is (line 256, 432). The message of
  `sendWakeupMessage` has command 2 and uninitialised forces; the device limits
  the currents that follow from them.
- `polhem_teensy.ino`: `encoder_raw` starts as 0 whatever the pins are, which loses
  up to three steps before the first calibration.
- A SIGINT between the installation of the handler and `g_main_loop_run` is lost:
  `g_main_loop_run` sets the loop running again, and the proxy runs on with no
  server until another signal (`MissedIsForEver`).
- In `stylus_service.js` the two buttons have opposite polarity and write the
  same `btn`; the first edge of the pulled-up button after boot can equal the
  initial `preButton` and count as no activity.
- `preRotation` starts as 1, so a sensor that rests at 1 from boot is not
  published until something changes (the exception in `RestIsPublished`).
- Readings 0 and 1023 (of 10 bits) normalise to the same rotation.
- In `polhem_teensy.ino` the motors are enabled before the new currents are
  written; after a watchdog that fires between the two, they run at no current,
  and before it at the previous one, for the duration of a few statements.
- In the build of the sources the answer carries the gimbal angles
  (`AMPS_INFO_INSTEAD_OF_GIMBAL` is false), so the recorded currents of
  `RecordedIsApplied` reach the host only in the other build.
- The destructor of `SocketClient` and its thread may both close the same
  descriptor number, between which another thread of the process may have got it.

## 7. Not modelled

- `firmware/simple.js`, the CMake files, `pch.h`, `etc-initd-stylus` and the
  documents: no state, or none worth a property.
- In `polhem_teensy.ino`: the kinematics, the SSI reading of the fifth axis, the
  display, the bridge to a second serial port (not compiled in), lines longer than
  the buffer, and `esconThread`, which `setup` does not start. In
  `uhaptikfabriken.h`: the port's settings and its search, matrices and vectors,
  and the datagrams to a Bluetooth server (not compiled in).
- The decoding of the two bytes in `aClient.cpp`, which depends on the
  signedness of char; `Unpack` of `StylusService` is that of `uhaptikfabriken.h`.
- Argument parsing, printing and the wording of messages everywhere.

## 8. Plan

Modelled first was what all clients depend on: the server, then the proxies
around it, then the two ends of the chain (stylus and client), then the haptic
device and its serial line. All components that keep a state are modelled, two of
them partly. What is left, in the order of what it would add:

1. `SerialLink` composed with `TeensyLoop`: the mode and the watchdog of the one
   with the lines of the other, so that a host that falls behind is seen by the
   motors; lines longer than the buffer, which `loop()` cuts.
2. The two bytes of the stylus as `aClient.cpp` decodes them, and the chain from
   the stylus over a proxy to a client as one composition, with an abstract
   specification of what the last reader may see.
