# Verification of the Linux System Monitoring Library

This directory holds TLA+ models of the library in `lib/` and of its two
example programs, the configurations with which TLC checks them, and theorems
about them that TLAPS checks for every value of their constants. Paths below are
relative to the repository (`src/`); line numbers refer to its files.

To repeat a check: `tlc -config <run>.cfg <module>` with the pairs of the table
under *Runs*, and `tlapm <module>` with the modules named `...Proofs` and
`DataLemmas`, what they share.

## Inventory

The library is C++ that reads `/proc`, with one piece of real concurrency, the
timer. Two programs use it: `example/simplemonitor`, whose timer callbacks
sample the system, and the websocket service, in which a worker thread samples
it and hands each sample to the connected sockets.

| Component | Source | State it keeps | Operations |
|---|---|---|---|
| Timer | `lib/util/timer.hpp`, `timer.cpp` | the singleton `instance`, `b_isRunning`, `wait_thread`, the vector `v_observables`, and per observable `nextExecution`, `isFinish`, its futures | `singleShot`, `periodicShot`, `futureWatch`, `stop`, `isRunning`, the `dispatcher` thread, `notify()` and the destructor of three kinds of observable |
| recordValue | `lib/util/record_value.hpp` | the last `stepSize` values, `firstTime` | `addRecord`, minimum, maximum, average |
| networkLoad | `lib/linux_networkload.*` | `timeStamp`, `networkstatMap`, per rate the last total and its time, `isDeviceAvailable` | the constructor, six getters, formatting, `scanNetworkDevices` |
| cpuLoad | `lib/linux_cpuload.*` | previous counters of the CPU and of each core | current usage, of the CPU and of the cores |
| memoryLoad | `lib/linux_memoryload.*` | total and available memory, the time they were read | usage in percent and kB |
| linuxUtil | `lib/linux_systemutil.*` | none of its own; the kernel's processes and pipes | daemon start, search by name, kill, ping; figures of the system |
| linuxsysmonitor | `example/LinuxSystemMonitor_WebsocketService/linuxsysmonitor.*` | `list_observer_`, `run_b`, the detached worker | `Attach`, `Detach`, `Notify`, `run`, `setRunB`, the sampling |
| websocket server | `example/LinuxSystemMonitor_WebsocketService/main.cpp` | a `PerSocketData`, an observer, per socket | open, message and close handlers, `Update` |
| simplemonitor | `example/simplemonitor/main.cpp` | objects on the stack of `main()`, captured by callbacks | periodic callbacks, `stop()` after a minute |
| data records, web page, tests | `data/*.hpp`, `*.html`, `tests/` | - | generated conversions, a demonstration page, placeholder tests |

How they interact:

* A user calls the static API of **Timer** on any thread, from a callback too.
  The call appends to the vector that the dispatcher thread walks. The
  dispatcher starts each callback with `std::async`: for slots and watched
  futures it waits for it, for `ITimerObserver`s it does not.
* **simplemonitor**'s callbacks are slots of one timer: they call the getters of
  the sampling classes, write and read a `recordValue`, and share variables of
  `main()` without locks, which is right only as long as they exclude each
  other and end before `main()` does.
* **linuxsysmonitor**'s worker walks `list_observer_` and calls `Update()`,
  which sends on a socket. The thread of the event loop adds observers to that
  list in the open handler, removes them in the close handler, and frees them.
* Both programs ask **networkLoad**, **cpuLoad** and **memoryLoad** for several
  figures of one sample, one after the other; each class keeps what it read last.

What is hard here, and the properties that would make each part correct:

* *The one timer*: a static pointer that any thread may find null, made and
  replaced without a lock, while others are about to use what it holds; and
  freed, with what the callbacks have captured, at the end of a process that no
  thread waits for. Correct: callers share one timer, nothing freed is used,
  `main()` returns.
* *Timer*: an iterator over a vector that callers extend and the loop erases
  from (`erase(it--)`); futures whose destructor or assignment waits; a start
  flag set after the thread that reads it has begun; exceptions leaving a
  thread; a wait for something only the waiter could bring about. Correct: each
  scan visits each observable exactly once; callbacks of slots exclude each
  other; none outlives its observable; single shots fire once and go; intervals
  are kept; everything due is launched; stop ends the thread.
* *linuxsysmonitor and server*: a linked list changed on one thread and walked
  on another. Correct: the list holds the open sockets, each sample reaches each
  once, and nothing freed is used.
* *recordValue*: a vector shifted on one thread and read on another. Correct:
  the window is the last values in order, and a reader sees no stray value.
* *networkLoad*: throttled readings, openings that fail in silence, wrapping
  unsigned counters, lines found by substring. Correct: a rate stands for bytes
  that were moved between two readings, what is returned is recent unless a
  reading failed, figures of one sample agree.
* *cpuLoad and memoryLoad*: baselines kept between calls, cores that go offline,
  files that cannot be opened, figures put together from two readings.
* *linuxUtil*: processes that come, go and change under a search and between the
  search and the signal; forks that fail half way; pipes that nobody closes.

Every hazard, with its line and the properties about it, is in `PROJECT.json`.

## Modules

### Timer, TimerService, TimerInv, MCTimer, TimerProofs

`Timer` has a program counter `pc` for the dispatcher, one per call of the API
(`call[o]`, since each observable is attached by one call) and the set of live
async threads `tasks[o]`. The vector is a sequence with its capacity and a
`buffer` number: `push_back` on a full vector takes a new buffer, and the
dispatcher's iterator `it` remembers the one it points into.

| Action | Code (`lib/util/timer.hpp`) |
|---|---|
| `Call` | the static functions and `createTimer()`, 208-225; the first call starts the dispatcher, 261-264 |
| `Start`, `Detach` | `start()`, 241-246: test of the flag, then the flag set and `detach()`, which throws if the thread was detached before |
| `PushBack`, `PushRaces` | `Attach...`, 248-292; the second when it meets another `push_back` or `erase` half done |
| `Stop` | 233-235 |
| `Loop`, `While`, `Wake`, `EndScan` | the loops of `dispatcher()`, 294-310 |
| `Skip`, `LaunchSlot`, `LaunchTimer`, `Assign`, `Watch`, `Get`, `GetThrows`, `Join` | `notify()` of the three kinds, 60-202 |
| `Keep`, `Destroy`, `Drain`, `Exit` | `toDestroy()` and `erase`, 302-305, and the clearing of the vector, 311-313 |
| `Return`, `Fail` | the end of a callback, by return or by exception |
| `Resolve`, `Tick` | environment: promises of watched futures; the clock |

Decisions a reader should know:

* The dispatcher's mutex is left out: no other function takes it, and the
  condition variable is never notified, so `wait_for` is a delay of any length
  (the fields `time` and the count-down from 10 only change that length).
* Undefined behaviour is a choice of outcomes. An iterator into a freed buffer
  leads to a fault (`StaleAccess`); concurrent changes of the vector may lose
  the element or end the process (`PushRaces`) or go one after the other.
  `erase(it--)` at `begin()` is undefined by the letter, and taken to do what
  the pointer iterator of the usual libraries does.
* Time is relative: `untilNext` is `nextExecution - now`, so no bound on the
  clock is needed. `system_clock` is assumed not to be set back.
* `launches` is cut off at 2, `sinceLaunch` at the interval; both are history.
* There is one timer, made by the first call. How it is made by several threads
  at once, shared and destroyed is `TimerLifetime`'s question.

`TimerService` is the promise to a user: an observable is *free*, *armed* or
*retired*; it fires when armed, not spent and a full interval after the attach
or the launch before; slots exclude each other, an observer overlaps itself at
most once; it retires only while no callback runs. `Timer!ImplementsService` is
the refinement, with the mapping at the end of `Timer`.

### TimerLifetime, MCTimerLifetime, TimerLifetimeProofs

The same `timer.hpp` from outside, under `simplemonitor`'s `main()` (`pc[Main]`),
beside threads that attach a slot each (`Others`) and threads that call `stop()`
(`Stoppers`). Several timers may exist, each named by the thread that made it.

| Action | Code |
|---|---|
| `Call`, `Make`, `AssignInstance`, `Copy`, `Count` | `createTimer()`, `timer.hpp` 208-213: the test, `make_shared`, the assignment, and `return instance`, whose pointer is read before its holders are counted |
| `Start`, `Detach`, `Push` | `start()` and the attaching |
| `StopBeside`, `SleepAndStop`, `IsRunning` | `stop()` and `isRunning()`, through a pointer that may be null |
| `FreeLocals`, `DestroyStatics`, `Exit` | the return of `main()`, `simplemonitor/main.cpp` 93-100 |
| `Dispatch` | the dispatcher as far as it uses the timer and, in `Callback`, the locals of `main()` |

A timer is freed when neither `instance` nor a call holds it (`Freed`); a thread
that was not detached then ends the process (`Release`). `fault` says what the
process died of, and nothing is modelled after. `raced`, `hasty` and
`leftOthers` are history: which of the assumptions that the code makes of its
callers was broken. They say when each fault can occur (`DeathsAreKnown`); the
program by itself, a `main()` that attaches alone, breaks none of them until it
returns. Its return is another matter: `stop()` does not wait, so `main()` may
free `cpu`, `memory` and the rest under a callback (`leftOthers`). One way to die
is not in this list: a `push_back` that moves the vector under a scan, which is
`Timer`'s.

All slots are periodic and may be due at any scan. Intervals, erasure and what
`push_back` does to a scan are `Timer`'s. The signal handler of the example sets
a flag that nobody reads, and its five-minute slot is attached like the others
though it does not fire within the minute.

### SysMonitor, MCSysMonitor, SysMonitorProofs

The worker thread (`worker`, `elem`) and the event loop (`loop`, `ws`) of the
websocket service with the `std::list` between them. The worker's actions are
`linuxsysmonitor.cpp` 18-30 (`Awake`, `Sample`, `EndRound`) and 112-116
(`Begin`, `Update`, `Sent`, `Advance`). The loop's are the handlers of
`main.cpp` 146-181 with `PerSocketData` 41-87 (`Open`, `Attach`, `Greet`;
`Message`, `Echo`; `Close`, `Detach`, `Destroy`), a failing `listen()` and the
return of `main()` (`Listen`, `Return`).

A node is named by its socket. Once a node is freed under the worker, its
iterator may lead anywhere (`Advance`, `Update`) or the process may die; the
history variable `undefined` records that this has happened, and the properties
about rounds excuse what follows. uWebSockets is external: it runs one handler at
a time and frees the `PerSocketData` after the close handler. The SSL branch
differs by an upgrade handler that upgrades nothing; it is left out.

### NetworkLoad, MCNetworkLoad (proofs in MonitorSampleProofs)

`NetworkLoad` is one `networkLoad` object. `Construct` is 22-49 of
`linux_networkload.cpp`; a getter (154-256) is `Call`, then for rates `Parse`,
then `ReadTotal` or `ReadRate`, then `Rate`, so that time may pass and the file
change between its steps. `parseEthernetDevice` (51-127) is an operator inside
them, with its throttle (`Throttled`) and search by substring (`Matching`).
Figures are unsigned, modulo `Modulus`. The environment moves the counters
(`Tick`, by one of `Flows` for each busy device), removes a device (`Vanish`) and
lets one appear (`Appear`), counting from 0. Parsing of numbers is left out.

Three things the code does that the model keeps:

* The time stamp is set (57) before the file is opened, and an opening that fails
  (69-71) returns as if nothing were wrong: the old figures stay for another
  second while the device counts on, and the caller is not told. `NothingRead`
  is always possible, as it is when there is no matching line.
* `find()` looks for the name anywhere in a line (100) and the first line wins,
  so `eth0` may take the line of `veth0`, and change over when one of them comes
  or goes. `readme.md` 15 promises bytes "per Network Device", which this is not:
  a rate from readings of two devices is any number. The same holds of a device
  that is removed and comes back counting from 0 (the difference wraps).
* What `getRXBytesSinceStartup()` returns is the map's entry `TXbytes` (199), and
  the other way round for TX: the kinds `rx` and `tx` of the model are the
  getters' names, not what their figures count.

The history says where a figure comes from: `mapOf` for the map, `totalOf` for the
figures the rates start from, `call.from` for `oldBytesTransceived`. An origin is
the device whose line it was (none, once that device has been replaced by one of
its name), the time of the reading, and whether an attempt to read it anew has
found nothing. `RateIsBounded` asks of every rate whose two figures come from one
device that it claim no more bytes than the device can have moved between the
two readings, and that these be no further apart than the calls and `Older`,
unless an attempt found nothing in between; then the rate may be several times
what the device can do. `FigureIsRecent` says the same of the age of what any
getter returns.

### ByteFigures (proof in MonitorSampleProofs)

`getBytesString` and `getBitsString` (258-375): a number as a whole number of its
largest unit and the hundreds of the next. `Up` and `Left` are one of the three
carries. The part behind the point can be 10: 2047 bytes are shown as
"1.10kByte", after "1.9kByte" for 1999. 1024 itself is not carried and is shown in
bytes. The bits are worked out modulo 2^64.

### MemoryLoad

One `memoryLoad` object. `parseMemoryFile` (`linux_memoryload.cpp` 16-39) is an
operator in the steps of the three getters: a reading is kept for `Keep` ticks,
and a file that cannot be opened leaves the old figures. `getTotalMemoryInKB()`
may read the file again in the middle of a difference or a percentage
(`Difference`, `Total`); the operands of the difference may be evaluated in
either order. The figures of a process (63-81) are read anew by each call and
change no state; they are left out.

### MonitorSample, MCMonitorSample, MonitorSampleProofs

The composition of both under the calls of `getlinuxSysMonitoringData()`: six
getters of a device (`linuxsysmonitor.cpp` 71-82) and three of the memory, with
the worker's sleeps (`Wake`, `Go`, `Sleep`). Rates are set in the sample as the
texts of `ByteFigures`. `Wait` and `Memory` are the environment between and
during the calls.

### CpuLoad, MCCpuLoad, CpuLoadProofs

One `cpuLoad` object, and the kernel's `counters` of each line of `/proc/stat`.

| Action | Code (`lib/linux_cpuload.cpp`) |
|---|---|
| `initcpuUsage`, `getCurrentCpuUsage` | the functions of those names, 15-57 |
| `initMultiCore`, `readBaselines` | `initMultiCore()`, which reads the file twice: the lines are counted and the vectors resized, 134-152; the file is read again from its beginning, 153-157 |
| `getCurrentMultiCoreUsage` | the function of that name up to its loop, 59-78 |
| `FindBaseline`, `FindUsage`, `PassLine` | a turn of either function's loop, 158-189 and 79-129: the next line is that of a core looked for, or not |
| `Return` | the end of a call, whose figures are in `percents` |
| `Tick`, `Unplug`, `Plug` | environment: the cores' counters; cores go offline and come back, as the kernel allows with an idle time that starts again |

`Candidates` is the search for a core's line, with its start at the number of
lines found so far. One reading shows the file of one moment, so the environment
rests within it; between the two readings of `initMultiCore()` it does not. The
counters of the line `cpu` are the sum of all cores', which the environment's
actions keep up.

User, nice and system time are one counter, `busy`: the code adds them up and
compares each. There are at most ten cores, so that `cpu1` is not found in the
line of `cpu10`, which on a larger machine takes nine cores that are offline. The
file is taken to open: when it does not, the two functions for the cores throw
before they change anything, but `initcpuUsage()` and `getCurrentCpuUsage()` hand
the null pointer to `fscanf` (16-17, 30-31), which is undefined. A figure of 0 / 0, two readings without a tick in
between, is NaN in the code and `total = 0` here. The vectors before
`initMultiCore()` are empty, where the code throws too. `open`, the ticks counted
that no figure stands for yet, and `fell` are history.

### RecordValue, MCRecordValue, RecordValueProofs

`addRecord()` element by element (`PushBack`, `Fill`, `Shift`, `Shorten`) beside a
reader that walks from the `begin()` to the `end()` it took (`Begin`, `ReadOne`,
`Finish`). In `simplemonitor` both are slots and exclude each other; the reader
here is an `ITimerObserver`, whose `Update()` does not exclude them, or a thread
of a client that reads the average while the timer fills the window. Values are
named by their number, so "in order" and "too old" can be said. The reader
starts after the first record: only before it does `push_back` move the vector
to other memory.

### SystemUtil, MCSystemUtil, SystemUtilProofs

The functions of `linux_systemutil.cpp` that act on processes, over the kernel's
table of them (`procs`): a controlling program looks for an application by name,
kills the number it found and pings a device, the application becomes a daemon
at the same time, and other processes start, change their program and end.

| Action | Code |
|---|---|
| `OpenDir`, `ReadDir`, `ReadCmdLine`, `EndDir` | `getProcIdByName()`, 40-70; `ReadDir` is what the kernel hands out at once, in the order of the numbers |
| `Kill` | `killProcessById()`, 72-82 |
| `Popen`, `ReadPing` | `isDeviceOnline()`, 202-225: `pclose()` only on the two verdicts it knows |
| `ForkChild`, `SetSid`, `ForkSecond`, `ChDir`, `ParentExit` | `startAppAsDaemon()`, 103-136 |

A number that is free may be given to any new process, so the one that was found
may be another's by the time of `kill()`. `KillsFoundOnly` says that there is no
other way to reach a process that was not found: `turned` records that the one
found has ended or changed its program between the search and the signal. The
search does not ask whether it could open `/proc` (42) or a command line (51), as
when the pings have left no descriptor: such a process is passed over though it
bears the name, and -1 is returned as for one that is absent. `unread` records
whom the search could not read, and `NotFoundIsAbsent` excuses these only. A process that nobody waits for stays
a zombie. Closing the files changes nothing here.

## Runs

| Run | Module | What it asks | Outcome |
|---|---|---|---|
| `timer_core` | MCTimer | slot that may throw, periodic observer, single-shot observer attached from a callback, `stop()` at any time: safety, refinement, liveness | holds |
| `timer_future` | MCTimer | watched futures, one fulfilled by a callback of the same timer; two calling threads | holds |
| `timer_early_exit` | MCTimer | does an observable that was attached fire, if nobody stops the timer? | violated |
| `monitor_rounds` | MCSysMonitor | three sockets come and go during rounds: list, rounds, liveness | holds |
| `monitor_freed` | MCSysMonitor | does the worker ever hold a freed observer? | violated |
| `timer_lifetime` | MCTimerLifetime | `main()`, a thread that attaches and one that stops: one timer for all, what the process may die of, a prompt `stop()`, and that `main()` returns | holds |
| `net_figures` | MCNetworkLoad | getters in any order, wrapping counters, openings that fail, two devices that match of which one comes and goes: how large a rate can be, and how old a figure | holds |
| `cpu_usage` | MCCpuLoad | all calls in any order, while cores go offline and come back | holds |
| `sample_totals` | MCMonitorSample | do the figures of one sample agree, and does the memory recover from a failed opening? | holds |
| `sample_bits` | MCMonitorSample | do bits per second agree with bytes per second? | violated |
| `process_table` | MCSystemUtil | search, kill, ping and daemon start among processes that come and go, with files that may fail to open | holds |
| `record_race` | MCRecordValue | the window, and what an overtaken reader sees | holds |

What the violations show:

* `timer_early_exit`: the constructor starts the dispatcher, which reads
  `b_isRunning` before `start()` has set it, leaves its loop and ends. The flag
  then says running, and every later attach is to a dead timer.
* `monitor_freed`: `Detach()` frees the node the worker's iterator is at; the
  Readme's mutex does not exist.
* `sample_bits`: the second call of `getRXBytesPerSecond()` in one sample finds
  the reading still fresh, so its difference, and `BitsRXSecond`, is 0.

### Bounds

* *Observables* (3 per timer run): one the iterator is at, one before and one
  behind it, of different kinds; the third attached during a scan so that the
  vector is reallocated under it. Intervals of 0 to 2 ticks give due and not due
  together. All relations in the properties are between at most two observables.
* *Sockets* (3): one the worker is at, one in front, one behind.
* *Second = 2 ticks*: a call can fall within a second of a reading or after it.
  `Slow = 1` lets a getter straddle the moment. `Peak = 1`, `Starts = {62}` and
  `Modulus = 64` let the counters wrap during the run. `MaxTime` leaves the
  construction and four more ticks in `net_figures`, so that an attempt to read
  can fail between two readings (at 2, 4 and 6) and a rate then exceeds the bound
  that holds without a failure. There `eth0` moves all it can (less is further
  from the bounds) and may be removed and come back, and `veth0` rests and takes
  its place meanwhile; the `VIEW` leaves out the value returned last, which no
  step and no property looks at. `MaxTime` leaves in
  `sample_totals` (where the counters wrap at 1024, so that the text of a figure
  is not always 0) the first three seconds of sleep, two samples and the interval
  between them. `Keep = 2` and `Haste = 1`: a sample is quicker than the time the
  memory's reading is kept, and the next one is not. The two states of the memory
  differ in the total as well as in what is available.
* *Cores (3), two changes, two calls of `initMultiCore()`*: a core in front of and
  one behind the one that is offline, a core that goes and comes back, a number of
  cores that is counted too low and then too high. `Loads` keeps one core busy and
  the others idle; no property depends on how many are.
* *Threads of `timer_lifetime`*: `main()` with two slots, so that it calls again
  after others have, one thread that attaches and one that stops. Three timers
  cannot race in another way than two: `instance` holds one, and the rest are
  freed.
* *Processes (4), pipes (2)*: the application needs three numbers while it forks,
  and a fourth is another's; one pipe can be lost and another used.
* *stepSize = 4, MaxRecords = 10*: the window is replaced twice over.

Deadlock is checked where the system never stops. `CHECK_DEADLOCK FALSE` stands
where it may: the processes of the two programs end, and so may all processes of
`SystemUtil` but those that wait for each other; the clocks of `NetworkLoad` and
`CpuLoad` and the number of records are bounded.

### Fairness

*Timer*: weak fairness of the dispatcher, of the clock, of a call of the API once
made, and of the return of each callback (a callback that never returns blocks
the dispatcher by design), and of a callback's fulfilling the promise that is
its to fulfil while it runs. Nothing obliges a user to call, to stop or to
fulfil. *SysMonitor*: weak fairness of each of the two threads. `StopEndsWorker`
assumes besides that sockets stop opening and closing at some time, as a round
can be prolonged for as long as they do. *TimerLifetime*: weak fairness of
`main()` alone; that it returns needs neither the dispatcher nor the others to
run, and holds although others may set the flag again after `stop()`, as each of
them attaches once. All of this is what an operating system
gives runnable threads; `send()` and `/proc` reads are assumed to return.

## Proofs

For every set of observables, callers, kinds and intervals that
`TimerAssumption` allows, `TimerProofs` shows `TypeCorrect`, the invariants
`SlotsAreSerial`, `OverlapBounded`, `OwnersOutliveCallbacks`,
`SingleShotsFireOnce`, `ScansAreComplete`, `OnlyFuturesTerminate`, the action
properties `NotifiedOnce`, `SelfWaitNeverEnds`, `LaunchesAreSpaced`, and
`Refinement`: every step of `Timer` is a step of `TimerService` or leaves it
unchanged.

They rest on `TimerInvariant` (module `TimerInv`), of seven named parts. None of
the properties is inductive alone: that no callback outlives its observable needs
to know where the dispatcher is whenever a task runs (`TaskInv`), that the
iterator still points at the observable it notifies although the vector may have
grown (`IteratorInv`), and that the vector owns each observable once
(`VectorInv`); that a scan is complete needs what lies on either side of the
iterator (`ScanInv`); that intervals are kept needs the sum of the time since the
last launch and the time to the next (`TimeInv`); that single shots fire once
needs the marks a launch leaves (`MarkInv`). Each action has one step per part it
can disturb.

`RecordValueProofs` shows, for every `stepSize >= 1` and number of records,
`TypeCorrect`, `WindowHolds`, `ReadingIsOrdered` and `ReadingIsRecent` from
`RecordInvariant`: at any moment the cells below the moving hole hold the window
of the last value and the others the window before it (`CellsInv`), and what was
read of a cell can only have been overtaken since (`SeenInv`). The window is
stated cell by cell, so that no induction over the data is needed.

`TimerLifetimeProofs` shows, for any number of threads that attach or stop and
any slots of `main()`, `TypeCorrect`, `CallersShareTimer`, `DeathsAreKnown` and
`StopIsPrompt`. The argument has three stages (`LifetimeInv`). Until a call has
returned, and as long as no other was begun beside it, there is at most the
timer of that first call, still joinable, and nobody else holds anything
(`FirstCallInv`). From then on every caller finds `instance` set, the timer is
detached, and no call makes another (`SharedInv`). Once `main()` has left its loop
without leaving others behind, no dispatcher runs and nobody will call
(`InstanceInv`), so the destruction of `instance` frees what nobody uses. For
`StopIsPrompt`: a scan meets each slot once because the vector has each once
(`AttachedInv`), and one under way at `stop()` has launched only what is in front
of its iterator (`StopInv`).

`SysMonitorProofs` shows, for any set of sockets, `TypeCorrect`,
`ListIsOpenSockets`, `ServedAreInFront`, `ServedOncePerRound` and
`RoundServesAll`. The list invariant holds step by step once it is known that the
socket whose handler runs is alive. The round properties follow from
`ServedAreInFront`, which is inductive with it: a node added goes behind the
worker's, one removed in front of it or behind it takes its mark along, and one
removed under it sets `undefined`.

`SystemUtilProofs` shows, for any number of processes and pipes, `TypeCorrect`,
`LeaksAreSilentCalls`, `AppRunsOnce`, `NotFoundIsAbsent` and `KillsFoundOnly`.
What a search may miss rests on `SearchInv`: whoever bore the name from the start
is in store, has a number not yet handed out, or could not be read; and the number
that was found is that of a process that bore the name, since when it has kept it
or `turned` is set. That the application runs once
rests on `OnlyOne`: of its processes all but one are on their way to
`std::exit()`.

`MonitorSampleProofs` is about the sampling objects, alone and in a sample.

* `NetworkLoad`, for any devices, names, failures, speed, length of a second and
  modulus, without a hypothesis: `NetTypeCorrect`, `RateBound` and `FigureAge`.
  Neither property is inductive. `NetInv` bounds how far the kernel's counter of
  an origin's device has moved from each figure kept, by the time since the
  reading (`KernelInv`), and how far the map's figure has moved from that of the
  last rate, by the time between both (`MapInv`); distances are taken the way
  round (modulo `Modulus`), and where they might exceed it the bound holds of
  itself. That needs the readings in their order (`OrderInv`) and, for the time
  between them, how long after its reading a rate was worked out (`ClockInv`,
  `LagInv`). A device that is replaced leaves every origin, so that nothing is
  claimed of figures on both sides of that. A rate then divides the second
  distance by a time that is shorter by less than `Older`: a second and what
  passes within the getter.
* The composition: `SampleTypeCorrect`, and `SampleIsOfNetworkLoad`, every
  behaviour of the composition is one of `NetworkLoad`, so that the theorems above
  hold within samples.
* `SamplesAreConsistent`: the figures of a sample agree, if it is `Paced`. The
  worker sleeps for `sendInterval`, a second by default (`main.cpp` 229-230), a
  memory reading is kept for a tenth of that (`linux_memoryload.cpp` 17), and a
  sample is assumed to be quicker still. With a shorter interval or a slower
  sample the figures may stem from two readings, as the hazards say. The
  invariant has three parts: where time stands against both readings
  (`PaceInv`), what the figures taken so far say of the network's reading
  (`NetFigureInv`) and of the memory's (`MemFigureInv`).
* `MemoryIsRecent`, for any memory, time of keeping and length of samples: since
  the file can be opened, what was tried has succeeded (`TriedInv`).
* `FigureIsClose`: for every number of bytes the text is right to the hundreds of
  the smaller unit, and is "undef" for 0 only.

`CpuLoadProofs` shows, for up to ten cores and any comings and goings,
`CpuTypeCorrect`, `TicksCountOnce`, `SkipsAreFalls` and `CoresAreFound`. The
first two properties compare each line with its `Baseline`, what was last read of
it or zero: what it has counted since is in no figure yet (`OpenInv`), and it is
behind it only in its idle time and after a fall (`FallInv`). Every step moves
the counters on, reads one line, or does neither (`StepKinds`). That all cores
are found rests on `SearchInv`: the number of a core is never less than that of
the lines found before it, so the loop, which starts at that number, comes to it.

`DataLemmas` holds what these proofs share: what `RemoveAt` leaves of a sequence,
the least of a set of numbers, by well-founded induction on intervals, and sums
that wrap round.

Only model-checked: what must eventually happen (`DueIsLaunched`,
`SpentIsDestroyed`, `StopEndsDispatcher`, `SampleReachesAll`, `OpenIsServed`,
`StopEndsWorker`, `MainReturns`), since the prover cannot express arguments about
ENABLED. All invariants and action properties of the passing runs are proved,
and so are the type invariants of all modules.

## Not modelled, and the plan

What a further extension would take up, in order:

1. The CPU part of a sample. `linuxsysmonitor.cpp` 56 numbers the figures of the
   cores by their place in the list, so behind a core that is offline each bears
   the number of another; and a core numbered at or above the count of lines is
   never looked for, so `EveryCoreIsFound` is about the cores below the count.
2. `scanNetworkDevices()` (`linux_networkload.cpp` 129-152), which the monitor
   calls once: devices that appear later are never sampled.
3. The SSL branch of the websocket service: it sets an upgrade handler that
   upgrades nothing, and what becomes of the connection depends on uWebSockets.
4. A `stepSize` of 0 in `recordValue`, from an observation time shorter than the
   update time, which `RecordValueAssumption` excludes.

Left out for good: the generated JSON records, the stateless readers of
`linuxUtil` and of `memoryLoad` (one value from a file each: pure I/O),
`getCPUName()`, the web page, the tests (they test a factorial), the thread
safety of `send()`, and the sources of uWebSockets, which are not in the
repository.
