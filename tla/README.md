# TLA+ models of esp32s3-slam

Models of the data logger and its host: the camera and IMU pipelines, the
cooperative shutdown of their tasks and the operating-mode state machine of
`firmware/data_capture`, the control channel between it and the host, the
camera's registers from the calibration console to the device's NVS, the host's
console life cycle, its ingest and recording, and the inference firmware. TLC
checks them on small instances and TLAPS proves the central invariants for every
value of the constants. Paths below are relative to the repository; `main/` is
`firmware/data_capture/main/` and `host/` is `software/host_server/`.

## The system

A board with an ESP32-S3, an OV camera and a BMI270 IMU streams frames,
inertial samples and system statistics to a host (WebSocket/HTTP or raw TCP) or
writes them to an SD card. A host server decodes, displays and records the
streams and drives calibration over a control connection.

| component | state it keeps | operations | talks to |
|---|---|---|---|
| camera pipeline (`main/camera.c`) | driver's frame buffers, `s_camera_queue`, capture task and timer, overflow counter, JPEG quality | start, stop, grab and push with drop-oldest, drain, release, reinitialise | the sink's consumer (queue), the state machine (calls) |
| network sinks (`net_client.c`, `tcp_client.c`) | `s_stop`, `s_alive`, one connection per data type | start, request stop, stop with a bounded wait, send | camera and IMU queues, stats writer (calls), state machine |
| SD-card sink (`sdcard.c`) | consumer handles, session files | start, stop by deletion, write | camera and IMU queues |
| stats pipeline (`sysstats.c`) | `s_stats_queue`, `s_stats_stop`, `s_stats_alive` | start, stop, sample, write | the active sink |
| state machine (`state_machine.c`) | `s_state`, `s_cmd_queue`, the prompt's one-slot answer queue | serial and posted commands, teardown, four kinds of enter, IMU calibration | every pipeline; control link |
| control link (`control_link.c`) | socket, receive buffer | JSON commands, replies, images, events | host device session; state machine; camera |
| calibration mode, overrides (`cam_calib.c`, `camera_overrides.c`) | mode names; saved register writes in NVS and a static buffer | enter, leave, set; save, apply, clear, get | camera driver; control link |
| IMU (`imu.c`) | `imu_queue`, capture task and timer, sensor-clock reference | start, stop, capture, drain, calibrate | sinks; state machine |
| host device session (`device_session.py`) | connection, one pending call, images | accept, call with time-out, dispatch | control link; host server |
| host server (`app.py`) | streams' registration, last state, calibration manager | HTTP handlers, state poller | session, ingest, console |
| host ingest and recording (`tcp_ingest.py`, `bag_recorder.py`) | bounded write queue, listeners, current recorder | serve, enqueue with drop-oldest, write, swap recorder | hub; device streams |
| hub (`hub.py`) | latest frame and version, histories | put, wait | ingest; browser page |
| calibration (`calibration/`) | console worker and prompt, register bank with its undo log, camera models | commands, flows, undo | session |
| inference firmware (`firmware/inference_on_esp32s3`) | one-frame slot, wave detector | capture, detect, serve | browser |
| SLAM replay (`software/slam_replay`), `imu_testing`, log tools | none shared | offline processing | recorded bags |

What is hard in it: tasks on two cores and several priorities share plain
`volatile` variables; some tasks are asked to stop and waited for with a limit,
others are deleted at whatever instruction they are; buffers belong to a driver
and are handed from task to task; the mode is commanded from two places while
transitions are under way; calls have time-outs whose answers may still arrive.
`PROJECT.json` lists the places under `hazards`, each with the properties that
guard it.

What makes each component correct:

* camera pipeline: one owner for each buffer, no buffer lost on a path a task
  takes by itself, frames delivered in capture order at most once, the queue
  outliving its users, drop-oldest that makes room;
* sinks and stats: a stop never reclaims what a task still uses, a count of
  live tasks that never errs low, one caller for each connection, a stop that
  returns;
* state machine: the announced mode tells which pipelines exist, never two
  sinks, roll-back after any failure, no command starved;
* control link and session: each reply reaches the call it answers, a call
  ends, a reconnect leaves nothing pending;
* ingest and recorder: what came over one connection is written in order and
  once; connection threads never wait for the disk; a stop ends the writer; at
  most one bag is open;
* overrides and register bank: a save is stored whole or not at all, and forgets
  nothing that was stored; the undo log has the old value of every register the
  session changed, and of any other change it is known who made it (the code
  keeps neither "forgets nothing" nor, after a failed write, "every": Findings);
* IMU: samples in the order they were taken, every loss counted, times that
  share one offset per batch wherever the chip's clock wraps, a calibration
  report that is true;
* host server: one console, and requests that end;
* inference firmware: one owner for each buffer, and never too few of them;
  reversals that are real swings of the hand.

## Modules

| module | models | sources |
|---|---|---|
| `CameraPipeline` | the pool, `camera_queue`, capture task, a sink's consumer, start and teardown | `camera.c`, consumer loops of `net_client.c`, `tcp_client.c`, `sdcard.c`, teardown order of `state_machine.c` |
| `FrameStream` | what the pipeline promises a sink | abstract |
| `CameraPipelineProofs` | inductive invariant, theorems, the refinement of `FrameStream` | |
| `SinkShutdown` | task life cycle of a network sink and of the stats pipeline, flag, count, bounded wait, connections | `tcp_client.c`, `net_client.c`, `sysstats.c`, `state_machine.c` |
| `SinkShutdownProofs` | inductive invariant and theorems | |
| `StateMachine` | mode, commands of both sources, transitions with every failure, prompt, calibration commands | `state_machine.c`, `control_link.c`, `cam_calib.c` |
| `OperatingMode` | what an announced mode promises | abstract |
| `StateMachineProofs` | inductive invariant, theorems, refinement | |
| `DeviceSession` | the control channel: callers, the reader thread, connections, the device's serving task | `device_session.py`, `control_link.c` |
| `DeviceSessionProofs` | inductive invariant and theorems | |
| `HostIngest` | connection threads, bounded write queue, writer thread, HTTP writes, the swappable recorder | `tcp_ingest.py`, `bag_recorder.py`, `app.py` |
| `HostIngestProofs` | inductive invariants and theorems | |
| `ImuPipeline` | `imu_queue`, capture task and timer, a sink's consumer, the I2C bus, the chip with its NVM and wrapping clock, start, teardown, calibration | `imu.c`, consumer loops, `state_machine.c`, `wire.py` |
| `ImuPipelineProofs` | inductive invariants and theorems | |
| `RegisterChain` | the register bank with its undo log, the control link's register commands, the saved overrides in NVS, the state machine that applies them | `calibration/registers.py`, `calibration/cli.py`, `control_link.c`, `camera_overrides.c`, `camera.c`, `cam_calib.c` |
| `HostServer` | HTTP threads, the state poller, the manager's lock, the console with its worker and prompts | `app.py`, `calibration/console.py` |
| `ConsoleProofs` | inductive invariants and theorems of `RegisterChain` and `HostServer` | |
| `WaveDetector` | the reversal counter as a pure algorithm and the detector's state, with the reference it is compared with | `wave_detector.hpp` |
| `Inference` | the one-frame slot between the two tasks, composed with `WaveDetector` | `inference_on_esp32s3.cpp` |
| `InferenceProofs` | inductive invariants and theorems of `Inference` and `WaveDetector` | |
| `MC*` | the instances TLC runs | |

The first models overlap in the state-machine task and split it by subject:
`StateMachine` treats a pipeline as a name that is running or not;
`CameraPipeline` and `ImuPipeline` open up one pipeline each and take the wait
for a cooperative sink as unbounded; `SinkShutdown` opens up that wait.
`RegisterChain` keeps of the task only that it enters and leaves calibration and
applies the overrides.

**CameraPipeline.** A buffer is in exactly one of `pool`, `inHand`, `queue`,
`batch`, `discard`, or nowhere because its holder was deleted. Each place
between two calls of `camera_capture_task` that another task can see is a value
of `capture` (the timestamp, `esp_camera_fb_get()`, the first send, the
eviction, the release of what was evicted, the second send, the quality step);
the consumer's are values of `consumer`; `control` is how far the state-machine
task is in a start or a teardown. `sink` is one of `CoopSinks` (flag and wait) or
`KillSinks` (deleted). `Reconfigure` is `camera_init_ex()` between sessions:
deinit takes the whole pool back. `clock` numbers the grabs; it restarts at 0
with each session, which is a relabelling, for nothing of an old session is
left to compare with.

**SinkShutdown.** Tasks are named by kind and session, so that a task that
outlives its stop is still there in the next one. `s_alive++` and `s_alive--`
are loads and stores (`LoadCount`/`Create`, `ExitLoad`/`ExitStore`). `MayRun`
is the scheduler: between a task's load and store runs whoever is on the other
core, or on the same core with no lower priority; the cores and priorities are
those of `config.h`. `Tick` lets time pass only when every task sleeps or is in a
call, which is FreeRTOS on a millisecond scale: a ready task never waits a
tick. `todo` is the list of groups `teardown_active_pipelines()` or a roll-back
has still to stop; a failed task creation puts a group on it twice, as the code
does.

**StateMachine.** `task` is where `main_state_machine_task` is, `plan` the
pipelines it has still to start or to stop, `cmd` the command in its hands, `link`
where `control_link_task` is between a check and its effect. A digit of the
console is named by the mode it stands for. `camera` is the driver's
configuration. Prompts are numbered so that an answer can be told from a stale
one; the code has no such number.

**DeviceSession.** A call is named by its id. `place[c]` is where a caller is in
`call()`; the callers exclude each other by `_call_lock`, but the one reader
thread shares `_pending` with them without a lock, so its steps are as small
as its accesses: taking `p` and filling the reply (`ReadReply`), `_pending = None`
(`Unpend`), `ev.set()` (`Wake`), and likewise `_fail_pending()`. `dev`,
`sock` and `doing` are the device's task, which serves one connection and one
command at a time; one image or one register chunk stands for all that a
command sends. A connection ends for the host when the device closes it or when
it vanished (`Vanish`) and the host's TCP notices (`Notice`); until then the
device may already be connected anew. The listener takes one connection and reads
it to its end before it accepts the next: the line that closes an old `_conn`
(`device_session.py:91`) never has one to close, which is part of `TypeOK`.

**HostIngest.** A record is the thread that received it and its number there.
Every accept starts a thread that nobody joins (`tcp_ingest.py:173`), so a port
may have several at work, as may HTTP (`app.py:449`): `Handlers` and `Posters`
are the threads, of whichever port, and the name of one that has ended can be
used for the port's next. Between threads of one port that overlap the code keeps
no order; the model contains that and the property does not ask for it.
`place[h]` is where a connection thread is in `_enqueue_write()`: the three queue calls of a full
queue (`Put`, `EvictOldest`, `Retry`) are three steps, between which other
threads and the writer use the queue; the eviction takes whatever is the
oldest, the sentinel too. Connection threads are not joined and go on after the
stop, as in the code. `Look` and `Write` are the two halves of
`RecordingSlot.write_*()`, used by the writer thread and by the HTTP posts alike;
`toggle` is how far a `set_recording` is under the slot's lock, with an open
that may fail. Of the disk only the last number of each thread is kept
(`last`), which is enough to see a record out of order or twice. One
`serve_tcp_ingest()` is followed; the time-out of the listeners' join (2 s)
is longer than their poll (1 s) and never runs out.

**ImuPipeline.** `capture` and `consumer` are where the two tasks are between
calls another task can see, `bus` who holds the I2C driver's lock ("lost" once
its holder was deleted), `control` how far the state-machine task is in a start,
a teardown or a calibration. A sample is the time at which it was taken; the chip
gives it modulo `Wrap`, and `EspTime` is the host's computation from the ticks of
the sample and of the reference read (`wire.py:125`). `Tick` lets time pass unless
a sample would get older than `MaxAge` before it is stamped: the consumer comes
round in time. The code relies on it (half a turn of 24 bits is 5.5 minutes, a
period a fraction of a second) and nothing would work without. `overflow`,
`taken` and `delivered` restart with a session.

**RegisterChain.** The console's calls come one at a time; `Regw`,
`Orient`, `Revert` and `SetMode` are the bank's operations with the set of writes
that fail and with a reply that may be lost after the device did its work; a
`restore` is a write that nothing records. The
save is cut into the steps at which it touches the shared `s_regs` (`SaveLoad`,
`SaveMerge`, `SaveStore`, `SaveApply`), and so is the state machine's apply
(`ApplyLoad`, `ApplySet`): the two tasks have different priorities and no lock.
Each load of the blob may fail, which `load_locked()` answers with 0.
`base`, `strays`, `kept` and `overlap` are history: the sensor when the undo log
was begun, the registers changed since then of which the host was not told and
that the log does not name, whether the save could read the stored set, and
whether an apply ran into it. The result of a register read that fails (-1,
`control_link.c:243`), which the host would log as a value, is left out.

**HostServer.** `pc[t]` is where an HTTP thread or the poller is in
`_set_state()`, `_poll_loop()` and `CalibrationManager`; the acquisition of its
lock, the closing of a console (stop, answer a waiting prompt, join with a
limit) and the building of one are steps of their own, and so are the poller's
reads of `_last_state` and of `calib.active`, and the work on the ingest's ports
between a call and the new `_last_state`. A build may end in an exception that
nobody catches (`BuildFails`): it costs a request its answer, and the poller its
thread. The device acknowledges a
mode and takes it later, and its serial port changes the mode without anybody
asking. `Build` stands for the new Python object too: it takes a number that
nobody refers to any more, which always exists (two per operation and one).

**Inference and WaveDetector.** `hand`, `stale`, `slot` and `mine` are the
places a buffer can be outside the driver; the slot's mutex makes `Publish` and
`Take` one step each. `Turned(s)[i]` are the variables of the code's loop after
the first `i` samples, and `CountReversals` reads them at the end;
`MostReversals` is the reference: the longest zigzag from the first sample
through some of the others, a set of positions, in which each swing is at least
the threshold and the other way than the one before. The
hand keeps its width, so the threshold, in the code a fraction of the mean
width, is a constant.

Operators called "Mutant of X" in the modules are variants of X with one
plausible slip (a missing release, a swapped order, a forgotten reset). They are
in no next-state relation; replacing X by its variant shows that the property
aimed at it can fail.

## Runs

| run | shows |
|---|---|
| `camera_equal` | With `fb_count` = queue length, as `config.h` has it: `ExclusiveBuffers`, `QueueOutlivesItsUsers`, `OverflowUnreachable`, `LostOnlyByDeletion`, and under fairness `TeardownEnds` and `QueuedIsReleased`. |
| `camera_spare` | With one buffer more than queue slots the drop-oldest path runs: `CoopStopKeepsBatch` and the refinement `ImplementsFrameStream`. |
| `sink_bounded` | Calls shorter than the wait, two sessions: `CountNeverLow`, `SingleCaller`, `QueueOutlivesStats`, `ClosesIdleConnections`, `ExpiryIsFalseAlarm`, and `StopReturns` under fairness. |
| `mode_safe` | `ModeTellsPipelines`, the refinement `ImplementsOperatingMode`, and `CommandsAreHandled` under fairness. |
| `mode_camera_race` | Violated: the camera is not reinitialised under a running pipeline. |
| `session_safe` | Two calls, two connections: `PendingIsHeld`, `OwnAnswers`, `CompleteReply`, `FailsOnlyDead`, and `ReconnectIsServed` under fairness. |
| `ingest_safe` | Two connection threads and two posts at once: `InOrderOnce`, `OneBagOpen`, and under fairness `NeverBlocks` and `QuietStopEndsWriter`. |
| `imu_safe` | Two sessions, a clock that wraps, deletions inside a transfer, calibrations that fail at every stage: `SamplesInOrder`, `EveryLossIsCounted`, `BatchClock`, `ReportIsTrue`. |
| `register_safe` | Writes, orientation, undos, restores and saves with failed writes, loads and stores, lost replies and a state machine in between: `UndoCovers`, register by register outside the strays, and `SaveIsWhole`. |
| `server_safe` | Two HTTP threads, the poller and a worker: `OneConsole`, and `RequestsEnd` under fairness. |
| `server_console_lost` | Violated: a console stays, or a next one is built, while the device stays in calibration. |
| `inference_safe` | Three buffers, a hand that moves over four positions: `BuffersSuffice`, `ReversalsAreSwings`. |

Bounds. `Buffers` (3) and `QueueLen` (3 or 2) are large enough for a full queue,
a batch as large as the queue, a frame in hand and an evicted one at once;
`MaxFrames` bounds the grabs of a session (one more than the queue holds in
`camera_spare`), sessions themselves are unbounded. `MaxSessions` = 2 gives a
task of one session and its successor; `CallTime`, `Period`, `SinkWait` and
`StatsWait` keep the order of the code's numbers (a call and a delay are shorter
than a wait). `MaxInputs` = 3 bounds serial bytes and link commands together: a
command that enters a mode, one that leaves it and one that comes meanwhile;
answers to prompts are not counted. The quality constants are scaled to 0..2
with both steps different. `MaxCalls` = 2 and `MaxConns` = 2 give a call and the
one it can disturb, a dead connection and its successor; `MaxFlight` = 2 holds
back the device as a full socket buffer does. In `HostIngest` three records
against a queue of two let the queue be full and a thread lose the race for the
room it made, two posts can overlap, and two bags allow a swap. In `imu_safe` a queue and a batch of
two and five units of time let the queue overflow and the clock of `Wrap` = 5
wrap inside a batch that is `MaxAge` = 2 old (`2 * MaxAge < Wrap` is the
condition the computation needs, and the tightest); a third session would meet
nothing a second one does not. `register_safe` has one register more than a
saved set may hold (3, `Limit` 2), so a save can exceed the limit, and four
calls: two changes, a save or a change of mode, an undo. In `server_safe` three
operations are two requests and one line or serial command that comes meanwhile;
`MaxQueue` = 2 and 1 let the device's queue be full. `inference_safe` has a ring
of `KMax` = 5 samples, a window of 5 units and frames 1 or 2 units apart: six
frames a unit apart fill the ring within the window, so that one goes at the
ring's end, and with gaps samples leave by age; seven units of time are enough
for both, and for every zigzag of up to five samples. Buffers are symmetric in the runs without liveness;
they are never compared.

Fairness. `CameraPipeline`: the state-machine task finishes a teardown it began
(it is a loop of calls without conditions but the wait), and the consumer keeps
running (it is periodic, and its sends have time-outs). Nothing is assumed of
the timer, the camera or of commands. `SinkShutdown`: some ready task runs, the
state machine goes on with a stop, and time passes. `StateMachine`: its task
keeps running; nothing is assumed of the console, the control link or the
operator. `DeviceSession`: the reader thread runs, the device leaves a dead
connection and closes it, and the host notices a dead path, which its state
poller's requests and TCP's retransmission limit see to. `HostIngest`: only that
a connection thread with a record in its hands goes on; `QuietStopEndsWriter`
states its own condition, a disk that works. `HostServer`: the threads run (the
poller has its period), and so does a worker that has no command; the device
takes what it acknowledged, and calls and joins return, both having time-outs in
the code; nothing makes a command of the operator end or a prompt be answered.
The proofs use no fairness.

Deadlock is checked for the camera, the sinks and the state machine, which
always have a command, a tick or a session they could take. It is switched off
where ids, connections, records, operations or time are bounded and run out
(`DeviceSession`, `HostIngest`, `HostServer`, `ImuPipeline`, `RegisterChain`,
`Inference`).

## Proofs

TLAPS checks every step of the eight `*Proofs` modules.

*Camera pipeline*, for any finite set of buffers, any positive queue length,
any disjoint sets of sinks and any quality constants with
`QInit \in QMin..QMax` (`PoolAssumption`, `SinkAssumption`,
`QualityAssumption`; `NoFrameAssumption` says that "no frame" is not a frame).
The properties are not inductive by themselves: that a release does not put a
buffer into the pool twice depends on where the task is. The invariant adds
which task holds what at each place (a hand is full exactly between a grab and
the end of the second send, a batch only while the consumer works on it) and
which tasks exist at each place of the state-machine task. `InvCorrect`
proves it inductive, `TypeCorrect`, `BuffersAreExclusive` and
`QueueIsSafeToDelete` follow, and `DropOldestIsDead` adds a counting
argument: a frame in hand and a full queue are `QueueLen + 1` different buffers.
`DeletionAloneLoses` and `CoopStopReturnsBatch` follow the buffers from place to
place. They need one more invariant, `Room`: the result of the second
`xQueueSend()` is not looked at, and no frame is lost there only because the
eviction left a slot free and nobody else sends to the queue.

`StreamIsImplemented` proves that the pipeline refines `FrameStream`. The frames
on their way, batch and queue in one sequence, change in six ways: one enters at
the end, the head is delivered or dropped, one is taken out of the middle (an
eviction or the flush, which take the head of the queue behind the batch), the
batch in front goes with its deleted task, the session ends, or nothing. Each is
a step of the stream; `OrderInv`, that the times rise and that a frame not
queued yet is younger than all of them, is what lets a frame enter.

*State machine*, for any queue length, any number of inputs, and with or without
IMU and card. `TransitionInv` says what a transition may count on at each place:
at rest the mode tells the pipelines; while stopping, the plan still contains
every pipeline that runs; while starting, what has been started and what the
plan still holds make up the mode. `TransitionCorrect` proves it, `TypesCorrect`
and `ModeIsTruthful` follow, and `ModeIsImplemented` proves that each step of
the state machine, of the console and of the control link is a step of
`OperatingMode` or leaves its variables alone.

*Control channel*, for any callers and any bounds. `_pending` is written by the
holder of `_call_lock` and by the reader, which holds no lock, so
`PendingIsHeld` is not inductive: a caller that has drawn its id must know that
the reader is not about to clear or to wake that very id. `PendingInv` says so: an
id is new until its caller sets it, and over once the reader has taken it.
`ConnInv` adds that the reader has left only dead connections, from which
`FailsOnlyDead` follows. `SessionCorrect` proves the invariant, and
`SessionTypes`, `PendingBelongs`, `AnswersAreOwn` and `FailuresAreOwn` are its
consequences. What the race does cost, a lost reply, is a finding.

`RepliesAreComplete` needs what is under way. `AskInv`: a command is asked once,
on the connection its call read, and nothing has been sent for it before the
device takes it. `ReplyInv`: a reply on its way is the last message of its
command, and if its call is still the pending one, each part sent for it was
taken or is ahead of the reply on the same connection. `WorkInv` says the same
of the command the device works on, `DoneInv` of a call that has been answered.
The path may cut messages off a connection, but only its end; so the reader
meets the parts first. A call that gave up is never pending again, and the
invariant asks nothing for it.

*Ingest and recorder*, for any numbers of connection threads and of posts at
once, any records, queue length and bags. `OneBagAtATime` has an invariant on
what is open at each place of the toggle. `RecordsInOrder` is by the invariant
that everything between a connection thread and the disk (the writers' hands,
the queue, the thread's own record) carries numbers that grow towards the thread
and are above the last one written; an eviction keeps it, and so does the second
put, because a thread has one record in its hands and nothing that it has
received can overtake it. No two writers ever hold records of one thread.

*IMU pipeline*, for any queue length, batch, number of sessions, and any `Wrap`
and `MaxAge` with `2 * MaxAge < Wrap`. `TypesCorrect` and
`ReportsAreTrue` use an invariant on which tasks and which owner of the bus exist
at each place of the state machine. `SamplesAreInOrder` and `LossesAreCounted`
follow sequence and count of the samples through queue, batch and hand;
`TimesAreRight` bounds the age of what is not stamped yet and then uses that a
difference of less than half a turn is determined by its remainder.

*Shutdown of the network sinks*, for any number of sessions and any times with
`CallsFitTheWait`: every delay and every blocking call is shorter than the waits
of the two stops. The code counts on it. `tcp_client.c:279` gives 3 s for a
connect and 2 s for a send, between which `s_stop` is looked at, and the wait is
6 s; a request of `net_client.c` has 2 s (`net_client.c:53`) and its wait 10 s.
Shorter has to be strict: with a call as long as the wait TLC finds a stop that
gives up over a task that is about to end. The theorems are `CountsErrUpwards`,
`OneCallerEach`, `StatsQueueStays`, `StopClosesIdle` and `ExpiryFindsNobody`, and
none can be had alone. A stop returns because the count is at zero or because its
time is up. In the first case nobody is left because the count, for all its lost
updates, is never below the number of tasks, nor is a copy of it that is yet to
be stored (`CountInv`); in the second because a task that has seen the flag
begins no other delay or call, so that what is left of the present one and the
time waited add up to no more than the longest (`ClockInv`). That nobody is left
lets the next session reset the count without making it too low, and it is why
the connections and the queue have no other users (`LifeInv`); `TodoInv` keeps the
list of what is to be stopped, which a failed creation makes longer. All of it is
one induction, `SinkInvariant`.

*Register chain*, for any number of registers, any values, any limit of the
saved set and any number of calls: `UndoBringsBack` and `SavesAreWhole`.
`ChainInvariant` has two halves. `CoverInv` holds register by register, outside
the strays, and no failure of any call suspends it: a register that is not in the
log has its old value, and the first record of one that is there has it. A write
appends its records in order of address (`InOrderLists`: the enumeration of a set
of addresses lists each of them once); the first record of a register is the one
from the older part of the log if it has one there (`FirstOldOfTwo`), and the
sensor's present value if not. A step that changes the sensor without the log
makes strays of exactly the registers it changes and the log does not name
(`StrayedIs`, `UntoldCovers`); one that is logged is not lost by it, for its
first record stays. `SaveInv` follows a save through its steps: between load and
merge the first `count` entries of `s_regs` are those the load found, none if it
failed; between merge and store they are, by address, those of the merged set,
for which `MergedAddresses` and `MergedSame` say that it has the old addresses,
the new ones, and none twice. An apply by the state machine in between reloads
`s_regs` from the same NVS, so it can put old values there (`overlap`, a finding)
but not other addresses, unless the save's own load had failed.

*Host server*, for any finite set of HTTP threads and any bounds:
`OneConsoleAtATime`. The invariant says who owns the lock at each `pc`, that
there is no console while its owner builds one, and that a console being joined
has been told to stop. That a fresh number exists is a counting argument on the
numbers threads can refer to.

*Inference firmware*, for any finite set of at least three buffers:
`ThreeBuffersSuffice`; the invariant says which places are occupied while the
capture task waits for a frame, and that leaves at most two buffers out.

`CountsAreSwings`, for any window, threshold, ring, hold and positions of a hand:
the loop of `count_reversals()`, which looks at each sample once and remembers
a direction and an extreme, counts what a search through all zigzags would. The
loop may be behind no zigzag and ahead of all but one. `NeverBehind`: a zigzag
through the first `i` samples has no more swings than the loop has noticed, and
if it has as many, or one less but goes the same way, it has not got further than
the loop's extreme (`Bound`); without the second part the next sample could
complete a swing of the zigzag and not of the loop. `Witnessed`: some zigzag has
as many swings as the loop has noticed and ends at its extreme. Each of the
five things the loop can do with a sample keeps both (`BoundStays`,
`BoundSwings`, `CatchesUp`), given how a zigzag changes when a position is added
behind it, when its last one is taken away or moved further (`SwingAdded`,
`SwingRemoved`, `SwingMoved`). The induction over the positions, `Reaches`, is
from the least member of a set of numbers (`WFMin` of the library), for the
induction theorems take an operator, which the provers here cannot instantiate;
for the same reason `LoopExists` shows that the recursion of `Turned` has a
solution by extending it position by position. The invariant of the state
machine is then that the detector's count is that of its samples, whatever the
window and the ring have dropped.

Every safety invariant and every action property of the passing runs is proved,
and so are both refinements. Model-checked only are the liveness properties
(`TeardownEnds`, `QueuedIsReleased`, `StopReturns`, `CommandsAreHandled`,
`ReconnectIsServed`, `NeverBlocks`, `QuietStopEndsWriter`, `RequestsEnd`), since
liveness under fairness and `ENABLED` are beyond the provers installed, and
the runs that show a violation.

## Findings

* `fb_count` equal to the queue length makes drop-oldest dead code
  (`config.h:194`; the comment above it and `docs/architecture.md` promise
  otherwise). `DropOldestIsDead` proves it for every queue length.
* Deleting the capture task with a frame in its hands shrinks the driver's
  pool until the next reinitialisation (`camera.c:239`).
* `s_stats_alive--` on two cores may lose an update; the stop then waits out
  its limit and leaves the queue behind (`sysstats.c:220`). By
  `CountNeverLow` and `ExpiryIsFalseAlarm` the error is to that side only.
* A start after a stop that gave up clears the flag the leftover task was to see
  (`net_client.c:174`, `tcp_client.c:241`). In `sink_bounded`, where no call
  outlasts the wait, `ExpiryIsFalseAlarm` shows that no such task exists, and
  `ExpiryFindsNobody` proves it for all such times; with `CallTime` above the
  wait, `SingleCaller` fails.
* A calibration command checks the mode once and may reinitialise the camera
  under a stream (`control_link.c:578`).
* An answer to an IMU prompt can be taken by the next prompt
  (`state_machine.c:456`).
* A reader that handles the reply of a call that is just giving up clears the
  next call's `_pending`, whose own reply is then dropped
  (`device_session.py:150`).
* A write may meet a recorder that the toggle has just closed, or one whose
  successor could not be opened, and raises (`bag_recorder.py:217`).
* A connection thread that outlives the stop may evict the sentinel, and the
  writer thread never ends (`tcp_ingest.py:100`); `QuietStopEndsWriter` holds for
  stops after the connections have closed.
* A set_state whose call fails leaves the console closed and the state as it
  was; the poller sees no change and builds none (`app.py:216`, run
  `server_console_lost`).
* Any exception but `DeviceSessionError` in the building of a console (a session
  directory that cannot be written, say) ends the poller's thread, and nobody
  notices any more what mode the device takes by itself (`app.py:112`). Nothing in
  the repository speaks of it; the model has it (`BuildFails`).
* `_wait_for_device_state()` gives up after 2 s, and the console is built although
  the device is not in the mode yet; the poller may then close it and build the
  next one when the device arrives (`app.py:236`).
* After a reconnect the old connection's thread may still hold a record when the
  new one's is queued, and two HTTP posts of a stream may overlap: hub and bag
  then get the records of that stream in another order than they came in
  (`tcp_ingest.py:173`, `app.py:449`). `InOrderOnce` is about one connection, or
  connections whose threads do not overlap.
* A register write that fails keeps what its command writes behind it out of the
  undo log (`registers.py:75`): neither `undo` nor `save` knows of it.
  `UndoCovers` has these registers among the strays it excepts.
* A load of the saved set that fails counts as an empty set, and a save then
  overwrites what was stored (`camera_overrides.c:104`). `SaveIsWhole` then takes
  the set that was read to be empty.
* `s_regs` is shared by two tasks without a lock, in spite of `load_locked()` and
  `store_locked()`: a save that is cut in two by an apply may write a mixture of
  the two sets (`camera_overrides.c:24`), and if its own load had failed, one with
  other addresses or with one of them twice. `SaveIsWhole` says everything of the
  saves that are not cut in two, and the addresses of those whose load worked.
* `camera_overrides.h:45` says that calibration-mode bring-up does not apply the
  overrides; `cam_calib_enter_mode()` applies them (`cam_calib.c:26`).
* The host tracks mirror and flip itself; an undo brings the register back and
  not the tracked value, so the next orientation command starts from a stale one.
* `imu.h:27` gives the time of a sample by a plain signed difference of ticks;
  the clock has 24 bits, and only the host's `_wrap24` (`wire.py:125`) makes
  it right. The mutant of `BatchClock` is the header's formula.
* When the reference read of a drain fails, ticks of 0 are paired with the
  current time (`imu.c:340`), although `imu.h:76` promises a fresh pair.
  `BatchClock` is about the other batches.
* A wave is reported for up to the window and the hold after the last
  reversal, for the hold starts when reversals were last counted, not when the
  last one happened (`wave_detector.hpp:32`). The extreme a count starts from is
  the first sample in the window until the hand has moved a threshold away
  from it, so a first swing measured from elsewhere may be missed;
  `ReversalsAreSwings` takes that into its reference.

## Not modelled, and the plan

Pixels, samples, JSON and file formats, HTTP and WebSocket bytes; the image
analysis and geometry of the calibration; the person detector and ROS nodes;
boot, the IMU test firmware, the browser page and the log tools, which are
straight-line code or keep no state the system depends on; the hub, whose
publish and wait are one critical section each. A use of freed kernel objects
(deleting a task that already deleted itself, `sdcard.c:196`) is outside these
models, and so is what follows an event that was only half sent
(`control_link.c:62`): the host then reads a length from the middle of a message,
and nothing says what is to happen. Of the IMU the bring-up at boot, the preview
and the statistics of a calibration are left out, of the register bank the dumps
and backup files, of the ingest a second `serve_tcp_ingest()`.

The next step is not a proof of what is stated but a wider model: the half-sent
event of the control link and the failed reconfiguration of the camera have no
property yet, and `FrameStream` could be composed with the ingest to follow a
frame from the sensor to the bag.
