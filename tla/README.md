# Trick: the executive and the services around it

Trick is a framework for building simulations. A simulation is one process: a set of *sim objects* whose
*jobs* (functions with a class, a cycle, a start and a stop time) are called by the *executive* at their
times, in one or several threads, while servers and the input file change the simulation as it runs. The
modules here model that process, and the two ways several such processes work together (a master with slaves,
and Monte Carlo). Paths below are relative to `src/trick_source/sim_services` unless they
start with `src/`; `Executive_x.cpp` stands for `Executive/Executive_x.cpp`.

## 1. Inventory

| Part | State | Operations | Interacts with | Hard behaviour | What makes it correct |
|---|---|---|---|---|---|
| Executive, run loop | `time_tics`, `time_last_pass_tics`, `next_frame_check_tics`, one `ScheduledJobQueue` per thread and class | `loop_single_thread`, `loop_multi_thread`, `advance_sim_time`, `scheduled_thread_sync`, `thread_sync` | child threads (flags and triggers), every part that registers a job | waits on threads that wait on other threads; the next time is computed from cached call times | every call of every job is made, once, at its time; the time never passes a job, a frame or a sync time; the run ends |
| Executive, modes and commands | `exec_command`, `async_freeze_command`, `freeze_times`, `mode` | `freeze`, `freeze(time)`, `run`, `stop`, `set_job_onoff`, `set_thread_enabled`, `set_job_cycle`, `freeze_loop`, `shutdown` | variable server threads, signals and jobs give commands at any time | commands race with the tests and resets of the loop | a command is not lost; a freeze stops the clock and nothing else; shutdown waits for the threads it should |
| Child threads | `curr_time_tics`, `child_complete`, `amf_next_tics`, `enabled` of each `Threads` | `thread_body`, `call_next_job` | the master arms, fires and awaits them | three process types with different ideas of time; missed frames | a thread has the time it was started for; it is not armed while it runs; jobs catch up |
| Thread triggers | mutex and condition, flag, eventfd, futex | `init`, `fire`, `wait` | one per child | lost and spurious wake-ups | a fired thread starts, an unfired one does not |
| ScheduledJobQueue | `list`, `curr_index`, `next_job_time` | `push`, `push_ignore_sim_object`, `remove`, `find_next_job`, `get_next_job`, `get_next_job_call_time` | executive, data recording, real time, integration | a queue that changes during its own sweep; a cached minimum | no job is skipped or called twice; the cached time is not later than the next call |
| SimObject, JobData | `next_tics`, `cycle_tics`, `disabled`, `complete`, `depends` | `set_cycle`, `set_next_call_time`, `copy_from_checkpoint` | queues | a cycle changed at the moment the job is due | the call times stay ahead of the clock |
| EventManager | the added events, the set of the processor in the order of time, the events on each job | `add_event`, `add_event_before`, `add_event_after`, `remove_event`, `activate`, `deactivate`, `process_event`, `preload_checkpoint`, `restart` | input processor, executive queues, checkpoints | events move between lists while they are processed; a checkpoint has only some of the lists | an event that was added is where it fires; one that was removed is nowhere |
| VariableServer | sessions, copy and write modes, listening thread | `var_*` commands, freeze and top of frame copies, shutdown, restart | executive (commands), its own threads | copies race with the jobs; a session ends while it copies; restart | a client sees values of one moment; no thread outlives shutdown |
| ThreadBase, SysThread | the list of all system threads, `shutdown_finished` | `create_thread`, `cancel_thread`, `ensureAllShutdown` | variable server, data recording, others | a time limit against a thread that ends late | shutdown finishes, and counts every thread |
| RealtimeSync, Clock, Timer | overrun counters, sync frame, clock offset | `start_realtime`, `rt_monitor`, `unfreeze` | executive (freeze on overrun) | overruns across a freeze | no drift after a freeze, overrun limits are honoured |
| DataRecord | groups with a ring buffer, one writer thread | `data_record`, `write_data`, `enable`, `disable`, `checkpoint` | executive jobs, writer thread | a full buffer, a writer that lags, restart | no record is lost, repeated or out of order in the modes that promise it |
| CheckPointRestart | list of checkpoint times, safestore state | `checkpoint`, `load_checkpoint`, `safestore` | executive, memory manager, all parts with restart jobs | a load in the middle of a run | order of pre and post jobs; nothing runs in between |
| MasterSlave | state of each slave, its last command, the two directions of its connection | `Master::end_of_frame`, `Slave::end_of_frame`, `freeze_init`, `freeze`, `unfreeze`, `checkpoint`, `shutdown` | other processes | lost connections, mode changes that cross, a partner that is late | both sides are in the same mode and frame; nobody waits for ever |
| MonteCarlo | queue of runs, results, state and current run of each slave, tries of a run | `execute_monte`, `dispatch_run_to_slave`, `receive_slave_results`, `check_timeouts`, `stop_slave`, `start_slave`, `set_num_runs`, `slave_process_run` | slave processes over connections | time outs that race with results, retries, lost slaves, the end of a file of values | every run is resolved once, with its own result; the master ends |
| IntegLoop | integrated objects per loop, its own job queues | `integrate_dt`, `process_sim_object_*` | executive queue | objects move between loops during the run | an object is in one loop |
| Message | subscribers, threaded queue | `publish`, `subscribe`, `unsubscribe` | everybody | a subscriber with its own thread | each subscriber sees messages in order |
| FrameLog, RealtimeInjector, DebugPause, EchoJobs, JITInputFile, JSONVariableServer, ExternalApplications, InputProcessor, CheckPointAgent, MemoryManager, CommandLineArguments, Sie, UnitTest, Environment and others | see `PROJECT.json` | | | little concurrency of their own: parsing, formatting, files | |

`PROJECT.json` lists each part with its sources and with what is left out of it, and the hazards of the
modelled parts at the line where they bite.

## 2. The modules

| Module | What it models | Code |
|---|---|---|
| `ThreadTrigger` | the four ways to start a child thread | `Executive/ThreadTrigger.cpp` |
| `Executive` | the run loop of the master, the children, the commands | `Executive_loop_*.cpp`, `Executive_advance_sim_time.cpp`, `Executive_scheduled_thread_sync.cpp`, `Executive_thread_sync.cpp`, `Executive_isThreadReadyToRun.cpp`, `Threads_child.cpp`, `Executive_freeze*.cpp`, `Executive_shutdown.cpp`, `ScheduledJobQueue.cpp` |
| `ExecutiveSync` | the handshake of the master and the children, and the frames and jobs of the threads with a time of their own, as inductive invariants, for the proofs | `Executive_loop_multi_thread.cpp`, `Executive_scheduled_thread_sync.cpp`, `Executive_thread_sync.cpp`, `Threads_child.cpp` |
| `ExecutiveSchedule` | what a pass of the master has looked at and marked, and what that means for the next calls, as an inductive invariant, for the proofs | `Executive_loop_multi_thread.cpp`, `Executive_advance_sim_time.cpp`, `Executive_thread_sync.cpp`, `ScheduledJobQueue.cpp` |
| `JobSchedule` | the abstract schedule: each job once at each of its times | what `find_next_job` and `advance_sim_time` promise together |
| `ScheduledJobQueue` | one queue that changes while it is swept | `ScheduledJobQueue.cpp`, `Executive_add_jobs_to_queue.cpp`, `Executive_remove_jobs.cpp`, `Executive_set_job_onoff.cpp` |
| `EventManager` | the events of the input file, their processor and the jobs they hang on | `EventManager/*.cpp`, `SimObject/JobData.cpp` |
| `SysThread` | how the threads Trick makes for itself are paused, cancelled and joined | `ThreadBase/*.cpp` |
| `VariableServer` | listen thread, session threads and the jobs of the main thread that touch them; extends `SysThread` | `VariableServer/*.cpp` |
| `DataRecord` | a record group, its buffer, and the writer thread | `DataRecord/DataRecordGroup.cpp`, `DataRecordDispatcher.cpp` |
| `MonteCarlo` | the master, the slaves and their connections | `MonteCarlo/*.cpp` |
| `RealtimeSync` | the jobs that keep a simulation in step with the clock, as operators | `RealtimeSync/RealtimeSync.cpp`, `Timer/ITimer.cpp`, `Clock/Clock.cpp` |
| `CheckPointRestart` | a simulation of one thread that writes checkpoints and safestores and loads them again, under the clock; extends `RealtimeSync` | `CheckPointRestart/CheckPointRestart.cpp`, `Executive_restart.cpp`, `Executive_checkpoint.cpp`, `Executive_loop_single_thread.cpp`, `Executive_freeze_loop.cpp` |
| `MasterSlave` | the exchange between simulations at the end of a frame | `MasterSlave/Master.cpp`, `Slave.cpp`, `Executive_freeze_loop.cpp` |
| `MCSingle`, `MCThreads`, `MCAsync`, `MCControl`, `MCReconfig` | small simulations for TLC | |
| `MCJobQueue`, `MCEventManager`, `MCVarServer`, `MCDataRecord`, `MCMonteCarlo`, `MCMasterSlave`, `MCRestart` | small instances of the other components | |
| `Executive_proofs` (with `ExecutiveSync`, `ExecutiveSchedule` and `JobSchedule`), `ScheduledJobQueue_proofs`, `EventManager_proofs`, `VariableServer_proofs`, `DataRecord_proofs`, `MonteCarlo_proofs`, `CheckPointRestart_proofs`, `MasterSlave_proofs` | theorems and their proofs | |

`PROJECT.json` maps every definition to its lines.

### How `Executive` corresponds to the code

Thread 0 is the master; `pc[t]` is the place of a thread in its loop. One action is one iteration of an inner
loop or one stretch of code between two points where another thread can be seen: thus `ScheduledThreadSync`
looks at one child, `MarkIncomplete` and `ArmThread` treat one child, `FindNextJob` looks at one job. The busy
waits (`while (!complete) RELEASE()`) are guards.

| Place of the master | Code |
|---|---|
| `init` | `Executive_loop_multi_thread.cpp:44-55`, wait until every child has started |
| `loop`, `clear`, `freeze`, `resume`, `refreeze`, `unfreeze` | the test of `FreezeCmd` at the head of the loop and `Executive_freeze_loop.cpp`; every test of `exec_command` and the reset after it are two steps |
| `top` | top of frame jobs, `frame_count` counts the calls |
| `sync`, `mark` | the two loops of `thread_sync` |
| `input` | the input processor job and its queue |
| `fire`, `firing` | lines 123-141: arm a thread (time, flag, next sync time), then fire its trigger |
| `sweep`, `depend`, `call` | lines 140-165: find a job, wait for what it depends on, call it |
| `check`, `clearrun`, `term`, `eof` | the exit and run commands, the terminate time, the end of frame jobs |
| `shutdown`, `done` | `Executive_shutdown.cpp` |

`loop_single_thread` is the case `NumChild = 0` (`MultiThread` is false): it has no `thread_sync`, does not look
at dependencies, does not set `complete`, and at the terminate time sets `ExitCmd`.

The children go through `start`, `wait`, `waiting`, `dispatch`, `catchup`, `sweep`, `depend`, `call`,
`complete` of `thread_body`; `cancelled` is the end of a thread that `shutdown` cancelled.

The jobs `advance_sim_time_job`, `sched_freeze_to_exec_command(false)` and the input processor job are part of
the model because they change the state of the executive. The other jobs of the users do nothing but take
time: a call begins and ends in two steps and other threads run in between. The jobs in `EventJob` reschedule
themselves the way `EventProcessor::process_event` does.

Two variables are not in the code: `last_call`, the time of the last finished call of each job, and `cmds`,
the number of commands given.

### How the other modules correspond to the code

In all of them `pc` (or `step`, `main`, `mode`) is the place of a thread or process, one action is the code between
two points where another one can be seen, and a mutex that is held over several steps is a variable. Variables
commented as *ghost* are not in the code: they remember what was asked for or what happened.

`ScheduledJobQueue`. `NextJob` is a round of the loop of `get_next_job` (a sweep that calls every job) or of
`find_next_job` (that calls the jobs that are due and keeps `next_job_time`). `AddJob`, `RemoveJob` and `Toggle` are what a job
may do to the queue while it is called, and what the input file does between two sweeps. `curr_index` is unsigned: `Word` is
its width. The `Executive` has the same `find_next_job` on queues that do not change; here there is one queue, and any job of it may change it.

`EventManager`. `TopOfFrame` moves the pending events to the set, `ProcessEvent` takes the events that are due one by one
and `ActionDone` puts a cyclic one back; the set is a sequence in the order of the code's multiset. `Checkpoint` and `Reload` save
and load exactly the fields that the memory manager sees: neither the set, nor the pending events, nor the attachments.
`Bold` names the calls the code does not bear, see section 4.

`SysThread` and `VariableServer`. `step[t]` is the place of a thread; `TopOfLoop`, `WakeUp`, `RequestPause`, `CanJoin` are
`test_shutdown`, `test_pause`, `force_thread_to_pause` and `join_thread`. A condition variable whose wait is in a loop
is a guard. `Listen` is the loop of the listen thread, `SessionRun` the life of a session thread from its creation to
the deletion of its object, `Main` the copies, the reload (`suspendPreCheckpointReload`, `restart`) and the shutdown with its five
seconds, then `ensureAllShutdown`. A reference of a client is *good*, *bad* (tagged before a
reload) or *stale* (it points into memory that is gone). `_saved_pause_cmd` has no initial value, so `saved_pause` is the set of
the values it may have. The five seconds of the shutdown end early only for sessions that are blocked in a
command: every other session has time to end in them.

`DataRecord`. `Model` changes the recorded variable, the job fills a cell (`PutOld`, `PutNew`), `Count` is the increment of
`buffer_num` after it, `WriteData`, `Write` the pass of either thread over the rows, one row a step. `ForceWrite`
is the write of the main thread when the buffer is nearly full. The writer waits on a condition without a predicate:
`Spurious` wakes it, `SignalThread` misses it when it does not wait. `PreloadCheckpoint`, `ClearGroups`, `Restart`, `RemoveGroup`, `ShutdownDispatcher`
and `Stop` are the ways a group ends or begins anew. `Restart` renews the counters and the mutex of the group without a look at the writer thread, which
may be anywhere in a pass. `Overtakes = FALSE` leaves out that it is in the middle of its rows at that moment (section 4).

`MonteCarlo`. The master goes round `spawn`, `receive`, `timeouts`, `dispatch`, `connect`, as `execute_as_master` does, and
receives until there is no connection left. A slave is a parent and a child per run. Its messages lie in `inbox` until the master accepts them,
in the order of the connections; a connection breaks, a process dies, a child is killed before or after its report or exits without one.
The timeouts of the master and of the child are possible at any moment a run is on. A call of `stop_slave` or `start_slave` by a client is two steps, the test of
the state (`StopSlave`, `StartSlave`) and the assignment (`SetState`): `command` is the assignment that is still to come, and slaves and connections go on in between. `TornCommands = FALSE`
leaves out that the master does (section 4). A test and an assignment of the master itself are one step: the call of a client that falls in between is
overwritten, as if it had come before.

`MasterSlave`. `up[s]` and `down[s]` are the two directions of a socket. `Frame` is all that a frame does to the command;
`ReadSlave` and `WriteSlave` are one slave's round of the two loops of `Master::end_of_frame`; `Tell` and `Hear` are those of
`Slave::end_of_frame`. A freeze lifts the limits of the reads (`blocking`), unfreezing sets them again.

`RealtimeSync` and `CheckPointRestart`. The operators of `RealtimeSync` are the jobs of the sync object, each a conjunct of an action of
`CheckPointRestart`, whose `pc` goes round the loop of `loop_single_thread`: `top`, `jobs` (user jobs), `write`, `safe` (the two checkpoint jobs),
`advance`, then at the end of a frame `end` (load job and `async_freeze_command`), `monitor`, `pause`, `spin`, `apply` (the parts of `rt_monitor`).
`fload`, `fpause`, `fsem`, `fspin`, `ftest` are a round of `freeze_loop`, and `done` is the end. A file holds what `Snapshot` lists: the times of the loop,
the call times of the jobs, the checkpoint times, the safestore and the state of the sync object. The mode and the commands of the executive, the
wall clock, the timer of the system, its semaphore and the name of the file to load are no part of it and go on over a reload. Files are named by
their time, the safestore has the name `-1`. The clock ticks only where it is read. `calls`, `skipped` and `cmds` are not in the code.

### Abstractions

* Times are tics; `time_tic_value` and the conversion from seconds are left out.
* Memory is sequentially consistent. The code shares plain (not atomic) flags between threads; what a compiler
  or a weakly ordered processor may do with them is not modelled.
* A command to the executive is one step. `freeze(time)` in the code tests the time, pushes and lowers the call time of the
  freeze job one after the other.
* The process types, cycles and wait flags of the threads do not change during a run, nor does the terminate
  time. Jobs that come and go are in `ScheduledJobQueue`, for one queue.
* Top of frame, end of frame, freeze and unfreeze jobs of users have no state here; that they run alone is
  `FrameJobsAlone`, that they run once per frame is `FrameInStep`.
* A job that throws an exception ends the process and is left out. `set_job_onoff` and `set_job_cycle` are
  given for jobs of users, not for jobs of the executive.
* A queue holds the jobs in the order of the code's sort; the sort itself is an assumption of the configuration.
* `VariableServer`: the formats and values of the messages, logging, multicast and additional listen threads are left out;
  the copies in freeze mode take the same locks as those of a frame.
* `DataRecord`: one group with one variable, and the file formats only as the number of rows they write.
* `MonteCarlo`: the values of the variables, the jobs of users and the statistics are left out.
* `MasterSlave`: the initial parameters, a checkpoint that is loaded, and the wait for a lost slave
  (`reconnect_wait_limit` is 0, its default) are left out. Time is counted modulo `Period` frames.
* `CheckPointRestart`: one thread, one freeze command that acts at the end of a frame, times from 0 on, no jobs of users before or after a reload, no
  stop. A safestore is always on and has a fixed period. `RealtimeSync`: frames of at least 10 ms (below, `rt_monitor` does not sleep), the
  interval timer on, a clock ratio of 1, no limit on the length of one overrun, which is the default. Setting the timer and draining the
  semaphore are one step.
* `EventManager`: a condition is whether an event fires; holds, malfunctions and a change of the time tic are left out.

## 3. The runs

| Run | Instance | Question | States |
|---|---|---|---|
| `single` | no child, a job queue of six jobs (one that schedules itself, one integration job, one with a stop time), begun in freeze, up to five freeze, freeze(time) and run commands | does `loop_single_thread` implement the schedule, and freeze on time? | 81 000 |
| `threads` | a master, a SCHEDULED thread (mutex) and an AMF thread (eventfd), dependencies from the master to the child and back | the schedule, the sync times, the frame jobs, the dependencies, no deadlock, the run ends | 21 000 |
| `async` | two ASYNC threads, with a cycle (flag) and without (mutex), with a job that schedules itself | catching up, arming, shutdown | 426 000 |
| `control` | a master and a SCHEDULED thread, begun in freeze, four commands out of freeze, freeze(time), run, stop, job on/off | does a command disturb the schedule? | 268 000 |
| `reconfig` | a master and an AMF thread turned off and on while job cycles change | do the frames survive? | 235 000 |
| `queue` | one queue of up to four jobs, one of a system class, that make four changes to it while it is swept | does the cursor skip a job or call one twice? does the time pass a call? | 61 000 |
| `events` | two cyclic events and a read event, two jobs to hang them on, four calls, a checkpoint that is written and loaded | is an event where it was added, and nowhere once removed? | 435 000 |
| `varserver` | the listen thread, a session that may give every command and one that gives none, one reload, the shutdown | stale references, threads that outlive, a reload that hangs | 311 000 |
| `record` | a buffer of three rows, a file of four, two cycles (2 and 3) and a frame of 2, all frequencies and kinds of buffer, one reload | rows lost, repeated, out of order | 801 000 |
| `monte` | three runs (two in range), two slaves, files of two and three lines, two tries, a fault, two troubles, a stop | is each run resolved once, does the master end? | 1 347 000 |
| `masterslave` | a master and two slaves, one that has a limit, terminates and dumps, and one with none of these; three troubles | same frame, same mode, nobody hangs | 230 000 |
| `restart` | frames of two tics, jobs of cycles 2 and 3, a safestore every four tics, checkpoints at 1 and 3, the end at 6; four requests (checkpoint, load, freeze, real time on or off); two overruns are too many | is the schedule that of the file, are all checkpoints written, is the clock kept? | 4 457 000 |

Bounds of the executive. The frames and terminate times (`SoftwareFrame`, `TerminateTime` in each cfg) give about two frames:
enough for the cycles of the jobs, some of which do not divide the frame, to be met at a frame boundary, within a frame and
at the terminate time. The AMF cycle of `threads` does not divide the terminate time either, so the last asynchronous frame
is cut off. `MaxCommands` bounds the commands of a run; a race needs one or two, and four allow a run out of the first freeze,
a freeze, a resume and a further command in every order. `EventTimes`, `FreezeArgs` and `CycleArgs` are small sets with a time in a
frame, at its boundary and (for cycles) shorter and longer than the frame. `MaxTics` stands for `TRICK_MAX_LONG_LONG`, a
time that is never reached.

Bounds of the others. `record`: with three rows the force limits `max_num - 2` and `max_num - 1` and the end of the ring are three
different places and every cell is used again; the file limit of four falls in the middle of a pass. The two rates meet each other and the
frame at some times and not at others before `MaxTime`. `monte`: three runs for two slaves let a slave have a
second run, and a run that is tried again be taken by the other slave; with two tries a retry can be resolved or given up. In the file of two lines the last run in range has no values, so it is deleted. `queue`: four jobs are
the fewest with one before, one at and two behind the cursor, and `MaxTime` lets each be due twice. `events`: two events of one
time and one of another, on none, one or both of two jobs; four calls can add two, remove one and bring it back. `varserver`: all races are of
one session with the main thread or the listener; the second session makes the loops over the sessions do more than one round.
`masterslave`: two slaves so that one may be ahead of, lost before or frozen by the other; frames are counted modulo
`Period`, so the run has no last frame. `MaxTroubles` bounds the commands, losses and late answers together, `Bound` each
kind. `restart`: three requests are the fewest that write a file, freeze and load it; the fourth is what may go wrong with them: a second
load, another checkpoint, or real time turned on or off. The clock runs at most `MaxLate` = 1 past the end of a frame, which is an overrun, and
a freeze lasts up to `MaxFrozen` = 2 of its frames. The jobs' cycles meet each other, the frames and the checkpoint times at some times and not at others; a checkpoint is asked for
at every place of the loop, in time or too late.

The properties, from deep to simple, by module; each is stated with a comment where it is defined.

* `Executive`: `ImplementsSchedule` (refinement of `JobSchedule`), `DependsFinished`, `NoJobLeftBehind`, `ScheduledTimeMatches`,
  `TimesHonoured` (`AmfSyncHonoured`, `EndsOnTime`), `FramesHonoured`, `FrameJobsCaughtUp`, `ArmedWhenIdle`, `FrameJobsAlone`, `FrameInStep`,
  `ClockBehaves` (`FreezeHolds`, `TimeNeverGoesBack`), `FreezeOnTime`, `ShutdownWaits`, `Terminates`.
* `ScheduledJobQueue`: `SweepCorrect` (`CalledInOrder`, `NoneSkipped`), `NoneLeftBehind`.
* `EventManager`: `SetInOrder` (`Sorted`, `NoneBlocked`), `RemovedEverywhere`, `NoneLost`.
* `VariableServer`: `NoStaleReference`, `ReloadHarmless` (`ReloadQuiet`, `PauseRestored`), `SessionsAccountedFor` (`SessionsAlive`,
  `NoneOutlivesShutdown`), `MainGoesOn` (`ReloadEndsOrBlocks`, `ServerShutdownReturns`).
* `DataRecord`: `RowsInOrder`, `AllWritten`, `ChangesKept` (`ChangesRecorded`, `Stairs`), `RatesHonoured`, `Ends`.
* `MonteCarlo`: `ResultsCountedOnce`, `RunsAccountedFor` (`NoRunForgotten`, `TriesHonoured`, `AllResolved`), `ResultOfItsRun`, `Ends`.
* `MasterSlave`: `SameFrameAndMode` (`InStep`, `ModesAgree`), `NobodyStuck` (`MasterGoesOn`, `SlavesStop`), `FreezeSpreads`.
* `CheckPointRestart`: `ScheduleRestored` (`AllCalled`, `FramesKept`), `CheckpointsDue`, `RealTimeKept` (`SomethingWakes`, `NeverEarly`,
  `FreezeKeepsLead`).

Names in brackets are the parts of a property. Each module has one type invariant, `TypeOK`, besides; where it is not listed in a run it is a part
of the first property above.

Fairness. `FairSpec` of `Executive` gives weak fairness to the steps of the master and of each child: each is a thread of the
operating system that is scheduled again and again, and each of its steps, once possible, stays possible
until it is taken (only that thread disables it, commands apart). The same reason gives weak fairness to the main thread of
`VariableServer` once a job of it has begun, to its listen thread and to each session that is not blocked in a command of its client; to the
master and to the slave processes of `MonteCarlo` and `MasterSlave`, and to the assignment of a call that has tested the state (`SetState`); and to the writer of `DataRecord`. The main
thread of `DataRecord` has strong fairness, because it takes mutexes that the writer takes and gives back again
and again: a mutex that starves nobody is assumed. Commands, faults, lost connections and spurious wake-ups have no fairness:
nobody has to cause one. A client that blocks in a command may do so for ever. The runs `threads`,
`varserver`, `record` and `monte` check `FairSpec`; `MasterSlave` has its fairness in `Spec`; the others check `Spec`.

Deadlock is checked in the five runs of the executive and in `restart`, where the end of the process is a step that changes nothing. The
other systems may stop: at `MaxTime`, when the calls are used up, or when all processes have ended. There the liveness
properties say that they stop only where they should.

## 4. Findings

None of these has a run of its own: the properties named are not listed in any cfg, or hold in the run as it is bounded. Each entry names
the property that is violated and the change to a cfg that shows it.

The executive, with `MCControl.cfg` and `Commands`, `MaxCommands` as given:

* `SPECIFICATION FairSpec`, no commands, the trigger of `s1` by futex (`TT_FUTEX`): `FiredThreadStarts`. `ThreadTriggerFutex::fire` (`ThreadTrigger.cpp:80`)
  leaves no mark, so a child that has reported its completion but has not yet reached the wait system call misses its start, and the master waits for
  it for ever, where `Executive_loop_multi_thread.cpp:128` starts "all threads that are waiting to start the next cycle".
* `SpuriousWakeups = TRUE`, no commands, the trigger of `s1` by mutex (`TT_MUTEX`): `NoJobLeftBehind`. Neither
  `pthread_cond_wait` (`ThreadTrigger.cpp:27`) nor the futex wait is in a loop with a predicate; a spurious return
  lets a child sweep its queue at a time nobody started it for.
* `FreezeOnFrameBoundary = TRUE`, `{"freeze_at"}`, `FreezeArgs = {1}`: `NoJobLeftBehind`. `freeze(time)` moves the freeze
  to the frame boundary, but the freeze job has already the time within the frame (`Executive_freeze.cpp:70`); its call time stays in the past,
  `get_next_job_call_time` returns it, and `advance_sim_time` jumps to the end of the frame over the jobs of the master.
* `{"thread"}`, two commands: `ClockBehaves`. A scheduled thread that was disabled still has its old call times when it is
  enabled again, and the time goes back to them (`Executive_advance_sim_time.cpp:46`).
* `SPECIFICATION FairSpec`, `{"freeze", "stop"}`: `StopHonoured`. `stop()` between the test of `exec_command` and the reset after it is lost
  (`Executive_loop_multi_thread.cpp:61`; `src/include/trick/Executive.hh:1242` says that the command stops the simulation).
* `{"cycle"}`, `CycleArgs = {1}`: `NoJobLeftBehind`. `set_job_cycle` gives a job that is due now the current time again
  (`JobData.cpp:109`); after the sweep has passed the job it is never called again.
* With `MCThreads.cfg`, `{"onoff"}` and one command: a deadlock. `thread_sync` marks the jobs that are to run as not complete (`Executive_thread_sync.cpp:57`); one
  that is turned off before its thread comes to it is not called, so it stays incomplete, and a job that depends on it waits for it for ever
  (`Executive_loop_multi_thread.cpp:147`). With two commands and `CHECK_DEADLOCK FALSE`: `DependsFinished`. A job that is off when its thread is marked keeps the flag of its last
  call; turned on again before the sweep, it is called, but not awaited.
* With `MCThreads.cfg`, and `integ` depending on `s1` in `MCDepends`: `DependsFinished`. The jobs behind the one that advances the time run before the next pass
  of `thread_sync`, so the flags they wait for are those of the time before, where `Executive-Scheduler.md:338` says that such a job "will not execute until all dependencies have finished".
* `{"freeze"}`: `FreezeWhenStepDone`. `freeze()` is acted on at the end of the software frame (`Executive_freeze.cpp:58`), where
  `Executive-Scheduler.md:142` says it is when the jobs of the current time step are complete.
* `scheduled_thread_sync.cpp:19` does not wait for a thread that was disabled while it runs (its jobs then see the time move on), and
  `advance_sim_time.cpp:50` leaves the cycle of an ASYNC thread out of the times the clock stops at, while
  `Executive-Scheduler.md:269` says such a thread is synchronized at the end of its cycle.

`ScheduledJobQueue`, with `MCJobQueue.cfg`: `RemovesNext = TRUE` (a job removes the one behind it: `remove` moves the
cursor back all the same, `ScheduledJobQueue.cpp:154`) violates `SweepCorrect` in both its parts; `AddsBehind = TRUE` and
`DisablesSystem = TRUE` violate `NoneLeftBehind`: the job is due, is not called, and stays due.

`EventManager`, with `MCEventManager.cfg` and one call in `Bold`. `EventManager.cpp:185` says "Command to remove an event from everywhere it
was added"; `removeRunning` (an event removes itself in its own action, and is then put back) and `removePending` (an event that waits for the top of the
frame is added after it was removed) violate `RemovedEverywhere`. So do `retarget` and `loadPending`. `removeShared` (all instrumentation
jobs have the same, empty, name) and `saveTargets` (the checkpoint has one target of an event) violate `NoneLost`,
`savePending` violates `SetInOrder` (`NoneBlocked`), and so does `twice`, which leaves two entries where one is expected.

`DataRecord`, with `MCDataRecord.cfg`: `ClientToggles = TRUE` violates `RowsInOrder`. A client that disables the group between the two tests of the main
thread lets it overwrite rows that wait. `AllRowsInOrder`, `RowsInOrder` for the rows beyond the size limit of the file as well, is
violated: once the limit is passed `write_data` of the other thread returns without the mutex (`DataRecordGroup.cpp:889`).
`Overtakes = TRUE` violates `RowsInOrder` and `AllWritten`: a reload waits for nobody (`DataRecordGroup.cpp:404`, `:621`; `DataRecordDispatcher.cpp:258` takes no `dr_go_mutex`), so a pass of the writer that
took the old `buffer_mutex` goes on over counters that are 0 again. It writes cells of the buffer up to the old `buffer_num` into the new file, whether recorded in it or not, and
leaves `writer_num` ahead of `buffer_num`; a later pass takes the difference of the two unsigned numbers for a full buffer and writes rows that were never recorded.

`VariableServer`: `ReloadReturns` is violated, since the reload holds `map_mutex` (`VariableServer_restart.cpp:23`) while it waits for the sessions to
pause (`:37`), and a session that executes a command takes `map_mutex` first; `ReloadEndsOrBlocks` says when it does return.
`SessionsGone` and `ShutdownReturns` are violated: a session that the listen thread makes after the pass over the sessions
(`VariableServer_shutdown.cpp:38`) is not told to stop and not abandoned, and is joined without a limit.

`MonteCarlo`: `EndsAtEndOfFile` (`set_num_runs` deletes a run that is to be tried again, which stays in the count),
`RunsReassigned` (a run that was taken from the queue for a slave that turns out to be lost goes with it),
`SecondReportDiscarded` (a child that is killed after its report makes its parent report the run again, and the
master credits it to the next run), `SlavesLeave` (a slave that starts while the master ends is not told to go) and, with `MaxTries` of 3 or
more, `RunsAccountedFor` (`TriesHonoured`: a late answer of a run that waits queues it a second time). `ResolvedToEndOfFile`, that the master
ends with a result of every run the file has values for, is violated when a file is too short and not all runs are in range (5 runs, 4 slaves, runs 0 to 3 in range, a file of
3 lines, two timeouts): `set_num_runs` deletes from the back of the queue (`MonteCarlo_funcs.cpp:124`), where the runs 0 and 1 wait to be tried again, `update_actual_num_runs`
counts run 3 of the front and run 2 that is under way (`:499`), and the late answers of 0 and 1 count as the two results: the master ends before run 2 has one.
So `AllResolved` says nothing of a master that has deleted runs; the three runs and two slaves of `monte` are too few for this.

With `TornCommands = TRUE`, `RunsAccountedFor` (`NoRunForgotten`), `ResultOfItsRun` and `Ends` are violated. `stop_slave` tests the state and sets it, without a lock (`MonteCarlo_funcs.cpp:248`). A client finds the slave
`MC_READY`, the master gives it a run (`MC_RUNNING`), and the client sets `MC_STOPPED`: the run is with no slave that is awaited or timed out. Started again, the slave
is `MC_READY` with a run under way; it is given a second one, and the answer of the first is taken for the result of the second. `ResultsCountedOnce` holds all the same.

`MasterSlave`: `InStepAlways` is violated after a checkpoint, which exchanges the status once more (`Master.cpp:439`) where
`Master-Slave.md:10` has the slaves in step with the master. With `Limited = {"s2"}` `NobodyStuck` is: a slave that has a limit and does
not terminate gives up the exchange (`Slave.cpp:175`) while a frozen master has no limit (`Master.cpp:412`). With `AnyMoment = TRUE`
`SameFrameAndMode` is: a command between the write and the test of the command is cleared (`Executive_freeze_loop.cpp:72`).
With `Limited = {"s1"}` and no slave that terminates the model leaves its types: a slave that has told its `FreezeCmd` and whose read of the time is too late
goes on to read the command (`Slave.cpp:166`, `:190`), and finds the time of the master in its place.

`CheckPointRestart`, with `MCRestart.cfg`:

* A reload at the end of a frame in Run mode (a file that is asked for and then loaded by the load job before the frame is over) makes the
  loop add a frame to the frame check time that was just restored (`Executive_loop_single_thread.cpp:111`), so the end of one frame, with its jobs, is skipped. A load and a run in one
  frame of a freeze lead there as well. `FramesKept` allows it by `skipped`; without that term `ScheduleRestored` is violated.
* `RequestsHonoured` is violated: `checkpoint(time)` may be called by a client at any moment, and tests the time alone (`CheckPointRestart.cpp:122`). For the present time, once the sweep has passed the write job, or
  for a time before the one `advance_sim_time` is about to go to, which it has chosen without this call, it comes too late: the call time of the job stays in the past and blocks the later ones, for it is the least of all.
  `CheckpointRequest` has no guard against it; `late` remembers such a request (`TooLate`), also over a reload, since the checkpoint times and the call time are in the file, and `CheckpointsDue` speaks of checkpoint times only
  where there was none. Of the safestore it speaks in any case.
* Read in the code, beyond what the properties say: `set_safestore_time` rounds with the old time instead of the period (`CheckPointRestart.cpp:144`), and a disabled safestore
  leaves the call time of its job in the past (`:292`). A freeze for too many overruns whose real time is turned off does not end the simulation, as it should, but leaves
  `freeze_shutdown` set, and a later freeze of a run in real time ends it (`RealtimeSync.cpp:475`). The reload in Run mode sets the clock to the time of the file just before
  `rt_monitor` reads it (`RealtimeSync.cpp:328`), so with a real clock it counts as an overrun.

## 5. Proofs

| Theorem | Says | Assumes |
|---|---|---|
| `TypeCorrect` (`Executive_proofs`) | `Spec => []TypeOK`: cursors stay in their queues, times are times, the master indexes threads that exist | `TriggerAssumption`, `ExecutiveAssumption` |
| `SyncInvariant` | `Spec => []SyncInv`, the handshake of the master and the children | the same and `StaticThreads` |
| `ScheduledTime` | a scheduled thread that runs has the time of the master (`ScheduledTimeMatches`) | the same |
| `FrameJobs` | the master calls top and end of frame jobs only while the scheduled threads are idle (`FrameJobsAlone`) | the same |
| `ArmedIdle` | no thread of any type is armed while it runs (`ArmedWhenIdle`) | the same |
| `ShutdownIsAwaited` | shutdown cancels a thread it has to wait for only while that thread is idle (`ShutdownWaits`) | the first two and `~SpuriousWakeups` |
| `FramesInvariant` | `Spec => []FramesInv`, the times of AMF and ASYNC threads and their frames | the same and `FramesFit` |
| `FramesAreHonoured` | such a thread calls jobs at times of its current frame only (`FramesHonoured`) | the same |
| `FrameJobsAreCaughtUp` | no job of such a thread that is on has its call before the frame when its queue is swept (`FrameJobsCaughtUp`) | the first two and `FramesSteady` |
| `ScheduleHolds` | `Spec => []ScheduleInv`, what a pass has looked at and the next calls of the jobs | the first two and `Steady` |
| `Implements` | the executive implements the abstract schedule, step by step (`ImplementsSchedule`) | `Steady`, `StopsLater`, nobody turns a job off |
| `DependsAreFinished` | a job is called after the calls it depends on (`DependsFinished`) | the same, `TailAlone`, a child thread |
| `NoneLeftBehind` | no job in step with the master is left behind the time (`NoJobLeftBehind`) | `Steady` |
| `TimesAreHonoured` | the clock stops for AMF threads, and a run without commands ends on time with all calls made (`TimesHonoured`) | `Steady`, `StopsLater` |
| `FramesInStep` | the frames keep step with the time (`FrameInStep`) | `Steady` |
| `ClockIsKept` | the time never goes back, and not forward in a freeze (`ClockBehaves`) | `Steady` |
| `FreezesOnTime` | a freeze time is dropped only when it is reached (`FreezeOnTime`) | `Steady` |
| `NoCallIsMissed` | no job of the master or of a scheduled thread misses a call, and none runs at another time (`NoCallMissed` of `JobSchedule`) | as `Implements` |
| `SweepInvariant` (`ScheduledJobQueue_proofs`) | `Inv`, the inductive invariant of a sweep | `ScheduledJobQueueAssumption`, `~RemovesNext` |
| `SweepIsCorrect` | jobs are called in order, none twice, and none that was due and stays is skipped (`SweepCorrect`) | the same |
| `NoneIsLeftBehind` | between two sweeps no scheduled job has its next call behind the time (`NoneLeftBehind`) | the same, `~AddsBehind`, `~DisablesSystem` |
| `FileInOrder` (`DataRecord_proofs`) | `Spec => []RowsInOrder`: the file is the recorded rows, each once and in order, up to the limit of its size | `DataRecordAssumption`, `MaxNum > 1`, `~ClientToggles`, `~Overtakes` |
| `ClosedFileIsComplete` | a file that is closed has all rows, of a ring the last ones (`AllWritten`) | the same |
| `NoChangeIsMissed` | the last row has the value of now, and the rows of a step make stairs (`ChangesKept`) | `DataRecordAssumption`, `~ClientToggles` |
| `RatesAreHonoured` | every multiple of every cycle has its call (`RatesHonoured`) | `DataRecordAssumption` |
| `EventInvariant` (`EventManager_proofs`) | `Spec => []EventInv`: each event is in one place, the attachments are those asked for, a checkpoint holds what is needed | `EventManagerAssumption`, `Bold = {}` |
| `SetStaysInOrder` | the set of the processor is in the order of the times, with nothing past in it (`SetInOrder`) | the same |
| `RemovedFromEverywhere` | an event that was removed is nowhere (`RemovedEverywhere`) | the same |
| `NoEventIsLost` | an event that is still to come is with the processor or at its jobs (`NoneLost`) | the same |
| `ServerInvariant` (`VariableServer_proofs`) | `Spec => []Inv`, the listener, the sessions and the jobs of the main thread agree on where each session is | `VariableServerAssumption` |
| `ReferencesAreLetGo` | no session that can be reached refers to memory that was replaced (`NoStaleReference`) | the same |
| `ReloadIsHarmless` | nobody works during a reload, and after it each session is paused as its client wished (`ReloadHarmless`) | the same |
| `SessionsAreAccountedFor` | the jobs meet no deleted session, and no thread outlives the shutdown but those abandoned (`SessionsAccountedFor`) | the same |
| `SlavesInStep` (`MonteCarlo_proofs`) | `Inv`: the results are counted, and as long as the master keeps still between the test and the assignment of a command, a slave that is ready owes no answer and a run that was given out is at one place; `CommandInv`: what a command is about to set | `MonteCarloAssumption` |
| `ResultsAreCountedOnce` | a run is resolved at most once (`ResultsCountedOnce`) | the same |
| `ResultIsOfItsRun` | the result of a run was reported of that run, or is the time out (`ResultOfItsRun`) | the same, `~TornCommands` |
| `NoRunIsForgotten` | a run without a result is in the queue or with a slave, unless lost or deleted (`NoRunForgotten`, `AccountInv`) | the same, `~TornCommands` |
| `RunsAreAccountedFor` | the tries are honoured, and the master ends with a result of every run, unless runs were deleted at the end of a file (`RunsAccountedFor`) | the same, `~TornCommands`, `MaxTries <= 2` |
| `RestartInvariant` (`CheckPointRestart_proofs`) | `Inv`: every checkpoint holds a state from which a pass of the loop may start | `RealtimeSyncAssumption`, `CheckPointRestartAssumption` |
| `ScheduleIsRestored` | the schedule and the frames go on over any reload (`ScheduleRestored`) | the same |
| `CheckpointsAreDue` | no safestore is left behind the time, and no checkpoint unless one was asked for too late (`CheckpointsDue`) | the same |
| `RealTimeIsKept` | a sleep ends, the time is never ahead of the clock, a freeze keeps their distance (`RealTimeKept`) | the same |
| `MasterAndSlaves` (`MasterSlave_proofs`) | `Spec => []Inv`: a slave finds what it reads for, and enters the next exchange as the master does | `MasterSlaveAssumption`, `~AnyMoment`, `Limited \subseteq SlaveTerminates` |
| `FrameAndModeAreShared` | a slave in sync reads its own time, and is in the frame and the mode of the master between the exchanges (`SameFrameAndMode`) | the same |

They hold for every number of threads and jobs, every queue, process type, cycle, trigger, terminate time and every command but those
the assumptions exclude, for every size of the buffer and the file, every rate and value, for every set of events, jobs and clients, for every number of slaves and runs, tries and failures,
for every order of slaves and any number of commands, deaths and late answers, and for every cycle, frame, terminate time, limit of overruns and any number of commands. The assumptions named `...Assumption` are
those of the modules that declare the constants, and TLC evaluates them in every run.

`StaticThreads` says that no wait returns without a signal and that nobody calls `set_thread_enabled`. Both are needed
(section 4): after a spurious wake-up a child sweeps its queue at a time nobody started it for, and a thread that is enabled again has
its old call times; `scheduled_thread_sync` does not wait for a disabled thread. `FileInOrder` needs its three assumptions as well: with
`MaxNum = 1` the limit `max_num - 2` is 2^32 - 1, and a client that disables the group while the main thread is between its two tests
breaks the property, as does a reload that renews the group under a pass of the writer. `NoChangeIsMissed` and `RatesAreHonoured` hold over such a reload too. The three constants that the theorems on a queue exclude are the three findings on queues in section 4: each lets a job do what the code of
the queue does not bear, and each is needed. `Bold = {}` of the events is the same: each member of `Bold` is a call the code does not bear. The theorems on the
variable server and on the restart have no such hypothesis; but `CheckpointsDue` itself excepts the checkpoint times once a request came too late, which the code lets happen (section 4), so what
`CheckpointsAreDue` says of them is of simulations where none did. On Monte Carlo `SlavesInStep` and `ResultsAreCountedOnce` have none. The others need `~TornCommands`, and `RunsAreAccountedFor` needs at most two tries as well: without either
it is violated (section 4). Two tries are the default (`MonteCarlo.cpp:12`).
The two hypotheses on a master and its slaves are findings of section 4: a command between the write and the test of one is cleared on one side only, and a slave with a limit that
does not terminate takes the master's time for a command. The instance `masterslave` satisfies both.
`CheckPointRestartAssumption` says that the call times of the jobs and the times of the requests fit below `TRICK_MAX_LONG_LONG`; a call time beyond it would overflow.

Of the four theorems on threads that need not keep step with the master, the first three allow every command, so threads are disabled and enabled and cycles change while they hold. `FramesFit` says that
no frame ends beyond `TRICK_MAX_LONG_LONG`, the `next_job_time` of a queue with no job left. `FramesSteady` is `StaticThreads`, `FramesFit`, each job in one queue once, and no
`set_job_cycle` and no `set_job_onoff`: a job whose cycle changes can get a next call behind the time of its AMF thread, one that is turned on in the middle of a frame was
not caught up at its start, and an AMF thread that was disabled has the old times of its jobs and has no loop that catches up.

`Steady` adds to `StaticThreads` that nobody calls `set_job_cycle` and that `freeze(time)` is not combined with the freeze at a frame boundary, two findings of section 4, and says
how the queues are filled: a job is in one queue, once (`add_job_to_queue` takes the thread of the job), and the jobs behind the one that
advances the time are those of the later classes, `system_moding` and `integ_loop` (`parse_s_define.pm:537`). `StopsLater` says that no job stops before its first
call: `add_jobs_to_queue` turns off a job that stops before it starts (`Executive_add_jobs_to_queue.cpp:107`), but an integration job whose stop time
lies before the end of its first cycle is called once after its stop. A job that is turned off misses its calls on purpose, so it has no part in
`Implements`; the other five theorems hold with it. `TailAlone`, that the jobs behind the advance depend on none, is the other finding on dependencies. The instances `single` and
`threads`, which check the refinement and the dependencies, satisfy all of these.

The argument for the executive. `ScheduledTimeMatches` is not inductive: that a running child has the time of the master depends on the master
having waited for it before it moved the time, hence on where the master is, on the completion flag, and on there being no
second signal left that would start the child again. `SyncInv` says this in six parts:

* `Handshake` ties the flag, the place of the child and its trigger: a child that has completed, runs, or is armed and not
  yet fired has no signal pending, and only an idle child is complete or armed. This is what makes the plain flags of
  `Threads_child.cpp` safe to overwrite.
* `Phases` says at which places of the master which threads have completed: scheduled threads from the end of
  `scheduled_thread_sync` to the next arming, AMF threads that are due from `thread_sync` on. Within the two loops it
  speaks of the threads the loop has passed.
* `AdvanceJobDue` says that `advance_sim_time_job` is on and due at the current time, so the sweep of the master cannot come
  to its end without it; without this part the waits would be skipped with the job that holds them.
* `CurrentTime` is the wanted fact for threads that have not completed: armed with the current time, which
  moves only when all have completed.
* `TriggersByType` and `AllEnabled` say that a trigger is used the way of its type and that no thread is disabled.

The proof has one step per action, in lemmas for the children, the commands, and the master outside the loops, in the
firing loops and in its sweep. Most actions move the master between places outside the loops, or a child within its
jobs; `OutsideStep` and `RunningStep` treat them once. The others (`MarkIncomplete`, `ArmThread`, `FireThread`, the
sync loop, the time step, the wake-up and the completion) are proved part by part. `TypeCorrect` is proved the same way and is a
hypothesis of every step.

The argument for the threads with a time of their own. They are not in the two loops of the master, and a disabled one is passed over, so `SyncInv`
is of no use for them. Three invariants stand one on the other:

* `ApartInv` says of each AMF or ASYNC thread, enabled or not, `InHand` as above and `Joined`: the master has passed an AMF thread that is due, or at shutdown
  a thread it waits for, only when it is complete. `ShutdownWaits` and `ArmedWhenIdle` for these threads rest on it.
* `FrameTimes` ties the time of the thread to its frame: it is the start of the frame from the arming until the thread begins, within the frame while the thread catches up and sweeps,
  and `next_job_time` never leads back. That nothing but the thread moves its time between arming and completion is `ApartInv`.
* `FrameCall`, job by job: an ASYNC thread has caught up the jobs before its cursor; an AMF thread is complete only when every job has its next call at or
  after the end of its frame, which is the start of the next one, and in its sweep the jobs before the cursor are ahead of its time.

TLC checked the three on `async`, and on variants of `threads` and `reconfig` within what each theorem assumes, before they were proved.

The argument for the schedule. That the next call of a job is not behind the time when a pass begins says nothing of the middle of the pass, when some queues were swept for this time
and others were not, and a scheduled thread may be anywhere in its own sweep. `Swept(t, k)` says which jobs have been looked at for the
current time: for the master those before its cursor, up to the advance of the time; for a scheduled thread those before its cursor, or all once it is complete
in this pass; and the jobs behind the advance, which see the new time first, those before the cursor after it. `ScheduleInv` says over it:

* `CallsAhead`: no call is behind the time; a job that was looked at has its next call after it, and `next_job_time` of its queue is no later than that call
  (a job of the executive that runs gives its time when it returns). `QueueAhead` draws the consequence for `next_job_time`, so `advance_sim_time` moves the time to
  one that is later and that skips no call (lemma `AllAhead`).
* `JobHistory`: no time of a job lies between the last one it was called for, or is being called for, and its next call. With `AllAhead` this is the refinement: the end of a call is
  `Call`, the time step is `Tick` or leaves the time, at the terminate time, and every other step of any thread stutters.
* `Started`, `CursorBehind`: a job that runs is the one before the cursor of its thread, and no thread that keeps step is caught in between.
* `FrameInv`, `AmfAhead`: the time is within the frame that was begun and before the sync time of a thread that was started. `LastPass`: at the terminate time, when the
  time does not move on, all calls are made.
* `FreezeDue`: the freeze job waits for the first freeze time, so `CallsAhead` keeps the time from passing it.

`DependsInv` adds the completion flags: `Marked(t)` says that `thread_sync` has been over the jobs of thread `t` in this pass, and then a job that is complete has been
called (`CompleteNow`), so what a job waited for has been (`Awaited`). A thread runs a job that may depend on others only where all threads are marked
(`AllMarked`, from `Handshake` and `Phases`). TLC checked `ScheduleInv` on `single`, `threads`, `async` and `control`, and `DependsInv` on `threads`, before they were proved.

The argument for the recorder. What the file holds now says nothing of the rows that still wait; `Inv` of `DataRecord_proofs` adds what the
cells of the ring hold and how many there can be:

* `InStep`: the rows already written are the numbered rows from the first on, and the row the pass of a thread writes next is the next one.
* `Waiting`: each number from the next to be written to the last recorded is in its cell, the number modulo `MaxNum`.
* `Room`: the rows that wait are fewer than `Limit(place)`, which is `MaxNum - 2`, `MaxNum - 1` or `MaxNum` by the place of the main thread: it is
  the forced write that brings them back. Two rows less than `MaxNum` apart are in different cells (`DifferentCells`), so filling a cell overwrites none that
  waits.
* `WriterHolds`, for each thread: who is in the middle of a pass has the mutex and knows the bounds of the pass; `MainKnows`, `Counted`: what the main
  thread has read is still true, since only it fills cells.

`ClosedInv` goes on from there: once the group is closed no row of the buffer waits, unless the file is full; of a ring, which is
written only at the close, `RingInv` follows the pass from the oldest row that was kept to the last, so the file is the last `MaxNum` rows. `RowsInv` ties `last_value` and
`change_value` to the last row, place by place of the job; that `dr_record_now_group` and a reload come in between is why it speaks of both. `CycleInv` says of each cycle that its
multiples before its next time were called, that no next time is before `next_tics`, and that the time never passes `next_tics`.

The argument for the queue. `NoneSkipped` speaks of the end of a sweep; `Inv` of `ScheduledJobQueue_proofs` says the same in its middle:
the jobs called are behind the cursor (`CalledPassed`), and one that was due when the sweep began and stayed has been called or is ahead and still due
(`StayedKept`). A push or a removal shifts the jobs and moves the cursor with them; the lemmas `PushKeepsCursor` and `EraseKeepsCursor` say that the set of those behind the
cursor changes by that one job only, also when the unsigned cursor goes below zero. `CallsAhead` is the same for times: behind the cursor every job has its next call in the
future, and `next_job_time` is no later, but for the one that runs.

The argument for Monte Carlo. That a result is of its run depends on the master and the slave never speaking of different runs. `TokenInv` says that a run
that was given out is a token at one place: in `orders`, in the child that runs it, or in a report in `inbox`, of which there is one; a slave that is ready or stopped has
none of the three, so the next order meets no old report. `RunInv` says that whoever speaks of a run has one, `FreshInv` that a slave that is starting has sent nothing but its first message. `TokenInv` is false
after a slave reported one run twice (`twice`), and when the master moves within a command of a client (`TornCommands`); `ResultsCountedOnce` still holds, from the test of the master alone. `CommandInv` says that the state a client is about to set fits the
slave: it was heard of, and has a run if it is to be awaited; without torn commands it is ready or stopped just as it was at the test.

Where the runs are is a second invariant, `AccountInv`. A run leaves the queue only when it has a result, is out of range, was deleted, or is given to a slave, which is then awaited
(`MC_RUNNING`, `MC_STOPPING`) until it is heard of or timed out; the lemmas on `Returned` treat the two alike. `dequeue_run` is a loop over the queue that pushes back what it keeps:
`DequeueKeeps` shows what is left of any queue by looking at the least number of rounds after which the claim would be false. With at most two tries (`TriesInv`) a run that is awaited for
the second time is not in the queue, so its late answer cannot queue it again. `CountInv` says, as long as no run was deleted, that the results counted are those of runs in range, so that as many results as runs mean all.

The argument for the restart. A checkpoint is written in the middle of a pass of the loop, before the later jobs of that pass, and is loaded at the end of a frame or in a freeze, so what it
holds is not what `ScheduleRestored` says of the places it is loaded at. `File` says what each checkpoint holds, and `Sched` is the part it shares with the running
simulation: each job waits for the first of its times that is not over, which may be the present one. From there `Pass` follows the sweep, job class by job class, up to `advance`, where all wait for a later time at which
the queue arrives. `FrameInv` bounds the frame by the frames that reloads in Run mode skipped; `ClockInv` and `TimerInv` tie the places of `rt_monitor` and `freeze_pause` to the clock and the semaphore.

The argument for the events. `add_pending_events` is a loop that sorts the pending events into the set and may jump over an event that is past and does not repeat; the set is in order because each insert
keeps it so (`InOrder`), and `AddsAll` says what the loop adds up to, again by the least number of rounds after which it would be false. Over it `EventInv` has four parts: `PlaceInv`, that an event is in one
of the pending events, the set, the hands of the processor and the jobs; `AttachInv`, that the manager, the jobs and those who asked agree on the attachments; `TimeInv`, that the set is in order and
`process_event_job` is set to its first; and `SavedInv`, that a checkpoint holds times and attachments from which `EventInv` holds again after `restart`.

The argument for the variable server. The main thread walks maps of sessions while their threads come and go, so the invariant follows each session: `StatusInv` ties the status its thread told to
where the thread is, `MapInv` and `IdInv` tie that to the two maps and to the id `join` waits for, `RefsInv` to what it refers to. `ListenInv` says that a session that is starting is the one the listener waits for,
so while the listener is paused none starts. From there `Suspended` and `PauseInv`: between suspend and resume every session in the map is paused with the wish of its client in `_saved_pause_cmd`, so the uninitialised value is read
for none. `TodoInv` says that the sessions a job has still to look at are in the map, and `JoinInv` that after the shutdown each thread has ended or was abandoned.

The argument for a master and its slaves. In the middle of an exchange the two are apart: the slave has begun a frame, or tested a command, and the master has not, or the other way
round. What a step of either does not change is the mode and the time it will enter the next exchange with: `MasterMode` and `MasterTime` foresee the test of the command from the
moment the master has written it to that slave, and the frame after it; `SlaveMode` and `SlaveTime` from the moment the answer is on the wire. `PairInv` says that they are equal. Writing the
answer is the step that changes both at once; it needs `Wire`, what lies between the two at each place: the master owes an answer (`Owing`, by the turn of its loop; no slave is in the
vector twice) exactly while the slave waits with nothing on either way. `StreamInv` holds for every slave, in sync or not: after a time comes a command, after a `Dump` a name, so what a slave reads is what it reads for. `MasterInv` keeps `ExitCmd` out of the exchange in Run
mode, where a read that fails would otherwise be passed over. `AdvanceInjective` leads back from the next times to the present ones. TLC checked `Inv` on `masterslave` and on two instances with other limits before it was proved.

Only model-checked: liveness (`Terminates`, `MainGoesOn`, both properties `Ends`, `NobodyStuck`, `FreezeSpreads`), which is out of reach of TLAPS 1.4. What a recursive definition computes for every input cannot be shown with the induction
theorems of the library, which take an operator as a parameter; the loops of `EventManager` and `MonteCarlo` are recursive functions of bounded length, for which a least counterexample does. The order of the jobs within a queue is free in the proofs, but for the place of the job that advances the time, and fixed
in the instances of section 3.

## 6. Not modelled

* Of `RealtimeSync`, `Clock` and `Timer`: hardware clocks, a timer of the Linux kernel other than the interval timer, the clock ratio and real time in child threads. Of
  `CheckPointRestart`: the jobs of the parts that run before and after a reload (those of the variable server, the events and the recorder are in their
  modules), and the content of a checkpoint.
* `Integrator` and the integration loops: the numbers are out of reach of TLC; the queues of an `IntegLoopSimObject` are in the plan.
* `Message`, `FrameLog`, `RealtimeInjector`, `DebugPause`, `EchoJobs`: subscribers, instruments and reports with little state. In the plan as far as they have any.
* `MemoryManager`, `CheckPointAgent`, `InputProcessor`, `JITInputFile`, `CommandLineArguments`, `MonteCarloGeneration`, `JSONVariableServer`,
  `ExternalApplications`, `UdUnits`, `Sie` and others: parsing, formatting, files, an embedded interpreter. What of them changes the
  state of another part is in that part (the values of a checkpoint, the calls of an input file).
* The code generator, the plotting programs, the graphical interfaces, the numerical libraries and the Python tools are not part of a
  simulation at run time. They are most of the repository's lines.
* Of the modelled parts: what the notes in `PROJECT.json` and *Abstractions* above name, and data races on containers (a vector that grows while another
  thread goes over it), whose outcomes cannot be enumerated. The hazards list them with a note.

## 7. Plan

1. `IntegLoop`: sim objects that move between integration loops; `Message`: the publisher and its threaded subscriber; `FrameLog`.
2. The master that waits for a slave to reconnect (`reconnect_wait_limit`), and a checkpoint loaded by a master and its slaves.
3. Theorems on a master and its slaves with `AnyMoment`, which would say how far the two come apart.
