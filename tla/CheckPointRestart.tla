-------------------------- MODULE CheckPointRestart --------------------------
(***************************************************************************)
(* A simulation of one thread that writes checkpoints, at times clients    *)
(* ask for and as safestores, and loads them again, in freeze mode or at   *)
(* the end of a frame, while RealtimeSync keeps it in step with the clock. *)
(* The loop is loop_single_thread with freeze_loop and advance_sim_time,   *)
(* reduced to what a checkpoint holds and what it does not: the modes and  *)
(* commands of the executive go on over a reload, the times of the loop    *)
(* and of the jobs are those of the file.                                  *)
(*                                                                         *)
(* The wall clock is read only by rt_monitor and freeze_pause, so that it  *)
(* needs to tick only there.                                               *)
(***************************************************************************)
EXTENDS RealtimeSync, FiniteSets, FiniteSetsExt

CONSTANTS
  UserJob, WriteJob, SafestoreJob,  \* the scheduled jobs, in the order of their calls
  Cycle,                            \* of the user jobs, tics
  SafestorePeriod,
  TerminateTime,
  MaxTics,                          \* TRICK_MAX_LONG_LONG
  CheckpointArgs,                   \* bound: the times of the requests
  MaxCommands,                      \* bound: requests of clients
  MaxFrozen                         \* bound: frames of a freeze
ASSUME CheckPointRestartAssumption ==
  /\ Cycle \in [UserJob -> Nat \ {0}] /\ WriteJob # SafestoreJob
  /\ {WriteJob, SafestoreJob} \cap UserJob = {}
  /\ SafestorePeriod \in Nat \ {0} /\ SafestorePeriod % Frame = 0
  /\ TerminateTime \in Nat /\ MaxTics \in Nat /\ TerminateTime + Frame < MaxTics
  /\ \A j \in UserJob : TerminateTime + Cycle[j] < MaxTics
  /\ TerminateTime + SafestorePeriod < MaxTics
  /\ CheckpointArgs \subseteq 0 .. MaxTics /\ MaxCommands \in Nat /\ MaxFrozen \in Nat \ {0}

VARIABLES
  pc,                     \* where the loop is
  mode, exec_command, async_freeze_command,
  time_tics, time_last_pass_tics, next_frame_check_tics,
  next_tics,              \* of each job
  next_job_call_time,     \* of the queue
  checkpoint_times, safestore_time,
  late,                   \* ghost: was a checkpoint asked for too late in the life of this state?
  load_file,              \* load_checkpoint_file_name, or NoFile
  files,                  \* the checkpoints written, by name
  calls,                  \* ghost: calls of each user job in the life of this state
  skipped,                \* ghost: ends of frames that the current frame goes past
  cmds                    \* requests made

timeVars == <<time_tics, time_last_pass_tics, next_frame_check_tics>>
jobVars  == <<next_tics, next_job_call_time, calls>>
chkVars  == <<checkpoint_times, safestore_time, late>>
fileVars == <<load_file, files>>
execVars == <<mode, exec_command, async_freeze_command>>
loopVars == <<timeVars, jobVars, chkVars, skipped>>
vars     == <<pc, execVars, loopVars, fileVars, cmds, syncVars>>

Job    == UserJob \cup {WriteJob, SafestoreJob}
Due(j) == next_tics[j] = time_tics

NoFile    == -2
Safestore == -1      \* chkpnt_safestore; the others are named after their time
FileName  == {Safestore} \cup (0 .. TerminateTime)

Init ==
  /\ pc = "top" /\ mode = "Run" /\ exec_command = "NoCmd" /\ async_freeze_command = FALSE
  /\ time_tics = 0 /\ time_last_pass_tics = 0 /\ next_frame_check_tics = Frame
  /\ next_tics = [j \in Job |-> CASE j \in UserJob -> 0
                                  [] j = WriteJob -> MaxTics
                                  [] j = SafestoreJob -> SafestorePeriod]
  /\ next_job_call_time = MaxTics
  /\ checkpoint_times = {} /\ safestore_time = SafestorePeriod /\ late = FALSE
  /\ load_file = NoFile /\ files = <<>>
  /\ calls = [j \in UserJob |-> 0] /\ skipped = 0
  /\ cmds = 0
  /\ SyncInit(BOOLEAN)

(***************************************************************************)
(* Checkpoints.                                                            *)
(***************************************************************************)
\* What is written, with the call times and the checkpoint times as they then are.
Snapshot(next, times) ==
  [time |-> time_tics, last |-> time_last_pass_tics, frame |-> next_frame_check_tics,
   next |-> next, times |-> times, safestore |-> safestore_time, late |-> late,
   calls |-> calls, skipped |-> skipped, sync |-> SyncState]

WrittenTo(name, snapshot) == [n \in DOMAIN files \cup {name} |-> IF n = name THEN snapshot ELSE files[n]]

\* copy_from_checkpoint, for each job.
JobsForgotten(s) == next_tics                 \* the mutant: the call times are not copied
JobsOf(s) == s.next

\* init_from_checkpoint, Executive::restart and the restart job of the sync object.
Restore(s) ==
  /\ time_tics' = s.time /\ time_last_pass_tics' = s.last /\ next_frame_check_tics' = s.frame
  /\ next_tics' = JobsOf(s) /\ next_job_call_time' = MaxTics /\ calls' = s.calls
  /\ checkpoint_times' = s.times /\ safestore_time' = s.safestore /\ late' = s.late
  /\ RestartSync(s.sync, mode = "Freeze", s.time)

\* load_checkpoint_job.  A file is found, for only files that were written are asked for.
LoadCheckpoint ==
  /\ load_file # NoFile /\ load_file' = NoFile
  /\ Restore(files[load_file])
  /\ UNCHANGED files

NothingToLoad == load_file = NoFile /\ UNCHANGED <<fileVars, syncVars>>

(***************************************************************************)
(* A pass of the loop in Run mode.                                         *)
(***************************************************************************)
\* The next time of the queue once jobs with these call times are swept.
Swept(next) == Min({next_job_call_time} \cup {t \in next : t > time_tics})

CallUserJobs ==
  /\ pc = "jobs" \/ (pc = "top" /\ exec_command # "FreezeCmd")
  /\ next_tics' = [j \in Job |-> IF j \in UserJob /\ Due(j) THEN next_tics[j] + Cycle[j] ELSE next_tics[j]]
  /\ calls' = [j \in UserJob |-> IF Due(j) THEN calls[j] + 1 ELSE calls[j]]
  /\ next_job_call_time' = Swept({next_tics'[j] : j \in UserJob})
  /\ pc' = "write"
  /\ UNCHANGED <<execVars, timeVars, chkVars, skipped, fileVars, cmds, syncVars>>

\* The call time of the job: the top of the queue of the times.
NextWrite(times) == IF times = {} THEN MaxTics ELSE Min(times)

WriteCheckpoint ==
  /\ pc = "write" /\ pc' = "safe"
  /\ IF Due(WriteJob) /\ NextWrite(checkpoint_times) = time_tics THEN
       /\ checkpoint_times' = checkpoint_times \ {time_tics}
       /\ next_tics' = [next_tics EXCEPT ![WriteJob] = NextWrite(checkpoint_times')]
       /\ files' = WrittenTo(time_tics, Snapshot(next_tics', checkpoint_times'))
     ELSE UNCHANGED <<checkpoint_times, next_tics, files>>
  /\ next_job_call_time' = Swept({next_tics'[WriteJob]})
  /\ UNCHANGED <<execVars, timeVars, safestore_time, late, calls, skipped, load_file, cmds, syncVars>>

SafestoreCheckpoint ==
  /\ pc = "safe" /\ pc' = "advance"
  /\ IF Due(SafestoreJob) THEN
       /\ files' = WrittenTo(Safestore, Snapshot(next_tics, checkpoint_times))
       /\ safestore_time' = safestore_time + SafestorePeriod
       /\ next_tics' = [next_tics EXCEPT ![SafestoreJob] = safestore_time']
     ELSE UNCHANGED <<files, safestore_time, next_tics>>
  /\ next_job_call_time' = Swept({next_tics'[SafestoreJob]})
  /\ UNCHANGED <<execVars, timeVars, checkpoint_times, late, calls, skipped, load_file, cmds, syncVars>>

\* The time of the next job, if it comes before the end of the frame.
NextTime ==
  Min({TerminateTime} \cup IF next_job_call_time \in time_tics + 1 .. next_frame_check_tics
                             THEN {next_job_call_time} ELSE {next_frame_check_tics})

\* advance_sim_time, and the end of the pass.
AdvanceSimTime ==
  /\ pc = "advance"
  /\ time_last_pass_tics' = time_tics
  /\ time_tics' = NextTime
  /\ next_job_call_time' = time_tics' + Frame
  /\ exec_command' = IF exec_command = "RunCmd" THEN "NoCmd" ELSE exec_command
  /\ pc' = IF TerminateTime <= time_tics THEN "done"
           ELSE IF time_tics' = next_frame_check_tics THEN "end" ELSE "top"
  /\ UNCHANGED <<mode, async_freeze_command, next_frame_check_tics, next_tics, calls, chkVars,
                 skipped, fileVars, cmds, syncVars>>

(***************************************************************************)
(* The end of a frame, with rt_monitor its last job.  A reload here puts   *)
(* the loop within a frame whose end is later taken for over: the end of   *)
(* that frame is skipped.                                                  *)
(***************************************************************************)
EndOfFrame ==
  /\ pc = "end" /\ pc' = "monitor"
  /\ \/ LoadCheckpoint /\ skipped' = files[load_file].skipped + 1
     \/ NothingToLoad /\ skipped' = 0 /\ UNCHANGED <<timeVars, jobVars, chkVars>>
  /\ exec_command' = IF async_freeze_command THEN "FreezeCmd" ELSE exec_command
  /\ async_freeze_command' = FALSE
  /\ UNCHANGED <<mode, cmds>>

Unmoved == UNCHANGED <<execVars, loopVars, fileVars, cmds>>

MonitorOverrun ==
  /\ pc = "monitor" /\ Overrun(time_tics)
  /\ pc' = IF TooManyOverruns /\ ~rt_overrun_freeze THEN "done" ELSE "apply"
  /\ async_freeze_command' = (async_freeze_command \/ (TooManyOverruns /\ rt_overrun_freeze))
  /\ UNCHANGED <<mode, exec_command, loopVars, fileVars, cmds>>

MonitorOnTime ==
  /\ pc = "monitor" /\ OnTime(time_tics)
  /\ pc' = IF timer_active THEN "pause" ELSE "spin"
  /\ Unmoved

MonitorInactive == pc = "monitor" /\ ~active /\ pc' = "apply" /\ Unmoved /\ UNCHANGED syncVars

MonitorPause == pc = "pause" /\ SemWait /\ pc' = "spin" /\ Unmoved
MonitorSpin  == pc = "spin" /\ SpinAndReset(time_tics) /\ pc' = "apply" /\ Unmoved

\* The requests, and the frame is over.
MonitorApply ==
  /\ pc = "apply" /\ pc' = "top"
  /\ ApplyRequests(time_tics)
  /\ next_frame_check_tics' = next_frame_check_tics + Frame
  /\ UNCHANGED <<execVars, time_tics, time_last_pass_tics, jobVars, chkVars, skipped, fileVars, cmds>>

(***************************************************************************)
(* freeze_loop.                                                            *)
(***************************************************************************)
FreezeLoop ==
  /\ pc = "top" /\ exec_command = "FreezeCmd"
  /\ exec_command' = "NoCmd" /\ mode' = "Freeze"
  /\ FreezeInit(time_tics)
  /\ pc' = "fload"
  /\ UNCHANGED <<async_freeze_command, loopVars, fileVars, cmds>>

FreezeLoad ==
  /\ pc = "fload" /\ pc' = "fpause"
  /\ \/ LoadCheckpoint /\ skipped' = files[load_file].skipped
     \/ NothingToLoad /\ UNCHANGED loopVars
  /\ UNCHANGED <<execVars, cmds>>

FreezePause ==
  /\ pc = "fpause"
  /\ \/ FreezePauseInactive /\ pc' = "ftest"
     \/ FreezePauseActive /\ pc' = IF timer_active THEN "fsem" ELSE "fspin"
  /\ Unmoved

FreezeSem  == pc = "fsem" /\ SemWait /\ pc' = "fspin" /\ Unmoved
FreezeSpin == pc = "fspin" /\ FreezeFrameEnd /\ pc' = "ftest" /\ Unmoved

\* Redundant commands to freeze are cleared.
FreezeStays ==
  /\ pc = "ftest" /\ exec_command # "RunCmd"
  /\ freeze_time_tics < time_tics + MaxFrozen * FreezeFrame \/ load_file # NoFile  \* bound
  /\ exec_command' = "NoCmd" /\ pc' = "fload"
  /\ UNCHANGED <<mode, async_freeze_command, loopVars, fileVars, cmds, syncVars>>

\* After too many overruns the freeze is the end, if it is still in real time.
LeaveFreeze ==
  /\ pc = "ftest" /\ exec_command = "RunCmd"
  /\ exec_command' = "NoCmd" /\ mode' = "Run"
  /\ IF active /\ freeze_shutdown THEN pc' = "done" /\ UNCHANGED syncVars
                                  ELSE pc' = "jobs" /\ Unfreeze(time_tics)
  /\ UNCHANGED <<async_freeze_command, loopVars, fileVars, cmds>>

(***************************************************************************)
(* Clients, whose requests come at any moment.                             *)
(***************************************************************************)
Requested == pc # "done" /\ cmds < MaxCommands /\ cmds' = cmds + 1 /\ UNCHANGED pc

FreezeRequest ==
  /\ Requested /\ ~async_freeze_command /\ async_freeze_command' = TRUE
  /\ UNCHANGED <<mode, exec_command, loopVars, fileVars, syncVars>>

EnableRequest ==
  /\ Requested /\ ~enable_flag /\ enable_flag' = TRUE
  /\ UNCHANGED <<execVars, loopVars, fileVars, disable_flag, active, countVars, freeze_time_tics, timerVars, clock>>

DisableRequest ==
  /\ Requested /\ ~disable_flag /\ disable_flag' = TRUE
  /\ UNCHANGED <<execVars, loopVars, fileVars, enable_flag, active, countVars, freeze_time_tics, timerVars, clock>>

SoonerLast(t) == t                            \* the mutant: the last request wins
Sooner(t) == Min({next_tics[WriteJob], t})

\* Once the sweep has passed the write job, the present time and those the clock is about to jump
\* over come too late.
TooLate(t) == pc \in {"safe", "advance"} /\ (t = time_tics \/ t < NextTime)

\* checkpoint(t): a time that is over is refused, one that comes too late is not.
CheckpointRequest(t) ==
  /\ Requested /\ t >= time_tics
  /\ checkpoint_times' = checkpoint_times \cup {t}
  /\ next_tics' = [next_tics EXCEPT ![WriteJob] = Sooner(t)]
  /\ late' = (late \/ TooLate(t))
  /\ UNCHANGED <<execVars, timeVars, next_job_call_time, calls, safestore_time, skipped, fileVars, syncVars>>

LoadRequest(f) ==
  /\ Requested
  /\ load_file' = f
  /\ UNCHANGED <<execVars, loopVars, files, syncVars>>

\* run(), where it is not cleared at once.  There is always someone to end a freeze.
RunRequest ==
  /\ mode = "Freeze" /\ pc # "done" /\ exec_command # "RunCmd" /\ exec_command' = "RunCmd"
  /\ UNCHANGED <<pc, mode, async_freeze_command, loopVars, fileVars, cmds, syncVars>>

(***************************************************************************)
(* The specification.                                                      *)
(***************************************************************************)
ClockTicks ==
  /\ \/ pc = "monitor" /\ Tick(time_tics)
     \/ pc = "fpause" /\ Tick(freeze_time_tics + FreezeFrame)
  /\ UNCHANGED pc /\ Unmoved

TimerExpires == Alarm /\ pc # "done" /\ UNCHANGED pc /\ Unmoved

Loop ==
  \/ CallUserJobs \/ WriteCheckpoint \/ SafestoreCheckpoint \/ AdvanceSimTime
  \/ EndOfFrame \/ MonitorOverrun \/ MonitorOnTime \/ MonitorInactive
  \/ MonitorPause \/ MonitorSpin \/ MonitorApply
  \/ FreezeLoop \/ FreezeLoad \/ FreezePause \/ FreezeSem \/ FreezeSpin
  \/ FreezeStays \/ LeaveFreeze

Next ==
  \/ Loop \/ ClockTicks \/ TimerExpires
  \/ FreezeRequest \/ EnableRequest \/ DisableRequest \/ RunRequest
  \/ \E t \in CheckpointArgs : CheckpointRequest(t)
  \/ \E f \in DOMAIN files : LoadRequest(f)
  \/ pc = "done" /\ UNCHANGED vars

Spec == Init /\ [][Next]_vars

(***************************************************************************)
(* Properties.                                                             *)
(***************************************************************************)
TypeOK ==
  /\ pc \in {"top", "jobs", "write", "safe", "advance", "end", "monitor", "pause", "spin", "apply",
             "fload", "fpause", "fsem", "fspin", "ftest", "done"}
  /\ mode \in {"Run", "Freeze"} /\ exec_command \in {"NoCmd", "RunCmd", "FreezeCmd"}
  /\ async_freeze_command \in BOOLEAN
  /\ {time_tics, time_last_pass_tics} \subseteq 0 .. TerminateTime
  /\ next_frame_check_tics \in Nat
  /\ next_tics \in [Job -> 0 .. MaxTics] /\ next_job_call_time \in Nat
  /\ checkpoint_times \subseteq CheckpointArgs /\ safestore_time \in Nat /\ late \in BOOLEAN
  /\ load_file \in {NoFile} \cup DOMAIN files /\ DOMAIN files \subseteq FileName
  /\ calls \in [UserJob -> Nat] /\ skipped \in Nat /\ cmds \in 0 .. MaxCommands
  /\ SyncTypeOK

\* When the time is about to advance, each user job has been called once at each of its
\* times so far.
AllCalled == pc = "advance" => \A j \in UserJob : calls[j] = time_tics \div Cycle[j] + 1

\* The frames stay where they were, and the time stays in the current one, which goes past
\* one end for each reload at the end of a frame that led to it.
FramesKept ==
  /\ next_frame_check_tics % Frame = 0
  /\ time_tics <= next_frame_check_tics
  /\ next_frame_check_tics <= time_tics + (skipped + 1) * Frame

\* A simulation that is loaded from a checkpoint, in freeze mode or at the end of a
\* frame, at any moment and again and again, goes on exactly as the one that wrote it:
\* no job is called twice or left out, and no end of a frame is skipped but the one
\* after a reload in Run mode.  What is not in the file, the mode and the commands of the
\* executive and the wall clock, does not show in the schedule.
ScheduleRestored == TypeOK /\ AllCalled /\ FramesKept

\* When the time is about to advance, every checkpoint asked for up to now has been
\* written, the job that writes them waits for the next one, and the safestore is still
\* ahead, whatever was loaded in between.  Only a request that came too late, for a time
\* the loop was just leaving behind (CheckPointRestart.cpp:122), may be left out, and it
\* blocks all later ones: nothing is said of checkpoint_times after it.
CheckpointsDue ==
  pc = "advance" =>
    /\ ~late => \A t \in checkpoint_times : t > time_tics
    /\ next_tics[WriteJob] = NextWrite(checkpoint_times)
    /\ next_tics[SafestoreJob] > time_tics /\ next_tics[SafestoreJob] <= time_tics + SafestorePeriod

\* The same of every request.
RequestsHonoured == pc = "advance" => \A t \in checkpoint_times : t > time_tics

\* How far the clock is ahead of the time that goes on.
Lead == clock - (IF mode = "Freeze" THEN freeze_time_tics ELSE time_tics)

\* The process sleeps only when something will wake it: the timer is set, or its signal
\* has come.
SomethingWakes == pc \in {"pause", "fsem"} => armed \/ posts > 0

\* A frame, frozen or not, never begins before its time on the clock.
NeverEarly == active /\ pc \in {"apply", "fload", "ftest"} => Lead >= 0

\* A freeze does not cost the simulation its place on the clock: what it was behind
\* when it froze is what it is behind when it runs again.
FreezeKeepsLead == [][mode' # mode /\ active /\ pc' # "done" => Lead' = Lead]_vars

\* Real time is kept over overruns, freezes, requests and reloads, in any order.
RealTimeKept == [](SomethingWakes /\ NeverEarly) /\ FreezeKeepsLead
==============================================================================
