--------------------------- MODULE ExecutiveSchedule ---------------------------
(***************************************************************************)
(* Why the executive implements its schedule: an inductive invariant on    *)
(* top of that of ExecutiveSync.  It says which jobs a pass of the master  *)
(* loop has looked at, and what that means for their next call times.      *)
(***************************************************************************)
EXTENDS ExecutiveSync

\* The jobs that come after the job that advances the time are those of the classes
\* system_moding and integ_loop (the order of the job classes, parse_s_define.pm:537).
IsTail(j) == j = FreezeJob \/ j \in IntegLoopJob

ClassOrder ==
  \A k, l \in 1 .. Len(JobQueue[0]) :
    JobQueue[0][k] = AdvanceJob => (IsTail(JobQueue[0][l]) <=> l > k)

\* Nobody changes a cycle or the threads, and freeze(time) is not moved to the end of a frame.
Steady ==
  /\ StaticThreads /\ "cycle" \notin Commands
  /\ FreezeOnFrameBoundary => "freeze_at" \notin Commands
  /\ JobsOnce /\ ClassOrder

--------------------------------------------------------------------------------
\* A thread has taken a job from its queue and has not finished it.
Selected(j) == \E t \in Thread : pc[t] \in {"depend", "call"} /\ curr_job[t] = j

\* The job of a thread is the one before the cursor.
CursorBehind ==
  \A t \in Thread : pc[t] \in {"depend", "call"} =>
    curr_index[t] > 1 /\ JobQueue[t][curr_index[t] - 1] = curr_job[t]

\* In this pass the scheduled threads have been started up to this one, and the time
\* has not moved on.
StartedInPass(c) ==
  \/ pc[0] \in {"fire", "firing"} /\ c < ii
  \/ InSweep(0) /\ AdvanceAhead

\* A job that thread t has looked at for the current time: the master looks at the tail of
\* its queue after the time has moved on.
Swept(t, k) ==
  IF t = 0
  THEN IF IsTail(JobQueue[0][k])
       THEN InSweep(0) /\ ~AdvanceAhead => k < curr_index[0]
       ELSE InSweep(0) /\ AdvanceAhead /\ k < curr_index[0]
  ELSE \/ (InSweep(t) \/ pc[t] = "complete") /\ k < curr_index[t]
       \/ child_complete[t] /\ StartedInPass(t)

\* A job of the executive that runs gives its next call time when it returns.
SetsItsTime(j) == Selected(j) /\ j \in SystemJob

\* The next call of a job is never behind the time; after the sweep it is ahead of it, and the
\* next job time of the queue is not after it.
JobAhead(t, k) ==
  LET j == JobQueue[t][k] IN
    j # AdvanceJob =>
      /\ next_tics[j] >= time_tics
      /\ Swept(t, k) => SetsItsTime(j) \/ next_tics[j] > time_tics
      /\ Swept(t, k) /\ ~(t = 0 /\ IsTail(j)) => SetsItsTime(j) \/ next_job_time[t] <= next_tics[j]

CallsAhead == \A t \in Thread : InStep(t) => \A k \in 1 .. Len(JobQueue[t]) : JobAhead(t, k)

\* So the next job time of a queue is ahead of the time.
QueueAhead ==
  /\ next_job_time[0] > time_tics
  /\ \A c \in Child : ProcessType[c] = "SCHEDULED" =>
       /\ InSweep(c) \/ pc[c] = "complete" \/ (child_complete[c] /\ StartedInPass(c)) =>
            next_job_time[c] > time_tics
       /\ pc[c] = "complete" \/ (child_complete[c] /\ StartedInPass(c)) => AtEnd(c)

\* A thread starts before the master goes on, and only one with a cycle of its own catches up.
Started ==
  \A c \in Child : /\ pc[c] = "start" => pc[0] = "init" /\ c >= ii
                   /\ pc[c] = "catchup" => ProcessType[c] = "ASYNC"

\* The freeze job waits for the first of the times to freeze at.
FreezeDue ==
  /\ \A n \in freeze_times : next_tics[FreezeJob] <= n
  /\ FreezeOnFrameBoundary =>
       freeze_times = {} /\ next_tics[FreezeJob] = MaxTics /\ ~Selected(FreezeJob)

\* The jobs of the executive are on, and no cycle was changed.
JobsStatic == cycle_tics = Cycle /\ \A j \in SystemJob : ~disabled[j]


BeforeTop == pc[0] \in {"init", "loop", "clear", "freeze", "resume", "refreeze", "unfreeze", "top"}
AfterAdvance == pc[0] \in {"check", "clearrun", "term", "eof"} \/ (InSweep(0) /\ ~AdvanceAhead)

\* The time, the frame it is in, and the number of frames begun.
FrameInv ==
  /\ time_last_pass_tics <= time_tics /\ time_tics <= TerminateTime
  /\ time_tics <= next_frame_check_tics
  /\ next_frame_check_tics <= time_tics + SoftwareFrame
  /\ ~AfterAdvance /\ pc[0] \notin {"shutdown", "done"} => time_tics < next_frame_check_tics
  /\ BeforeTop => frame_count * SoftwareFrame =
       IF AtFrameStart THEN next_frame_check_tics - SoftwareFrame ELSE next_frame_check_tics
  /\ ~BeforeTop /\ pc[0] \notin {"shutdown", "done"}
       => frame_count * SoftwareFrame = next_frame_check_tics
  /\ AfterAdvance => TerminateReached \/ ~AtFrameStart
  /\ pc[0] = "eof" => ~TerminateReached

\* The time never passes the sync time of an AMF thread.
AmfAhead ==
  \A c \in Child : ProcessType[c] = "AMF" =>
    /\ time_tics <= amf_next_tics[c]
    /\ StartedInPass(c) \/ Armed(c) => time_tics < amf_next_tics[c]

--------------------------------------------------------------------------------
\* No job ends before its first call (one that ends before it starts is turned off by
\* add_jobs_to_queue), and nobody has turned a job off.
StopsLater == \A j \in UserJob : FirstCall(j) <= Stop[j]

Undisturbed == StopsLater /\ (cmds = 0 \/ "onoff" \notin Commands)

Due(j, n) == Schedule!DueAt(j, n)

\* The last time of job j that was handled: called, or being called.
Handled(j) == IF Selected(j) THEN time_tics ELSE last_call[j]

\* No time of a job lies between the one handled and the next one.
JobHistory(j) ==
  /\ last_call[j] <= time_tics /\ last_call[j] < next_tics[j]
  /\ Due(j, next_tics[j]) \/ next_tics[j] >= MaxTics
  /\ \A n \in 0 .. TerminateTime : Due(j, n) => n <= Handled(j) \/ n >= next_tics[j]
  /\ Selected(j) => Due(j, time_tics) /\ last_call[j] < time_tics /\ time_tics < next_tics[j]

History ==
  Undisturbed => /\ \A j \in Job : ~disabled[j]
                 /\ \A j \in SyncJob : JobHistory(j)

\* When the time does not move on, at the terminate time, all calls have been made.
LastPass ==
  /\ AfterAdvance /\ TerminateReached => \A j \in SyncJob : next_tics[j] > time_tics
  /\ cmds = 0 => /\ exec_command \in {"ExitCmd", "RunCmd"} => pc[0] \in {"shutdown", "done"}
                 /\ pc[0] \in {"shutdown", "done"} =>
                      time_tics = TerminateTime /\ \A j \in SyncJob : next_tics[j] > time_tics

ScheduleInv ==
  /\ Started /\ CursorBehind /\ CallsAhead /\ QueueAhead /\ JobsStatic /\ FreezeDue
  /\ FrameInv /\ AmfAhead /\ History /\ LastPass

--------------------------------------------------------------------------------
\* The threads whose jobs have been marked in this pass as not complete.
Marked(t) ==
  \/ pc[0] = "mark" /\ t < ii
  \/ pc[0] \in {"input", "fire", "firing"}
  \/ InSweep(0) /\ AdvanceAhead

\* The call of job d at the current time, if it has one, is over.
DoneNow(d) == Due(d, time_tics) => last_call[d] = time_tics

\* A job that was marked and is complete again has been called.
CompleteNow ==
  \A t \in Thread : InStep(t) /\ Marked(t) =>
    \A d \in JobsOf(t) \cap SyncJob : complete[d] => DoneNow(d)

\* So have been the jobs that the job of a thread has waited for.
Awaited ==
  \A t \in Thread : InStep(t) /\ pc[t] \in {"depend", "call"} =>
    \A k \in 1 .. Len(Depends[curr_job[t]]) :
      (pc[t] = "call" \/ k < dep_index[t]) /\ Depends[curr_job[t]][k] \in SyncJob
        => DoneNow(Depends[curr_job[t]][k])

\* While the master waits for the threads to start none of them runs a job.
StartsIdle == pc[0] = "init" => \A c \in Child : pc[c] = "start" \/ child_complete[c]

DependsInv == StartsIdle /\ CompleteNow /\ Awaited

\* The jobs after the one that advances the time depend on none: what they waited for would be
\* complete since the time before.
TailAlone == \A j \in Job : IsTail(j) => Depends[j] = << >>
================================================================================
