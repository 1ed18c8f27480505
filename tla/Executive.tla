------------------------------- MODULE Executive -------------------------------
(***************************************************************************)
(* The run mode of Trick::Executive: the master loop (loop_single_thread,  *)
(* loop_multi_thread), the child threads (Threads::thread_body) and the    *)
(* commands other threads give the executive while it runs.                *)
(*                                                                         *)
(* Thread 0 is the master.  Every thread has a program counter pc[t], a    *)
(* job queue that never changes (JobQueue[t], sorted as the code sorts it) *)
(* and the cursor and the next job call time of that queue.  Times are     *)
(* tics.  One step of a thread is one iteration of one of its loops, so    *)
(* the steps of two threads interleave wherever the code lets them.        *)
(***************************************************************************)
EXTENDS ThreadTrigger, Integers, Sequences, FiniteSets

CONSTANTS
  ProcessType,           \* [Child -> ProcessKind]
  AmfCycle,              \* [Child -> Nat]: amf_cycle_tics
  AsyncWait,             \* [Child -> BOOLEAN]: shutdown_wait_async
  Job,                   \* the jobs of all queues
  JobQueue,              \* [0 .. NumChild -> Seq(Job)]: the scheduled job queues
  AdvanceJob,            \* advance_sim_time_job, in the queue of thread 0
  FreezeJob,             \* freeze_job, in the queue of thread 0
  InputJob,              \* the job of input_processor_run_queue
  EventJob,              \* the other jobs of a system class: they reschedule themselves
  IntegLoopJob,          \* the jobs of class integ_loop
  Cycle, Start, Stop,    \* [Job -> Nat]: cycle_tics, start_tics and stop_tics
  Depends,               \* [Job -> Seq(Job)]: depends
  SoftwareFrame,         \* software_frame_tics
  TerminateTime,         \* terminate_time
  MaxTics,               \* TRICK_MAX_LONG_LONG
  FreezeCommand,         \* freeze_command: does the run begin in freeze?
  FreezeOnFrameBoundary, \* freeze_on_frame_boundary
  EventTimes,            \* the times for which a self-scheduling job may ask
  Commands,              \* the commands given during the run
  MaxCommands,           \* bound: how many commands are given
  FreezeArgs,            \* the arguments of freeze(time)
  CycleArgs              \* the arguments of set_job_cycle

Thread      == 0 .. NumChild
ProcessKind == {"SCHEDULED", "ASYNC", "AMF"}
CommandKind == {"freeze", "freeze_at", "run", "stop", "onoff", "thread", "cycle"}

SystemJob == EventJob \cup {AdvanceJob, FreezeJob, InputJob}
UserJob   == Job \ SystemJob

\* The jobs of the queue of thread t.
JobsOf(t) == {JobQueue[t][k] : k \in 1 .. Len(JobQueue[t])}

ASSUME ExecutiveAssumption ==
  /\ ProcessType \in [Child -> ProcessKind]
  /\ AmfCycle \in [Child -> Nat]
  /\ \A c \in Child : ProcessType[c] = "AMF" => AmfCycle[c] > 0
  /\ AsyncWait \in [Child -> BOOLEAN]
  /\ JobQueue \in [Thread -> Seq(Job)]
  /\ {AdvanceJob, FreezeJob} \subseteq JobsOf(0) /\ InputJob \in Job \ JobsOf(0)
  /\ \A c \in Child : {AdvanceJob, FreezeJob, InputJob} \cap JobsOf(c) = {}
  /\ EventJob \subseteq Job \ {AdvanceJob, FreezeJob, InputJob}
  /\ AdvanceJob # FreezeJob /\ AdvanceJob # InputJob /\ FreezeJob # InputJob
  /\ IntegLoopJob \subseteq UserJob
  /\ Cycle \in [Job -> Nat \ {0}] /\ Start \in [Job -> Nat] /\ Stop \in [Job -> Nat]
  /\ Depends \in [Job -> Seq(Job)]
  /\ SoftwareFrame \in Nat \ {0}
  /\ TerminateTime \in Nat /\ MaxTics \in Nat /\ TerminateTime < MaxTics
  /\ FreezeCommand \in BOOLEAN /\ FreezeOnFrameBoundary \in BOOLEAN
  /\ EventTimes \subseteq Nat
  /\ Commands \subseteq CommandKind /\ MaxCommands \in Nat
  /\ FreezeArgs \subseteq Nat /\ CycleArgs \subseteq Nat \ {0}

VARIABLES
  time_tics, time_last_pass_tics, next_frame_check_tics, frame_count,
  exec_command, async_freeze_command, freeze_times, mode,
  next_tics, cycle_tics, complete, disabled,   \* per job
  last_call,             \* ghost, per job: the thread's time at its last finished call
  pc, curr_index, next_job_time, curr_job, dep_index,   \* per thread
  curr_time_tics, enabled, child_complete, amf_next_tics,   \* per child, with trig
  ip_next_job_time,      \* next_job_time of input_processor_run_queue
  ii,                    \* the loop index of the master
  cmds                   \* ghost: the number of commands given

clockVars == <<time_tics, time_last_pass_tics, next_frame_check_tics, frame_count>>
modeVars  == <<exec_command, async_freeze_command, freeze_times, mode>>
jobVars   == <<next_tics, cycle_tics, complete, disabled, last_call>>
queueVars == <<curr_index, next_job_time>>
callVars  == <<curr_job, dep_index>>
childVars == <<curr_time_tics, enabled, child_complete, amf_next_tics>>
vars == <<clockVars, modeVars, jobVars, queueVars, callVars, childVars, trig, pc,
          ip_next_job_time, ii, cmds>>

MainPC  == {"init", "loop", "clear", "freeze", "resume", "refreeze", "unfreeze", "top",
            "sync", "mark", "input", "fire", "firing", "sweep", "depend", "call",
            "check", "clearrun", "term", "eof", "shutdown", "done"}
ChildPC == {"start", "wait", "waiting", "dispatch", "catchup", "sweep", "depend", "call",
            "complete", "cancelled"}

ClockOK ==
  /\ time_tics \in Nat /\ time_last_pass_tics \in Nat
  /\ next_frame_check_tics \in Nat /\ frame_count \in Nat

ModeOK ==
  /\ exec_command \in {"NoCmd", "FreezeCmd", "RunCmd", "ExitCmd"}
  /\ async_freeze_command \in BOOLEAN
  /\ freeze_times \subseteq Nat
  /\ mode \in {"Run", "Freeze", "ExitMode"}

JobsOK ==
  /\ next_tics \in [Job -> Nat] /\ cycle_tics \in [Job -> Nat \ {0}]
  /\ complete \in [Job -> BOOLEAN] /\ disabled \in [Job -> BOOLEAN]
  /\ last_call \in [Job -> Int]

ControlOK ==
  /\ pc \in [Thread -> MainPC \cup ChildPC] /\ pc[0] \in MainPC
  /\ \A c \in Child : pc[c] \in ChildPC

QueuesOK ==
  /\ curr_index \in [Thread -> Nat] /\ next_job_time \in [Thread -> Nat]
  /\ \A t \in Thread : curr_index[t] \in 1 .. Len(JobQueue[t]) + 1
  /\ curr_job \in [Thread -> Job] /\ dep_index \in [Thread -> Nat \ {0}]

ChildrenOK ==
  /\ curr_time_tics \in [Child -> Nat] /\ enabled \in [Child -> BOOLEAN]
  /\ child_complete \in [Child -> BOOLEAN] /\ amf_next_tics \in [Child -> Nat]

MasterOK ==
  /\ ip_next_job_time \in Nat /\ cmds \in Nat
  /\ ii \in 0 .. NumChild + 1
  /\ pc[0] = "fire" => ii > 0
  /\ pc[0] = "firing" => ii \in Child

\* The types of the variables, and of the loop index of the master.
TypeOK ==
  /\ ClockOK /\ ModeOK /\ JobsOK /\ ControlOK /\ QueuesOK /\ ChildrenOK
  /\ TriggerTypeOK /\ MasterOK

--------------------------------------------------------------------------------
(***************************************************************************)
(* Helpers.                                                                *)
(***************************************************************************)
MinOf(a, b) == IF a < b THEN a ELSE b

\* Executive::loop runs loop_single_thread if there are no child threads.
MultiThread == NumChild > 0

Least(S) == CHOOSE m \in S : \A n \in S : m <= n

\* The time a thread compares the call times of its jobs with.
Now(t) == IF t = 0 THEN time_tics ELSE curr_time_tics[t]

Goto(t, label) == pc' = [pc EXCEPT ![t] = label]

\* An asynchronous thread without a cycle runs all its jobs each time.
FreeRunning(t) == t \in Child /\ ProcessType[t] = "ASYNC" /\ AmfCycle[t] = 0

\* Where the cursor of a queue is when all its jobs have been looked at.
QueueEndTooFar(t) == Len(JobQueue[t]) + 2
QueueEnd(t) == Len(JobQueue[t]) + 1

AtEnd(t) == curr_index[t] >= QueueEnd(t)

\* add_jobs_to_queue: the first call of a job.
FirstCall(j) == Start[j] + (IF j \in IntegLoopJob THEN Cycle[j] ELSE 0)

\* find_next_job: the call after the one that is due.
NextCallStopsEarly(j) == IF next_tics[j] + cycle_tics[j] >= Stop[j]
                         THEN MaxTics ELSE next_tics[j] + cycle_tics[j]
NextCall(j) == IF next_tics[j] + cycle_tics[j] > Stop[j]
               THEN MaxTics ELSE next_tics[j] + cycle_tics[j]

\* get_next_job_call_time: the jobs from the cursor on are looked at again.
NextJobCallTimeTrusted(t) == next_job_time[t]
NextJobCallTime(t) ==
  Least({next_job_time[t]} \cup {next_tics[JobQueue[t][k]] : k \in curr_index[t] .. Len(JobQueue[t])})

\* test_next_job_call_time(job, now) for a queue whose next job time is n.
TestNextJobCallTimeSkipped(n, call, now) == n
TestNextJobCallTime(n, call, now) == IF call > now THEN MinOf(n, call) ELSE n

ReadyThoughBusy(c) ==
  /\ enabled[c]
  /\ \/ ProcessType[c] = "SCHEDULED"
     \/ ProcessType[c] = "AMF" /\ amf_next_tics[c] = time_tics
     \/ ProcessType[c] = "ASYNC" /\ (AmfCycle[c] = 0 \/ amf_next_tics[c] = time_tics)
isThreadReadyToRun(c) ==
  /\ enabled[c]
  /\ \/ ProcessType[c] = "SCHEDULED"
     \/ ProcessType[c] = "AMF" /\ amf_next_tics[c] = time_tics
     \/ /\ ProcessType[c] = "ASYNC" /\ child_complete[c]
        /\ (AmfCycle[c] = 0 \/ amf_next_tics[c] = time_tics)

\* The times for which a self-scheduling job that runs at time now may ask.
EventTimesAfter(now) == {n \in EventTimes : n > now} \cup {MaxTics}

--------------------------------------------------------------------------------
(***************************************************************************)
(* The state Executive::loop finds after initialization.                   *)
(***************************************************************************)
Init ==
  /\ time_tics = 0 /\ time_last_pass_tics = 0
  /\ next_frame_check_tics = SoftwareFrame /\ frame_count = 0
  /\ exec_command = IF FreezeCommand THEN "FreezeCmd" ELSE "NoCmd"
  /\ async_freeze_command = FALSE
  /\ freeze_times = {} /\ mode = "Run"
  /\ next_tics \in {f \in [Job -> {FirstCall(j) : j \in UserJob} \cup EventTimes \cup {0, MaxTics}] :
                      /\ \A j \in UserJob : f[j] = FirstCall(j)
                      /\ \A j \in EventJob \cup {InputJob} : f[j] \in EventTimes \cup {MaxTics}
                      /\ f[AdvanceJob] = 0 /\ f[FreezeJob] = MaxTics}
  /\ cycle_tics = Cycle
  /\ complete = [j \in Job |-> FALSE] /\ disabled = [j \in Job |-> FALSE]
  /\ last_call = [j \in Job |-> -1]
  /\ pc = [t \in Thread |-> IF t # 0 THEN "start" ELSE IF MultiThread THEN "init" ELSE "loop"]
  /\ curr_index = [t \in Thread |-> 1] /\ next_job_time = [t \in Thread |-> MaxTics]
  /\ curr_job = [t \in Thread |-> AdvanceJob] /\ dep_index = [t \in Thread |-> 1]
  /\ curr_time_tics = [c \in Child |-> 0] /\ enabled = [c \in Child |-> TRUE]
  /\ child_complete = [c \in Child |-> FALSE] /\ amf_next_tics = [c \in Child |-> 0]
  /\ TriggerInit
  /\ ip_next_job_time = MaxTics /\ ii = 1 /\ cmds = 0

--------------------------------------------------------------------------------
(***************************************************************************)
(* The sweep of a job queue, by the master and by the children.            *)
(***************************************************************************)
\* One iteration of find_next_job: a job that is due is rescheduled, unless it
\* is of a system class, and returned, unless it is disabled.
FindNextJob(t) ==
  /\ pc[t] = "sweep" /\ ~AtEnd(t) /\ ~FreeRunning(t)
  /\ LET j    == JobQueue[t][curr_index[t]]
         due  == next_tics[j] = Now(t)
         next == IF due /\ j \notin SystemJob THEN NextCall(j) ELSE next_tics[j]
     IN /\ next_tics' = [next_tics EXCEPT ![j] = next]
        /\ next_job_time' = [next_job_time EXCEPT ![t] =
             IF due THEN IF j \in SystemJob THEN @ ELSE MinOf(@, next)
                    ELSE TestNextJobCallTime(@, next, Now(t))]
        /\ curr_index' = [curr_index EXCEPT ![t] = @ + 1]
        /\ \/ /\ due /\ ~disabled[j]
              /\ Goto(t, "depend")
              /\ curr_job' = [curr_job EXCEPT ![t] = j]
              /\ dep_index' = [dep_index EXCEPT ![t] = 1]
           \/ /\ ~(due /\ ~disabled[j])
              /\ UNCHANGED <<pc, callVars>>
  /\ UNCHANGED <<clockVars, modeVars, cycle_tics, complete, disabled, last_call, childVars, trig,
                 ip_next_job_time, ii, cmds>>

\* One iteration of get_next_job, which a free running thread uses instead.
GetNextJob(t) ==
  /\ pc[t] = "sweep" /\ ~AtEnd(t) /\ FreeRunning(t)
  /\ curr_index' = [curr_index EXCEPT ![t] = @ + 1]
  /\ LET j == JobQueue[t][curr_index[t]] IN
       \/ /\ ~disabled[j]
          /\ Goto(t, "depend")
          /\ curr_job' = [curr_job EXCEPT ![t] = j]
          /\ dep_index' = [dep_index EXCEPT ![t] = 1]
       \/ /\ disabled[j]
          /\ UNCHANGED <<pc, callVars>>
  /\ UNCHANGED <<clockVars, modeVars, jobVars, next_job_time, childVars, trig,
                 ip_next_job_time, ii, cmds>>

\* Wait for the jobs the current job depends on, one after the other, then
\* call it.  loop_single_thread does not look at the dependencies.
AwaitDepends(t) ==
  /\ pc[t] = "depend"
  /\ LET deps == Depends[curr_job[t]] IN
       \/ /\ MultiThread /\ dep_index[t] <= Len(deps)
          /\ complete[deps[dep_index[t]]]
          /\ dep_index' = [dep_index EXCEPT ![t] = @ + 1]
          /\ UNCHANGED <<pc, ii>>
       \/ /\ ~MultiThread \/ dep_index[t] > Len(deps)
          /\ Goto(t, "call")
          /\ ii' = IF t = 0 THEN 1 ELSE ii
          /\ UNCHANGED dep_index
  /\ UNCHANGED <<clockVars, modeVars, jobVars, queueVars, curr_job, childVars, trig,
                 ip_next_job_time, cmds>>

\* The end of the call of a job of a model, or of a system job that gives its
\* next call time itself.
ReturnFromJob(t) ==
  LET j == curr_job[t] IN
  /\ pc[t] = "call" /\ j \notin {AdvanceJob, FreezeJob}
  /\ \/ /\ j \notin SystemJob
        /\ UNCHANGED <<next_tics, next_job_time>>
     \/ /\ j \in SystemJob
        /\ \E n \in EventTimesAfter(Now(t)) :
             /\ next_tics' = [next_tics EXCEPT ![j] = n]
             /\ next_job_time' = [next_job_time EXCEPT ![t] = TestNextJobCallTime(@, n, Now(t))]
  /\ complete' = [complete EXCEPT ![j] = @ \/ MultiThread]
  /\ last_call' = [last_call EXCEPT ![j] = Now(t)]
  /\ Goto(t, "sweep")
  /\ UNCHANGED <<clockVars, modeVars, cycle_tics, disabled, curr_index, callVars, childVars, trig,
                 ip_next_job_time, ii, cmds>>

--------------------------------------------------------------------------------
(***************************************************************************)
(* The jobs advance_sim_time and sched_freeze_to_exec_command(false).      *)
(***************************************************************************)
\* scheduled_thread_sync: wait for one scheduled thread after the other.
NoSync(c) == FALSE
MustSync(c) == enabled[c] /\ ProcessType[c] = "SCHEDULED"

ScheduledThreadSync ==
  /\ pc[0] = "call" /\ curr_job[0] = AdvanceJob /\ ii <= NumChild
  /\ MustSync(ii) => child_complete[ii]
  /\ ii' = ii + 1
  /\ UNCHANGED <<clockVars, modeVars, jobVars, queueVars, callVars, childVars, trig, pc,
                 ip_next_job_time, cmds>>

\* The sync times of the AMF threads.
NoSyncTimes == {}
SyncTimes == {amf_next_tics[c] : c \in {d \in Child : enabled[d] /\ ProcessType[d] = "AMF" /\ AmfCycle[d] > 0}}

\* The next simulation time: the least of the end of the frame, the terminate
\* time, the next call of a job and the next synchronization of a thread.
NextTime ==
  Least({next_frame_check_tics, TerminateTime}
        \cup {n \in {NextJobCallTime(0), ip_next_job_time} : n > time_tics}
        \cup {NextJobCallTime(c) : c \in {d \in Child : enabled[d] /\ ProcessType[d] = "SCHEDULED"}}
        \cup SyncTimes)

AdvanceSimTime ==
  /\ pc[0] = "call" /\ curr_job[0] = AdvanceJob /\ ii > NumChild
  /\ time_last_pass_tics' = time_tics
  /\ time_tics' = NextTime
  /\ ip_next_job_time' = time_tics' + SoftwareFrame
  /\ next_job_time' = [t \in Thread |->
       CASE t = 0 -> time_tics' + SoftwareFrame
         [] t # 0 /\ enabled[t] /\ ProcessType[t] = "SCHEDULED" -> NextJobCallTime(t)
         [] OTHER -> next_job_time[t]]
  /\ next_tics' = [next_tics EXCEPT ![AdvanceJob] = time_tics']
  /\ complete' = [complete EXCEPT ![AdvanceJob] = @ \/ MultiThread]
  /\ last_call' = [last_call EXCEPT ![AdvanceJob] = time_tics]
  /\ Goto(0, "sweep")
  /\ UNCHANGED <<next_frame_check_tics, frame_count, modeVars, cycle_tics, disabled, curr_index,
                 callVars, childVars, trig, ii, cmds>>

\* What sched_freeze_to_exec_command does when it may act: drop the freeze
\* times that are reached and schedule freeze_job for the next one.
FreezeTimesLeft == {n \in freeze_times : n > time_tics}

SchedFreezeNext == IF FreezeTimesLeft = {} THEN MaxTics ELSE Least(FreezeTimesLeft)

SchedFreezeToExecCommand ==
  /\ pc[0] = "call" /\ curr_job[0] = FreezeJob
  /\ IF FreezeOnFrameBoundary
     THEN UNCHANGED <<exec_command, freeze_times, next_tics, next_job_time>>
     ELSE /\ exec_command' = IF FreezeTimesLeft # freeze_times THEN "FreezeCmd" ELSE exec_command
          /\ freeze_times' = FreezeTimesLeft
          /\ next_tics' = [next_tics EXCEPT ![FreezeJob] = SchedFreezeNext]
          /\ next_job_time' = [next_job_time EXCEPT ![0] =
               TestNextJobCallTime(@, SchedFreezeNext, time_tics)]
  /\ complete' = [complete EXCEPT ![FreezeJob] = @ \/ MultiThread]
  /\ last_call' = [last_call EXCEPT ![FreezeJob] = time_tics]
  /\ Goto(0, "sweep")
  /\ UNCHANGED <<clockVars, async_freeze_command, mode, cycle_tics, disabled, curr_index, callVars,
                 childVars, trig, ip_next_job_time, ii, cmds>>

--------------------------------------------------------------------------------
(***************************************************************************)
(* The master loop, from one line of loop_multi_thread to the next.        *)
(***************************************************************************)
\* Wait until every child has initialized.
AwaitChildren ==
  /\ pc[0] = "init"
  /\ \/ ii <= NumChild /\ child_complete[ii] /\ ii' = ii + 1 /\ UNCHANGED pc
     \/ ii > NumChild /\ Goto(0, "loop") /\ UNCHANGED ii
  /\ UNCHANGED <<clockVars, modeVars, jobVars, queueVars, callVars, childVars, trig,
                 ip_next_job_time, cmds>>

\* The head of the loop looks for a freeze command.
TestFreezeCmd ==
  /\ pc[0] = "loop"
  /\ Goto(0, IF exec_command = "FreezeCmd" THEN "clear" ELSE "top")
  /\ UNCHANGED <<clockVars, modeVars, jobVars, queueVars, callVars, childVars, trig,
                 ip_next_job_time, ii, cmds>>

\* It clears the command, whatever it is by now, and calls freeze_loop.
EnterFreeze ==
  /\ pc[0] = "clear"
  /\ exec_command' = "NoCmd" /\ mode' = "Freeze"
  /\ Goto(0, "freeze")
  /\ UNCHANGED <<clockVars, async_freeze_command, freeze_times, jobVars, queueVars, callVars,
                 childVars, trig, ip_next_job_time, ii, cmds>>

\* One pass of freeze_loop, up to its tests of exec_command.
FreezeLoop ==
  /\ pc[0] = "freeze"
  /\ Goto(0, CASE exec_command = "RunCmd"    -> "resume"
               [] exec_command = "FreezeCmd" -> "refreeze"
               [] exec_command = "ExitCmd"   -> "shutdown"
               [] OTHER                      -> "freeze")
  /\ ii' = 1
  /\ UNCHANGED <<clockVars, modeVars, jobVars, queueVars, callVars, childVars, trig,
                 ip_next_job_time, cmds>>

\* After the test the command is cleared, whatever it is by now.
ClearFreezeLoopCmd ==
  /\ pc[0] \in {"resume", "refreeze"}
  /\ exec_command' = "NoCmd"
  /\ mode' = IF pc[0] = "resume" THEN "Run" ELSE mode
  /\ Goto(0, IF pc[0] = "resume" THEN "unfreeze" ELSE "freeze")
  /\ UNCHANGED <<clockVars, async_freeze_command, freeze_times, jobVars, queueVars, callVars,
                 childVars, trig, ip_next_job_time, ii, cmds>>

\* The last test of the freeze loop, then the unfreeze jobs.
LeaveFreeze ==
  /\ pc[0] = "unfreeze"
  /\ Goto(0, IF exec_command = "ExitCmd" THEN "shutdown" ELSE "top")
  /\ ii' = 1
  /\ UNCHANGED <<clockVars, modeVars, jobVars, queueVars, callVars, childVars, trig,
                 ip_next_job_time, cmds>>

\* The top of frame jobs of the master and of the scheduled threads.
NotAtFrameStart == time_tics = next_frame_check_tics
AtFrameStart == time_tics = next_frame_check_tics - SoftwareFrame

TopOfFrame ==
  /\ pc[0] = "top"
  /\ frame_count' = IF AtFrameStart THEN frame_count + 1 ELSE frame_count
  /\ Goto(0, IF MultiThread THEN "sync" ELSE "input")
  /\ ii' = 1
  /\ UNCHANGED <<time_tics, time_last_pass_tics, next_frame_check_tics, modeVars, jobVars,
                 queueVars, callVars, childVars, trig, ip_next_job_time, cmds>>

\* thread_sync, the first loop, for one child: wait for an AMF thread that is
\* to finish now, move the sync time of an idle ASYNC thread up to now.
AmfDue(c) == ProcessType[c] = "AMF" /\ amf_next_tics[c] = time_tics

AsyncBehind(c) ==
  /\ ProcessType[c] = "ASYNC" /\ AmfCycle[c] # 0
  /\ child_complete[c] /\ amf_next_tics[c] < time_tics

ThreadSync ==
  /\ pc[0] = "sync"
  /\ \/ /\ ii <= NumChild /\ AsyncBehind(ii)
        /\ amf_next_tics' = [amf_next_tics EXCEPT ![ii] = @ + AmfCycle[ii]]
        /\ UNCHANGED <<pc, ii>>
     \/ /\ ii <= NumChild /\ ~AsyncBehind(ii)
        /\ AmfDue(ii) => child_complete[ii]
        /\ ii' = ii + 1
        /\ UNCHANGED <<pc, amf_next_tics>>
     \/ /\ ii > NumChild
        /\ Goto(0, "mark") /\ ii' = 0
        /\ UNCHANGED amf_next_tics
  /\ UNCHANGED <<clockVars, modeVars, jobVars, queueVars, callVars, curr_time_tics, enabled,
                 child_complete, trig, ip_next_job_time, cmds>>

\* thread_sync, the second loop, for one thread: the jobs that are to run now
\* are marked as not complete, which leaves the cursor at the end.
ToRunBefore(t, j) == j \in JobsOf(t) /\ next_tics[j] = time_last_pass_tics /\ ~disabled[j]
ToRunNow(t, j) == j \in JobsOf(t) /\ next_tics[j] = time_tics /\ ~disabled[j]

MarkIncomplete ==
  /\ pc[0] = "mark"
  /\ \/ /\ ii <= NumChild
        /\ ii' = ii + 1
        /\ IF ii = 0 \/ isThreadReadyToRun(ii)
           THEN /\ complete' = [j \in Job |-> complete[j] /\ ~ToRunNow(ii, j)]
                /\ curr_index' = [curr_index EXCEPT ![ii] = QueueEnd(ii)]
           ELSE UNCHANGED <<complete, curr_index>>
        /\ UNCHANGED pc
     \/ /\ ii > NumChild
        /\ Goto(0, "input")
        /\ UNCHANGED <<complete, curr_index, ii>>
  /\ UNCHANGED <<clockVars, modeVars, next_tics, cycle_tics, disabled, last_call, next_job_time,
                 callVars, childVars, trig, ip_next_job_time, cmds>>

\* The input processor job gives its next call time itself.
InputProcessorRun ==
  /\ pc[0] = "input"
  /\ \/ /\ next_tics[InputJob] = time_tics /\ ~disabled[InputJob]
        /\ \E n \in EventTimesAfter(time_tics) :
             /\ next_tics' = [next_tics EXCEPT ![InputJob] = n]
             /\ ip_next_job_time' = TestNextJobCallTime(ip_next_job_time, n, time_tics)
             /\ next_job_time' = [next_job_time EXCEPT ![0] =
                  IF MultiThread THEN TestNextJobCallTime(@, n, time_tics) ELSE @]
        /\ last_call' = [last_call EXCEPT ![InputJob] = time_tics]
     \/ /\ ~(next_tics[InputJob] = time_tics /\ ~disabled[InputJob])
        /\ ip_next_job_time' = TestNextJobCallTime(ip_next_job_time, next_tics[InputJob], time_tics)
        /\ UNCHANGED <<next_tics, next_job_time, last_call>>
  /\ Goto(0, "fire") /\ ii' = 1
  /\ UNCHANGED <<clockVars, modeVars, cycle_tics, complete, disabled, curr_index, callVars,
                 childVars, trig, cmds>>

\* Start the threads that are ready, one after the other: arm a thread, then
\* fire its trigger.  Then start the sweep of the main queue.
ArmThread ==
  /\ pc[0] = "fire"
  /\ \/ /\ ii <= NumChild /\ isThreadReadyToRun(ii)
        /\ curr_time_tics' = [curr_time_tics EXCEPT ![ii] = time_tics]
        /\ child_complete' = [child_complete EXCEPT ![ii] = FALSE]
        /\ amf_next_tics' = [amf_next_tics EXCEPT ![ii] = @ + AmfCycle[ii]]
        /\ Goto(0, "firing")
        /\ UNCHANGED <<ii, curr_index>>
     \/ /\ ii <= NumChild /\ ~isThreadReadyToRun(ii)
        /\ ii' = ii + 1
        /\ UNCHANGED <<curr_time_tics, child_complete, amf_next_tics, pc, curr_index>>
     \/ /\ ii > NumChild
        /\ Goto(0, "sweep")
        /\ curr_index' = [curr_index EXCEPT ![0] = 1]
        /\ UNCHANGED <<curr_time_tics, child_complete, amf_next_tics, ii>>
  /\ UNCHANGED <<clockVars, modeVars, jobVars, next_job_time, callVars, enabled, trig,
                 ip_next_job_time, cmds>>

FireThread ==
  /\ pc[0] = "firing"
  /\ Fire(ii)
  /\ Goto(0, "fire") /\ ii' = ii + 1
  /\ UNCHANGED <<clockVars, modeVars, jobVars, queueVars, callVars, childVars,
                 ip_next_job_time, cmds>>

EndMainSweep ==
  /\ pc[0] = "sweep" /\ AtEnd(0)
  /\ Goto(0, "check")
  /\ UNCHANGED <<clockVars, modeVars, jobVars, queueVars, callVars, childVars, trig,
                 ip_next_job_time, ii, cmds>>

\* exec_command is tested twice, and cleared after the second test.
CheckCommand ==
  /\ pc[0] = "check"
  /\ Goto(0, CASE exec_command = "ExitCmd" -> "shutdown"
               [] exec_command = "RunCmd"  -> "clearrun"
               [] OTHER                    -> "term")
  /\ ii' = 1
  /\ UNCHANGED <<clockVars, modeVars, jobVars, queueVars, callVars, childVars, trig,
                 ip_next_job_time, cmds>>

ClearRunCmd ==
  /\ pc[0] = "clearrun"
  /\ exec_command' = "NoCmd"
  /\ Goto(0, "term")
  /\ UNCHANGED <<clockVars, async_freeze_command, freeze_times, mode, jobVars, queueVars, callVars,
                 childVars, trig, ip_next_job_time, ii, cmds>>

TerminateReachedNever == TerminateTime < time_last_pass_tics
TerminateReached == TerminateTime <= time_last_pass_tics

CheckTerminate ==
  /\ pc[0] = "term"
  /\ \/ /\ TerminateReached
        /\ time_tics' = time_last_pass_tics
        /\ exec_command' = IF MultiThread THEN exec_command ELSE "ExitCmd"
        /\ Goto(0, "shutdown")
     \/ /\ ~TerminateReached
        /\ Goto(0, "eof")
        /\ UNCHANGED <<time_tics, exec_command>>
  /\ ii' = 1
  /\ UNCHANGED <<time_last_pass_tics, next_frame_check_tics, frame_count, async_freeze_command,
                 freeze_times, mode, jobVars, queueVars, callVars, childVars, trig,
                 ip_next_job_time, cmds>>

\* The end of frame jobs: sched_freeze_to_exec_command(true), then
\* async_freeze_to_exec_command, then the jobs of the scheduled threads.
EndOfFrame ==
  /\ pc[0] = "eof"
  /\ \/ /\ time_tics = next_frame_check_tics
        /\ exec_command' = IF FreezeTimesLeft # freeze_times \/ async_freeze_command
                           THEN "FreezeCmd" ELSE exec_command
        /\ freeze_times' = FreezeTimesLeft
        /\ next_tics' = [next_tics EXCEPT ![FreezeJob] = SchedFreezeNext]
        /\ async_freeze_command' = FALSE
        /\ next_frame_check_tics' = next_frame_check_tics + SoftwareFrame
     \/ /\ time_tics # next_frame_check_tics
        /\ UNCHANGED <<exec_command, freeze_times, next_tics, async_freeze_command,
                       next_frame_check_tics>>
  /\ Goto(0, "loop")
  /\ UNCHANGED <<time_tics, time_last_pass_tics, frame_count, mode, cycle_tics, complete, disabled,
                 last_call, queueVars, callVars, childVars, trig, ip_next_job_time, ii, cmds>>

\* shutdown: wait for the threads the user wants to wait for, then cancel all.
NoAwaitAtShutdown(c) == FALSE
AwaitAtShutdown(c) == ProcessType[c] # "SCHEDULED" /\ AsyncWait[c]

Shutdown ==
  /\ pc[0] = "shutdown"
  /\ mode' = "ExitMode"
  /\ \/ /\ ii <= NumChild
        /\ AwaitAtShutdown(ii) => child_complete[ii]
        /\ ii' = ii + 1 /\ UNCHANGED pc
     \/ /\ ii > NumChild
        /\ pc' = [t \in Thread |-> IF t = 0 THEN "done" ELSE "cancelled"]
        /\ UNCHANGED ii
  /\ UNCHANGED <<clockVars, exec_command, async_freeze_command, freeze_times, jobVars, queueVars,
                 callVars, childVars, trig, ip_next_job_time, cmds>>

--------------------------------------------------------------------------------
(***************************************************************************)
(* thread_body of child c.                                                 *)
(***************************************************************************)
ChildStart(c) ==
  /\ pc[c] = "start"
  /\ InitTrigger(c)
  /\ child_complete' = [child_complete EXCEPT ![c] = TRUE]
  /\ Goto(c, "wait")
  /\ UNCHANGED <<clockVars, modeVars, jobVars, queueVars, callVars, curr_time_tics, enabled,
                 amf_next_tics, ip_next_job_time, ii, cmds>>

ChildWait(c) ==
  /\ \/ pc[c] = "wait" /\ EnterWait(c) /\ Goto(c, "waiting")
     \/ pc[c] = "waiting" /\ LeaveWait(c) /\ Goto(c, "dispatch")
  /\ UNCHANGED <<clockVars, modeVars, jobVars, queueVars, callVars, childVars,
                 ip_next_job_time, ii, cmds>>

\* The next job call time with which a sweep starts.
FirstJobTime(c) == IF ProcessType[c] = "AMF" THEN amf_next_tics[c] ELSE MaxTics

\* A thread that was disabled meanwhile does nothing.
Dispatch(c) ==
  /\ pc[c] = "dispatch"
  /\ \/ /\ ~enabled[c]
        /\ Goto(c, "complete")
        /\ UNCHANGED queueVars
     \/ /\ enabled[c]
        /\ curr_index' = [curr_index EXCEPT ![c] = 1]
        /\ IF ProcessType[c] = "ASYNC" /\ AmfCycle[c] # 0
           THEN Goto(c, "catchup") /\ UNCHANGED next_job_time
           ELSE /\ Goto(c, "sweep")
                /\ next_job_time' = [next_job_time EXCEPT ![c] = FirstJobTime(c)]
  /\ UNCHANGED <<clockVars, modeVars, jobVars, callVars, childVars, trig,
                 ip_next_job_time, ii, cmds>>

\* An ASYNC thread with a cycle may have missed frames: its enabled jobs catch
\* up to the start of this frame.
NeverLagging(c, j) == FALSE
Lagging(c, j) == ~disabled[j] /\ next_tics[j] < amf_next_tics[c] - AmfCycle[c]

CatchUp(c) ==
  /\ pc[c] = "catchup"
  /\ \/ /\ ~AtEnd(c) /\ Lagging(c, JobQueue[c][curr_index[c]])
        /\ next_tics' = [next_tics EXCEPT ![JobQueue[c][curr_index[c]]] =
             @ + cycle_tics[JobQueue[c][curr_index[c]]]]
        /\ UNCHANGED <<queueVars, pc>>
     \/ /\ ~AtEnd(c) /\ ~Lagging(c, JobQueue[c][curr_index[c]])
        /\ curr_index' = [curr_index EXCEPT ![c] = @ + 1]
        /\ UNCHANGED <<next_tics, next_job_time, pc>>
     \/ /\ AtEnd(c)
        /\ curr_index' = [curr_index EXCEPT ![c] = 1]
        /\ next_job_time' = [next_job_time EXCEPT ![c] = amf_next_tics[c]]
        /\ Goto(c, "sweep")
        /\ UNCHANGED next_tics
  /\ UNCHANGED <<clockVars, modeVars, cycle_tics, complete, disabled, last_call, callVars,
                 childVars, trig, ip_next_job_time, ii, cmds>>

\* A thread with a cycle moves its own time to its next job and sweeps again,
\* until its sync time.
HasFrames(c) == ProcessType[c] = "AMF" \/ (ProcessType[c] = "ASYNC" /\ AmfCycle[c] # 0)

TooManyFrames(c) == HasFrames(c) /\ next_job_time[c] <= amf_next_tics[c]
MoreOfFrame(c) == HasFrames(c) /\ next_job_time[c] < amf_next_tics[c]

EndChildSweep(c) ==
  /\ pc[c] = "sweep" /\ AtEnd(c)
  /\ \/ /\ MoreOfFrame(c)
        /\ curr_index' = [curr_index EXCEPT ![c] = 1]
        /\ next_job_time' = [next_job_time EXCEPT ![c] = amf_next_tics[c]]
        /\ UNCHANGED pc
     \/ /\ ~MoreOfFrame(c)
        /\ Goto(c, "complete")
        /\ UNCHANGED queueVars
  /\ curr_time_tics' = [curr_time_tics EXCEPT ![c] = IF HasFrames(c) THEN next_job_time[c] ELSE @]
  /\ UNCHANGED <<clockVars, modeVars, jobVars, callVars, enabled, child_complete, amf_next_tics,
                 trig, ip_next_job_time, ii, cmds>>

ChildComplete(c) ==
  /\ pc[c] = "complete"
  /\ child_complete' = [child_complete EXCEPT ![c] = TRUE]
  /\ Goto(c, "wait")
  /\ UNCHANGED <<clockVars, modeVars, jobVars, queueVars, callVars, curr_time_tics, enabled,
                 amf_next_tics, trig, ip_next_job_time, ii, cmds>>

--------------------------------------------------------------------------------
(***************************************************************************)
(* The commands.  A variable server thread, a signal handler or a job may  *)
(* give them at any time of the run.  Each is one step.                    *)
(***************************************************************************)
Command(kind) ==
  /\ kind \in Commands /\ cmds < MaxCommands
  /\ pc[0] \notin {"shutdown", "done"}
  /\ cmds' = cmds + 1
  /\ UNCHANGED <<clockVars, mode, complete, last_call, queueVars, callVars, curr_time_tics,
                 child_complete, amf_next_tics, trig, pc, ip_next_job_time, ii>>

Freeze ==
  /\ Command("freeze")
  /\ async_freeze_command' = TRUE
  /\ UNCHANGED <<exec_command, freeze_times, next_tics, cycle_tics, disabled, enabled>>

FreezeAt(n) ==
  /\ Command("freeze_at")
  /\ n > time_tics
  /\ freeze_times' = freeze_times \cup {n}
  /\ next_tics' = [next_tics EXCEPT ![FreezeJob] = MinOf(n, @)]
  /\ UNCHANGED <<exec_command, async_freeze_command, cycle_tics, disabled, enabled>>

Run ==
  /\ Command("run")
  /\ exec_command' = "RunCmd"
  /\ UNCHANGED <<async_freeze_command, freeze_times, next_tics, cycle_tics, disabled, enabled>>

StopCmd ==
  /\ Command("stop")
  /\ exec_command' = "ExitCmd"
  /\ UNCHANGED <<async_freeze_command, freeze_times, next_tics, cycle_tics, disabled, enabled>>

SetJobOnOff(j) ==
  /\ Command("onoff")
  /\ disabled' = [disabled EXCEPT ![j] = ~@]
  /\ UNCHANGED <<exec_command, async_freeze_command, freeze_times, next_tics, cycle_tics, enabled>>

SetThreadEnabled(c) ==
  /\ Command("thread")
  /\ enabled' = [enabled EXCEPT ![c] = ~@]
  /\ UNCHANGED <<exec_command, async_freeze_command, freeze_times, next_tics, cycle_tics, disabled>>

\* set_cycle, then set_next_call_time(time_tics).
SetJobCycle(j, n) ==
  /\ Command("cycle")
  /\ cycle_tics' = [cycle_tics EXCEPT ![j] = n]
  /\ next_tics' = [next_tics EXCEPT ![j] =
       IF @ > time_tics THEN time_tics - (time_tics % n) + n ELSE time_tics]
  /\ UNCHANGED <<exec_command, async_freeze_command, freeze_times, disabled, enabled>>

--------------------------------------------------------------------------------
MainStep ==
  \/ AwaitChildren \/ TestFreezeCmd \/ EnterFreeze \/ FreezeLoop \/ ClearFreezeLoopCmd
  \/ LeaveFreeze \/ TopOfFrame \/ ThreadSync \/ MarkIncomplete \/ InputProcessorRun
  \/ ArmThread \/ FireThread \/ FindNextJob(0) \/ AwaitDepends(0) \/ ReturnFromJob(0)
  \/ ScheduledThreadSync \/ AdvanceSimTime \/ SchedFreezeToExecCommand \/ EndMainSweep
  \/ CheckCommand \/ ClearRunCmd \/ CheckTerminate \/ EndOfFrame \/ Shutdown

ChildStep(c) ==
  \/ ChildStart(c) \/ ChildWait(c) \/ Dispatch(c) \/ CatchUp(c) \/ FindNextJob(c)
  \/ GetNextJob(c) \/ AwaitDepends(c) \/ ReturnFromJob(c) \/ EndChildSweep(c)
  \/ ChildComplete(c)

CommandStep ==
  \/ Freeze \/ Run \/ StopCmd
  \/ \E n \in FreezeArgs : FreezeAt(n)
  \/ \E j \in UserJob : SetJobOnOff(j)
  \/ \E c \in Child : SetThreadEnabled(c)
  \/ \E j \in UserJob, n \in CycleArgs : SetJobCycle(j, n)

\* The process has ended.
Ended == pc[0] = "done" /\ UNCHANGED vars

Next == MainStep \/ (\E c \in Child : ChildStep(c)) \/ CommandStep \/ Ended

Spec == Init /\ [][Next]_vars

\* Every thread of the process gets the processor again and again.
Fairness == WF_vars(MainStep) /\ \A c \in Child : WF_vars(ChildStep(c))

FairSpec == Spec /\ Fairness

--------------------------------------------------------------------------------
(***************************************************************************)
(* Properties.                                                             *)
(***************************************************************************)
\* Child c has been started and has not reported its completion.
Running(c) == pc[c] \in {"dispatch", "catchup", "sweep", "depend", "call", "complete"}

\* The threads that keep step with the simulation time.
InStep(t) == t = 0 \/ ProcessType[t] = "SCHEDULED"

\* The jobs the executive promises to call at each of their times.
SyncJob == {j \in UserJob : \E t \in Thread : InStep(t) /\ j \in JobsOf(t)}

\* What it promises: the schedule of those jobs.
Schedule == INSTANCE JobSchedule WITH
  Job   <- SyncJob,
  First <- [j \in SyncJob |-> FirstCall(j)],
  Cycle <- [j \in SyncJob |-> Cycle[j]],
  Stop  <- [j \in SyncJob |-> Stop[j]],
  End   <- TerminateTime,
  now   <- time_tics,
  last  <- [j \in SyncJob |-> last_call[j]]

\* The master loop and the scheduled threads together implement the schedule: no
\* call is lost, repeated, early or late, however the threads interleave.
ImplementsSchedule == Schedule!Spec

\* A scheduled thread that runs has the time of the master: the master waits in
\* scheduled_thread_sync before it advances the time, and arms no running thread.
ScheduledTimeMatches ==
  \A c \in Child : ProcessType[c] = "SCHEDULED" /\ Running(c) => curr_time_tics[c] = time_tics

\* The master never passes the sync time of an AMF thread that has not finished
\* (advance_sim_time stops there and thread_sync waits).
AmfSyncHonoured ==
  \A c \in Child : ProcessType[c] = "AMF" /\ Running(c) => time_tics <= amf_next_tics[c]

\* A thread with a cycle runs its jobs at times of its current frame only: from
\* the sync time at which it was started up to, and not at, the next one.
FramesHonoured ==
  \A c \in Child : HasFrames(c) /\ pc[c] \in {"sweep", "depend", "call"} =>
    /\ curr_time_tics[c] >= amf_next_tics[c] - AmfCycle[c]
    /\ curr_time_tics[c] < amf_next_tics[c]

\* No job of such a thread is left behind either: when the thread sweeps its queue,
\* no enabled job has a call time before the start of the frame, which a thread that
\* missed frames ensures by catching up.
FrameJobsCaughtUp ==
  \A c \in Child : HasFrames(c) /\ pc[c] \in {"sweep", "depend", "call"} =>
    \A j \in JobsOf(c) : ~disabled[j] => next_tics[j] >= amf_next_tics[c] - AmfCycle[c]

\* When a pass of the master loop starts, no job of the master or of a scheduled
\* thread was left behind: a job with a call time in the past is never found
\* again, because find_next_job tests for equality.
NoJobLeftBehind ==
  pc[0] = "loop" =>
    \A t \in Thread : InStep(t) => \A j \in JobsOf(t) \cap UserJob : next_tics[j] >= time_tics

\* The simulation time never goes back.
TimeNeverGoesBack == [][time_tics' >= time_tics]_vars

\* The software frames keep step with the clock: the time never leaves the current
\* frame, and the top of frame jobs have run once for each frame begun.
FrameInStep ==
  /\ time_tics <= next_frame_check_tics
  /\ pc[0] \in {"sync", "mark", "input", "fire", "firing", "sweep", "depend", "call", "check",
               "clearrun", "term", "eof"}
       => frame_count * SoftwareFrame = next_frame_check_tics

\* When a job starts, every job it depends on that runs at this time in step with
\* the master has finished its call for this time, unless it was turned off.
DependsFinished ==
  \A t \in Thread : InStep(t) /\ pc[t] = "call" =>
    \A k \in 1 .. Len(Depends[curr_job[t]]) :
      LET d == Depends[curr_job[t]][k] IN
        d \in SyncJob /\ ~disabled[d] /\ Schedule!DueAt(d, Now(t)) => last_call[d] = Now(t)

\* The master calls the top and end of frame jobs of a scheduled thread itself: it
\* must not do so while that thread is running.
FrameJobsAlone ==
  pc[0] \in {"top", "eof"} => \A c \in Child : ProcessType[c] = "SCHEDULED" => ~Running(c)

\* A thread is armed (its time and its completion flag are overwritten) only while
\* it is out of its jobs.
ArmedWhenIdle == [][pc[0] = "fire" /\ pc'[0] = "firing" => ~Running(ii)]_vars

\* A run without commands ends: the master and the children never wait on each
\* other for ever, and the time advances to the terminate time.
Terminates == <>(pc[0] = "done")

\* A run without commands ends exactly at the terminate time, and by then every
\* call up to and including that time has been made.
EndsOnTime ==
  pc[0] = "done" /\ cmds = 0 =>
    /\ time_tics = TerminateTime
    /\ \A j \in SyncJob, n \in 0 .. TerminateTime : Schedule!DueAt(j, n) => last_call[j] >= n

\* The clock stops where an AMF thread is to be awaited, and at the terminate time.
TimesHonoured == AmfSyncHonoured /\ EndsOnTime

\* When the process ends, the threads the user asked to wait for are idle.
ShutdownWaits ==
  [][pc'[0] = "done" /\ pc[0] # "done" =>
       \A c \in Child : ProcessType[c] # "SCHEDULED" /\ AsyncWait[c] => ~Running(c)]_vars

\* Nothing in step with the clock happens while the simulation is frozen.
FreezeHolds ==
  [][mode = "Freeze" /\ mode' = "Freeze" =>
       /\ UNCHANGED clockVars
       /\ \A j \in SyncJob : last_call'[j] = last_call[j]]_vars

\* Whatever is commanded, the clock only goes forward, and not in a freeze.
ClockBehaves == FreezeHolds /\ TimeNeverGoesBack

\* freeze(time) takes effect at that time: a freeze time is dropped only when it is
\* reached, and then the freeze command is given (freeze_on_frame_boundary off).
FreezeOnTime ==
  [][\A n \in freeze_times \ freeze_times' : n = time_tics /\ exec_command' = "FreezeCmd"]_vars

\* freeze() freezes the simulation when the jobs of the current time are done: the
\* pass of the master loop that finds the flag gives the freeze command.
FreezeWhenStepDone ==
  [][pc[0] = "eof" /\ pc'[0] = "loop" /\ async_freeze_command
       => exec_command' = "FreezeCmd"]_vars

\* stop() is honoured: a run that is told to exit does exit.
StopHonoured == (exec_command = "ExitCmd") ~> (pc[0] = "done")

\* A thread whose trigger is fired does start.
FiredThreadStarts ==
  \A c \in Child : (pc[0] = "firing" /\ ii = c) ~> (pc[c] \notin {"wait", "waiting"})
================================================================================
