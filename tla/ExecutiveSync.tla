----------------------------- MODULE ExecutiveSync -----------------------------
(***************************************************************************)
(* Why a scheduled thread has the time of the master, and why the other    *)
(* threads keep to their frames: inductive invariants of the executive.    *)
(* They relate the completion flag of a child, its place in thread_body,   *)
(* its trigger, its times and its jobs to the place of the master.         *)
(***************************************************************************)
EXTENDS Executive

\* The threads keep their triggers and stay enabled: no wait returns without a
\* signal and nobody calls set_thread_enabled.
StaticThreads == ~SpuriousWakeups /\ "thread" \notin Commands

\* The job that advances the time is on, and due whenever the master runs.
AdvanceJobDue ==
  /\ ~disabled[AdvanceJob]
  /\ pc[0] \notin {"shutdown", "done"} => next_tics[AdvanceJob] = time_tics
  /\ pc[0] = "call" /\ curr_job[0] = AdvanceJob => ii > 0

\* A trigger is only used the way of its type.
ByType(c) ==
  /\ trig[c].flag => TriggerType[c] = "TT_FLAG"
  /\ trig[c].efd > 0 => TriggerType[c] = "TT_EVENTFD"
  /\ trig[c].wait = "signalled" => TriggerType[c] \in {"TT_MUTEX", "TT_FUTEX"}

TriggersByType == \A c \in Child : ByType(c)

\* The trigger of child c has not been fired since the child left wait().
Quiet(c) == trig[c].wait # "signalled" /\ ~trig[c].flag /\ trig[c].efd = 0

Armed(c) == pc[0] = "firing" /\ ii = c

\* A child that has reported its completion, that runs or that is armed but not
\* fired yet has no signal pending; only an idle child is complete or armed.
InHand(c) ==
  /\ child_complete[c] => pc[c] \in {"wait", "waiting", "cancelled"}
  /\ Armed(c) => pc[c] \in {"wait", "waiting"} /\ ~child_complete[c]
  /\ child_complete[c] \/ Running(c) \/ Armed(c) \/ pc[c] = "start" => Quiet(c)
  /\ pc[c] = "cancelled" => pc[0] = "done"

Handshake == \A c \in Child : InHand(c)

\* The sweep of the master has not come to the end of advance_sim_time yet.
AdvanceAhead ==
  \/ \E k \in curr_index[0] .. Len(JobQueue[0]) : JobQueue[0][k] = AdvanceJob
  \/ pc[0] \in {"depend", "call"} /\ curr_job[0] = AdvanceJob

\* Where the master is when a scheduled thread must have completed its jobs.
ScheduledDone(c) ==
  CASE pc[0] = "init"   -> c < ii
    [] pc[0] = "fire"   -> c >= ii
    [] pc[0] = "firing" -> c > ii
    [] pc[0] \in {"sweep", "depend", "call"} ->
         ~AdvanceAhead \/ (pc[0] = "call" /\ curr_job[0] = AdvanceJob /\ c < ii)
    [] OTHER -> TRUE

\* Where it is when an AMF thread must have that is to finish now.
AmfDone(c) ==
  /\ AmfDue(c)
  /\ \/ pc[0] = "sync" /\ c < ii
     \/ pc[0] \in {"mark", "input"}
     \/ pc[0] = "fire" /\ c >= ii
     \/ pc[0] = "firing" /\ c > ii

Phases ==
  \A c \in Child :
    /\ ProcessType[c] = "SCHEDULED" /\ ScheduledDone(c) => child_complete[c]
    /\ AmfDone(c) => child_complete[c]

\* A scheduled thread that was armed and has not completed has the current time.
CurrentTime ==
  \A c \in Child :
    ProcessType[c] = "SCHEDULED" /\ pc[c] # "start" /\ ~child_complete[c]
      => curr_time_tics[c] = time_tics

AllEnabled == \A c \in Child : enabled[c]

\* The inductive invariant.
SyncInv ==
  /\ AllEnabled /\ AdvanceJobDue /\ TriggersByType
  /\ Handshake /\ Phases /\ CurrentTime

--------------------------------------------------------------------------------
(***************************************************************************)
(* The threads that do not keep step with the master: what it knows of     *)
(* them, and the time of their own frames.  Here a thread may be disabled. *)
(***************************************************************************)
Apart(c) == ProcessType[c] # "SCHEDULED"

\* The master has waited for an AMF thread that is due and, at the end, for those it is
\* told to wait for.
Joined(c) ==
  /\ AmfDone(c) => child_complete[c]
  /\ pc[0] = "shutdown" /\ c < ii /\ AsyncWait[c] => child_complete[c]

ApartInv == \A c \in Child : Apart(c) => ByType(c) /\ InHand(c) /\ Joined(c)

InSweep(t) == pc[t] \in {"sweep", "depend", "call"}

\* The start of the frame a thread is in, and a thread that was started and has not begun it.
FrameStart(c) == amf_next_tics[c] - AmfCycle[c]
ToBegin(c) == ~child_complete[c] /\ pc[c] \in {"wait", "waiting", "dispatch"}

\* No frame reaches the time that stands for never.
FramesFit == \A c \in Child : HasFrames(c) => TerminateTime + AmfCycle[c] <= MaxTics

\* The time of a thread is in its frame, and so is the next one in its sweep.
FrameTimes(c) ==
  /\ amf_next_tics[c] <= TerminateTime + AmfCycle[c]
  /\ ToBegin(c) => curr_time_tics[c] = FrameStart(c)
  /\ pc[c] = "catchup" \/ InSweep(c) =>
       FrameStart(c) <= curr_time_tics[c] /\ curr_time_tics[c] < amf_next_tics[c]
  /\ InSweep(c) => next_job_time[c] >= curr_time_tics[c]

FramesInv ==
  /\ time_tics <= TerminateTime /\ time_last_pass_tics <= TerminateTime
  /\ \A c \in Child : HasFrames(c) => FrameTimes(c)

\* A job is in one queue, once (add_job_to_queue takes the thread of the job).
JobsOnce ==
  \A t, u \in Thread : \A k \in 1 .. Len(JobQueue[t]), l \in 1 .. Len(JobQueue[u]) :
    JobQueue[t][k] = JobQueue[u][l] => t = u /\ k = l

\* Nobody changes a cycle, turns a job on or off, or enables or disables a thread.
FramesSteady ==
  StaticThreads /\ FramesFit /\ JobsOnce /\ {"onoff", "cycle"} \cap Commands = {}

\* An ASYNC thread catches up when it starts; an AMF thread never falls behind: its frame is
\* over when all jobs have their next call after it.
FrameCall(c, k) ==
  LET j == JobQueue[c][k] IN
    IF ProcessType[c] = "ASYNC"
    THEN (pc[c] = "catchup" /\ k < curr_index[c]) \/ InSweep(c) =>
           disabled[j] \/ next_tics[j] >= FrameStart(c)
    ELSE /\ pc[c] # "catchup"
         /\ child_complete[c] \/ pc[c] \in {"start", "complete"} => next_tics[j] >= amf_next_tics[c]
         /\ ToBegin(c) \/ InSweep(c) => next_tics[j] >= curr_time_tics[c]
         /\ InSweep(c) /\ k < curr_index[c] =>
              \/ pc[c] # "sweep" /\ curr_job[c] = j /\ j \in SystemJob
              \/ next_tics[j] > curr_time_tics[c] /\ next_job_time[c] <= next_tics[j]

\* A selected job is of the queue of its thread.
CallsOwnJobs == \A t \in Thread : pc[t] \in {"depend", "call"} => curr_job[t] \in JobsOf(t)

FrameCallsInv ==
  /\ \A j \in SystemJob : ~disabled[j]
  /\ CallsOwnJobs
  /\ \A c \in Child : HasFrames(c) => \A k \in 1 .. Len(JobQueue[c]) : FrameCall(c, k)
================================================================================
