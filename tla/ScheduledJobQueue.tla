--------------------------- MODULE ScheduledJobQueue ---------------------------
(***************************************************************************)
(* A job queue that changes while it is swept: the job that runs may add   *)
(* jobs and remove them, itself too, and may turn jobs on and off.         *)
(*                                                                         *)
(* Two kinds of sweep: that of a class of jobs, with get_next_job, where   *)
(* every job is called, and that of the scheduled jobs, with               *)
(* find_next_job, where the jobs that are due are.  The jobs are numbered  *)
(* in the order of compare_job_data.                                       *)
(***************************************************************************)
EXTENDS Integers, Sequences, SequencesExt, FiniteSets

CONSTANTS
  NumJobs,
  List0,           \* the queue at the start
  SystemJobs,      \* those of a system class: they reschedule themselves
  Kinds,           \* the sweeps to be looked at, of "class" and "scheduled"
  Never,           \* TRICK_MAX_LONG_LONG
  Word,            \* the number of values of curr_index, an unsigned int
  Cycle, Start, Stop,    \* [Job -> Nat]: cycle_tics, start_tics and stop_tics
  AddsBehind,      \* may a scheduled job that runs add one that comes before the cursor?
  RemovesNext,     \* may it remove the very next one?
  DisablesSystem,  \* may jobs of a system class be turned off?
  MaxTime,         \* bound: the time of the last sweep
  MaxChanges       \* bound: the number of changes of the queue

Job == 1 .. NumJobs

Sorted(queue) == \A i, k \in DOMAIN queue : i < k => queue[i] < queue[k]

ASSUME ScheduledJobQueueAssumption ==
  /\ NumJobs \in 0 .. Word - 1 /\ List0 \in Seq(Job) /\ Sorted(List0) /\ SystemJobs \subseteq Job
  /\ Kinds \subseteq {"class", "scheduled"}
  /\ Cycle \in [Job -> Nat \ {0}] /\ Start \in [Job -> Nat] /\ Stop \in [Job -> Nat]
  /\ AddsBehind \in BOOLEAN /\ RemovesNext \in BOOLEAN /\ DisablesSystem \in BOOLEAN
  /\ Word \in Nat \ {0} /\ Never \in Nat /\ MaxTime \in 0 .. Never - 1 /\ MaxChanges \in Nat

VARIABLES
  kind,
  pc,             \* "idle", "sweep" or "call"
  list, curr_index, next_job_time,
  next_tics, disabled,    \* of each job
  time,           \* the time the scheduled jobs are swept for
  curr_job,
  called,         \* ghost: the jobs of the queue this sweep called, in that order
  stayed,         \* ghost: the jobs that were enabled in the queue all the sweep long, and due
  changes         \* ghost: the number of changes

queueVars == <<list, curr_index, next_job_time>>
vars == <<kind, pc, queueVars, next_tics, disabled, time, curr_job, called, stayed, changes>>

\* Of the variables; while jobs run, the cursor is in the queue or at its end.
TypeOK ==
  /\ kind \in Kinds /\ pc \in {"idle", "sweep", "call"}
  /\ list \in Seq(Job) /\ curr_index \in 0 .. Word - 1
  /\ pc # "idle" => curr_index <= Len(list)
  /\ next_job_time \in Nat
  /\ next_tics \in [Job -> Nat] /\ disabled \subseteq Job
  /\ time \in 0 .. MaxTime /\ curr_job \in Job
  /\ called \in Seq(Job) /\ stayed \subseteq Job /\ changes \in 0 .. MaxChanges

list_size == Len(list)
InQueue == ToSet(list)

Init ==
  /\ kind \in Kinds /\ pc = "idle"
  /\ list = List0 /\ curr_index = 0 /\ next_job_time = Never
  /\ next_tics = Start /\ disabled = {}
  /\ time = 0 /\ curr_job \in Job
  /\ called = <<>> /\ stayed = {} /\ changes = 0

--------------------------------------------------------------------------------
(***************************************************************************)
(* The sweep.                                                              *)
(***************************************************************************)
Due(j) == kind = "class" \/ next_tics[j] = time

\* reset_curr_index, and set_next_job_call_time(TRICK_MAX_LONG_LONG).
Begin ==
  /\ pc = "idle" /\ pc' = "sweep"
  /\ curr_index' = 0 /\ next_job_time' = Never
  /\ called' = <<>> /\ stayed' = {j \in InQueue : Due(j)} \ disabled
  /\ UNCHANGED <<kind, list, next_tics, disabled, time, curr_job, changes>>

LastSeen(t, u) == u    \* the mutant: next_job_time overwritten without the test
Earlier(t, u) == IF t < u THEN t ELSE u

\* One round of the loop of get_next_job, or of find_next_job.
Call(job) ==
  IF job \in disabled
  THEN UNCHANGED <<pc, curr_job, called>>
  ELSE pc' = "call" /\ curr_job' = job /\ called' = Append(called, job)

GetNextJob(job) ==
  /\ kind = "class" /\ Call(job)
  /\ UNCHANGED <<next_job_time, next_tics>>

FindNextJob(job) ==
  /\ kind = "scheduled"
  /\ IF next_tics[job] = time
     THEN /\ Call(job)
          /\ IF job \in SystemJobs
             THEN UNCHANGED <<next_job_time, next_tics>>
             ELSE /\ next_tics' = [next_tics EXCEPT ![job] =
                                    IF @ + Cycle[job] > Stop[job] THEN Never ELSE @ + Cycle[job]]
                  /\ next_job_time' = Earlier(next_job_time, next_tics'[job])
     ELSE /\ next_job_time' = IF next_tics[job] > time THEN Earlier(next_job_time, next_tics[job])
                                                       ELSE next_job_time
          /\ UNCHANGED <<pc, curr_job, called, next_tics>>

NextJob ==
  /\ pc = "sweep" /\ curr_index < list_size
  /\ curr_index' = curr_index + 1
  /\ GetNextJob(list[curr_index + 1]) \/ FindNextJob(list[curr_index + 1])
  /\ UNCHANGED <<kind, list, disabled, time, stayed, changes>>

\* The job returns.  One of a system class has set its own next call; only then can it count.
Return ==
  /\ pc = "call" /\ pc' = "sweep"
  /\ IF kind = "scheduled" /\ curr_job \in SystemJobs
     THEN /\ next_tics' = [next_tics EXCEPT ![curr_job] = time + Cycle[curr_job]]
          /\ next_job_time' = Earlier(next_job_time, next_tics'[curr_job])
     ELSE UNCHANGED <<next_tics, next_job_time>>
  /\ UNCHANGED <<kind, list, curr_index, disabled, time, curr_job, called, stayed, changes>>

\* The end of the queue: the time moves to the next call of a scheduled job.
End ==
  /\ pc = "sweep" /\ curr_index >= list_size
  /\ pc' = "idle"
  /\ IF kind = "class"
     THEN curr_index' = list_size /\ UNCHANGED time
     ELSE next_job_time <= MaxTime /\ time' = next_job_time /\ UNCHANGED curr_index
  /\ UNCHANGED <<kind, list, next_job_time, next_tics, disabled, curr_job, called, stayed, changes>>

--------------------------------------------------------------------------------
(***************************************************************************)
(* The changes, by a job that runs or between two sweeps.                  *)
(***************************************************************************)
Change == pc \in {"idle", "call"} /\ changes < MaxChanges /\ changes' = changes + 1

\* The place of a job in the queue, counted from 0.
InsertPoint(job) == Cardinality({j \in InQueue : j < job})

\* add_jobs_to_queue: the job is pushed, then it gets its first call.
PushAsIs(job) ==    \* the mutant: the cursor stays
  list' = InsertAt(list, InsertPoint(job) + 1, job) /\ UNCHANGED curr_index
Push(job) ==
  /\ list' = InsertAt(list, InsertPoint(job) + 1, job)
  /\ curr_index' = IF InsertPoint(job) < curr_index THEN (curr_index + 1) % Word ELSE curr_index

AddJob(job) ==
  /\ Change /\ job \notin InQueue
  /\ (pc = "call" /\ kind = "scheduled" /\ ~AddsBehind) => InsertPoint(job) >= curr_index
  /\ Push(job)
  /\ next_tics' = [next_tics EXCEPT ![job] = time + Start[job]]
  /\ UNCHANGED <<kind, pc, next_job_time, disabled, time, curr_job, called, stayed>>

\* remove() moves the cursor back for a job at the cursor too, and below 0 for the first.
Erase(job) ==
  /\ list' = RemoveAt(list, InsertPoint(job) + 1)
  /\ curr_index' = IF InsertPoint(job) <= curr_index THEN (curr_index + Word - 1) % Word ELSE curr_index

Without(queue, job) ==
  IF job \in ToSet(queue) THEN RemoveAt(queue, CHOOSE i \in DOMAIN queue : queue[i] = job) ELSE queue

RemoveJob(job) ==
  /\ Change /\ job \in InQueue
  /\ (pc = "call" /\ ~RemovesNext) => InsertPoint(job) # curr_index
  /\ Erase(job)
  /\ stayed' = stayed \ {job} /\ called' = Without(called, job)
  /\ UNCHANGED <<kind, pc, next_job_time, next_tics, disabled, time, curr_job>>

\* exec_set_job_onoff.
Toggle(job) ==
  /\ Change /\ job \in InQueue
  /\ job \in SystemJobs => DisablesSystem
  /\ disabled' = IF job \in disabled THEN disabled \ {job} ELSE disabled \cup {job}
  /\ stayed' = stayed \ {job}
  /\ UNCHANGED <<kind, pc, queueVars, next_tics, time, curr_job, called>>

--------------------------------------------------------------------------------
Next == Begin \/ NextJob \/ Return \/ End \/ \E job \in Job : AddJob(job) \/ RemoveJob(job) \/ Toggle(job)
Spec == Init /\ [][Next]_vars

--------------------------------------------------------------------------------
\* The jobs of a sweep are called in their order and none is called twice, whatever jobs are
\* added and removed under the cursor.  (One that left the queue and came back counts anew.)
CalledInOrder == Sorted(called)

\* No job is skipped: at the end of a sweep every job that was due, and stayed enabled in the
\* queue, was called.
NoneSkipped == pc = "sweep" /\ curr_index >= list_size => stayed \subseteq ToSet(called)

\* What a sweep promises to the jobs while they change the queue under its cursor
\* (get_next_job, find_next_job, remove).
SweepCorrect == TypeOK /\ CalledInOrder /\ NoneSkipped

\* The time never passes a call: between two sweeps no scheduled job has its next call behind
\* the time.  Equality is what find_next_job looks for, so such a job is never called again.
NoneLeftBehind ==
  pc = "idle" /\ kind = "scheduled" => \A j \in InQueue : next_tics[j] >= time
==============================================================================
