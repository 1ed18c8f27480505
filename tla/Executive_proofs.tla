--------------------------- MODULE Executive_proofs ---------------------------
(***************************************************************************)
(* For any number of threads: every step keeps the types of the variables, *)
(* a scheduled thread that runs has the time of the master, the master     *)
(* calls its top and end of frame jobs only while it is idle, and no       *)
(* thread of any type is armed while it runs; shutdown waits for the       *)
(* threads it has to, and the threads with a time of their own keep to     *)
(* their frames and leave none of their jobs behind.                       *)
(*                                                                         *)
(* The second half, from "The schedule" on, shows that the executive       *)
(* implements its schedule, for any number of threads and jobs: no call of *)
(* a job of the master or of a scheduled thread is lost, repeated, early   *)
(* or late, and the time keeps step with the frames, the sync times of the *)
(* AMF threads and the terminate time.                                     *)
(***************************************************************************)
EXTENDS ExecutiveSchedule, SequenceTheorems, WellFoundedInduction, NaturalsInduction, TLAPS

--------------------------------------------------------------------------------
(***************************************************************************)
(* The helpers.                                                            *)
(***************************************************************************)
\* The least of some numbers is one of them, and none of them is smaller.
LEMMA LeastOf ==
  ASSUME NEW S \in SUBSET Nat, S # {}
  PROVE  Least(S) \in S /\ \A n \in S : Least(S) <= n
<1>1. PICK m \in S : \A n \in S : ~ (<<n, m>> \in OpToRel(<, Nat))
  BY NatLessThanWellFounded, WFMin
<1>2. ASSUME NEW n \in S
      PROVE  m <= n
  <2>1. m \in Nat /\ n \in Nat
    OBVIOUS
  <2>2. ~(n < m)
    BY <1>1, <2>1, Zenon DEF OpToRel
  <2> QED
    BY <2>1, <2>2
<1> QED
  BY <1>2 DEF Least

\* A thread is the master or a child.
LEMMA Threads ==
  /\ 0 \in Thread /\ Child \subseteq Thread /\ 0 \notin Child
  /\ \A t \in Thread \ {0} : t \in Child
BY TriggerAssumption DEF Thread, Child

\* The jobs of a queue are jobs.
LEMMA QueuedJobs ==
  ASSUME NEW t \in Thread
  PROVE  /\ Len(JobQueue[t]) \in Nat
         /\ \A k \in 1 .. Len(JobQueue[t]) : JobQueue[t][k] \in Job
BY ExecutiveAssumption DEF ExecutiveAssumption

\* The next call time of a queue is a time.
LEMMA NextJobCallTimeIsTime ==
  ASSUME JobsOK, QueuesOK, NEW t \in Thread
  PROVE  NextJobCallTime(t) \in Nat
<1> DEFINE later == {next_tics[JobQueue[t][k]] : k \in curr_index[t] .. Len(JobQueue[t])}
<1>1. \A k \in curr_index[t] .. Len(JobQueue[t]) : k \in 1 .. Len(JobQueue[t])
  BY QueuedJobs DEF QueuesOK
<1>2. later \in SUBSET Nat
  <2> SUFFICES ASSUME NEW k \in curr_index[t] .. Len(JobQueue[t])
               PROVE  next_tics[JobQueue[t][k]] \in Nat
    OBVIOUS
  <2>1. JobQueue[t][k] \in Job
    BY <1>1, QueuedJobs
  <2> QED
    BY <2>1 DEF JobsOK
<1>3. {next_job_time[t]} \cup later \in SUBSET Nat /\ {next_job_time[t]} \cup later # {}
  BY <1>2 DEF QueuesOK
<1> HIDE DEF later
<1>4. Least({next_job_time[t]} \cup later) \in Nat
  BY <1>3, LeastOf
<1> QED
  BY <1>4 DEF NextJobCallTime, later

\* The next simulation time is a time, and not after the terminate time.
LEMMA NextTimeIsTime ==
  ASSUME ClockOK, JobsOK, QueuesOK, ChildrenOK, MasterOK
  PROVE  NextTime \in Nat /\ NextTime <= TerminateTime
<1> DEFINE jobs  == {n \in {NextJobCallTime(0), ip_next_job_time} : n > time_tics}
           sched == {NextJobCallTime(c) : c \in {d \in Child : enabled[d] /\ ProcessType[d] = "SCHEDULED"}}
           all   == {next_frame_check_tics, TerminateTime} \cup jobs \cup sched \cup SyncTimes
<1>1. jobs \in SUBSET Nat
  BY NextJobCallTimeIsTime, Threads DEF MasterOK
<1>2. sched \in SUBSET Nat
  BY NextJobCallTimeIsTime, Threads
<1>3. SyncTimes \in SUBSET Nat
  BY DEF SyncTimes, ChildrenOK
<1>4. {next_frame_check_tics, TerminateTime} \in SUBSET Nat
  BY ExecutiveAssumption DEF ClockOK, ExecutiveAssumption
<1> HIDE DEF jobs, sched
<1>5. all \in SUBSET Nat /\ TerminateTime \in all
  BY <1>1, <1>2, <1>3, <1>4
<1> HIDE DEF all
<1>6. Least(all) \in Nat /\ Least(all) <= TerminateTime
  BY <1>5, LeastOf
<1> QED
  BY <1>6 DEF NextTime, all, jobs, sched

\* The call after the one that is due is at a time.
LEMMA NextCallIsTime ==
  ASSUME JobsOK, NEW j \in Job
  PROVE  NextCall(j) \in Nat
<1>1. next_tics[j] \in Nat /\ cycle_tics[j] \in Nat
  BY DEF JobsOK
<1>2. MaxTics \in Nat
  BY ExecutiveAssumption DEF ExecutiveAssumption
<1> QED
  BY <1>1, <1>2 DEF NextCall

\* So is the next freeze.
LEMMA NextFreezeIsTime ==
  ASSUME ModeOK
  PROVE  FreezeTimesLeft \subseteq Nat /\ SchedFreezeNext \in Nat
<1>1. FreezeTimesLeft \in SUBSET Nat
  BY DEF FreezeTimesLeft, ModeOK
<1>2. CASE FreezeTimesLeft = {}
  BY <1>1, <1>2, ExecutiveAssumption DEF SchedFreezeNext, ExecutiveAssumption
<1>3. CASE FreezeTimesLeft # {}
  BY <1>1, <1>3, LeastOf DEF SchedFreezeNext
<1> QED
  BY <1>1, <1>2, <1>3

\* set_next_call_time rounds the time up to a multiple of the cycle.
LEMMA NextMultipleIsTime ==
  ASSUME NEW a \in Nat, NEW n \in Nat \ {0}
  PROVE  a - (a % n) + n \in Nat
<1>1. a % n \in 0 .. (n - 1)
  OBVIOUS
<1> QED
  BY <1>1

\* The job under the cursor is a job.
LEMMA JobAtCursor ==
  ASSUME QueuesOK, NEW t \in Thread, ~AtEnd(t)
  PROVE  /\ JobQueue[t][curr_index[t]] \in Job
         /\ curr_index[t] + 1 \in 1 .. Len(JobQueue[t]) + 1
BY QueuedJobs DEF QueuesOK, AtEnd, QueueEnd

\* test_next_job_call_time keeps the next job call time a time.
LEMMA TestedIsTime ==
  ASSUME NEW n \in Nat, NEW call \in Nat, NEW m
  PROVE  TestNextJobCallTime(n, call, m) \in Nat /\ MinOf(n, call) \in Nat
BY DEF TestNextJobCallTime, MinOf

--------------------------------------------------------------------------------
(***************************************************************************)
(* What a step leaves alone keeps its type, and the control of the threads.*)
(***************************************************************************)
\* A step that leaves variables alone keeps their types.
LEMMA Frames ==
  /\ ClockOK /\ UNCHANGED clockVars => ClockOK'
  /\ ModeOK /\ UNCHANGED modeVars => ModeOK'
  /\ JobsOK /\ UNCHANGED jobVars => JobsOK'
  /\ ControlOK /\ UNCHANGED pc => ControlOK'
  /\ QueuesOK /\ UNCHANGED <<queueVars, callVars>> => QueuesOK'
  /\ ChildrenOK /\ UNCHANGED childVars => ChildrenOK'
  /\ TriggerTypeOK /\ UNCHANGED trig => TriggerTypeOK'
  /\ MasterOK /\ UNCHANGED <<ip_next_job_time, cmds, ii>> /\ pc'[0] = pc[0] => MasterOK'
<1>1. ClockOK /\ UNCHANGED clockVars => ClockOK'
  BY DEF ClockOK, clockVars
<1>2. ModeOK /\ UNCHANGED modeVars => ModeOK'
  BY DEF ModeOK, modeVars
<1>3. JobsOK /\ UNCHANGED jobVars => JobsOK'
  BY DEF JobsOK, jobVars
<1>4. ControlOK /\ UNCHANGED pc => ControlOK'
  BY DEF ControlOK
<1>5. QueuesOK /\ UNCHANGED <<queueVars, callVars>> => QueuesOK'
  BY DEF QueuesOK, queueVars, callVars
<1>6. ChildrenOK /\ UNCHANGED childVars => ChildrenOK'
  BY DEF ChildrenOK, childVars
<1>7. TriggerTypeOK /\ UNCHANGED trig => TriggerTypeOK'
  BY DEF TriggerTypeOK
<1>8. MasterOK /\ UNCHANGED <<ip_next_job_time, cmds, ii>> /\ pc'[0] = pc[0] => MasterOK'
  BY DEF MasterOK
<1> QED
  BY <1>1, <1>2, <1>3, <1>4, <1>5, <1>6, <1>7, <1>8

\* The master goes from one of its labels to another.
LEMMA MasterMoves ==
  ASSUME ControlOK, NEW l \in MainPC, Goto(0, l)
  PROVE  /\ ControlOK' /\ pc'[0] = l
         /\ \A c \in Child : pc'[c] = pc[c]
BY Threads DEF ControlOK, Goto

\* A child goes from one of its labels to another.
LEMMA ChildMoves ==
  ASSUME ControlOK, NEW c \in Child, NEW l \in ChildPC, Goto(c, l)
  PROVE  /\ ControlOK' /\ pc'[c] = l
         /\ \A t \in Thread : t # c => pc'[t] = pc[t]
         /\ pc'[0] = pc[0]
BY Threads DEF ControlOK, Goto

--------------------------------------------------------------------------------
(***************************************************************************)
(* The steps of the sweep of a queue, which the master and the children    *)
(* have in common.                                                         *)
(***************************************************************************)
\* find_next_job keeps the types of the jobs and of the queues.
LEMMA FindNextJobTypes ==
  ASSUME JobsOK, QueuesOK, NEW t \in Thread, FindNextJob(t)
  PROVE  JobsOK' /\ QueuesOK'
<1> DEFINE j    == JobQueue[t][curr_index[t]]
           due  == next_tics[j] = Now(t)
           next == IF due /\ j \notin SystemJob THEN NextCall(j) ELSE next_tics[j]
<1>1. j \in Job /\ curr_index[t] + 1 \in 1 .. Len(JobQueue[t]) + 1
  BY JobAtCursor DEF FindNextJob
<1>2. next \in Nat
  BY <1>1, NextCallIsTime DEF JobsOK
<1>3. /\ next_tics' = [next_tics EXCEPT ![j] = next]
      /\ curr_index' = [curr_index EXCEPT ![t] = @ + 1]
      /\ UNCHANGED <<cycle_tics, complete, disabled, last_call>>
  BY DEF FindNextJob
<1>4. next_job_time' \in [Thread -> Nat]
  <2>1. TestNextJobCallTime(next_job_time[t], next, Now(t)) \in Nat
        /\ MinOf(next_job_time[t], next) \in Nat /\ next_job_time[t] \in Nat
    BY <1>2, TestedIsTime DEF QueuesOK
  <2>2. \E n \in Nat : next_job_time' = [next_job_time EXCEPT ![t] = n]
    BY <2>1 DEF FindNextJob
  <2> QED
    BY <2>2 DEF QueuesOK
<1>5. curr_job' \in [Thread -> Job] /\ dep_index' \in [Thread -> Nat \ {0}]
  <2>1. \/ /\ curr_job' = [curr_job EXCEPT ![t] = j]
           /\ dep_index' = [dep_index EXCEPT ![t] = 1]
        \/ curr_job' = curr_job /\ dep_index' = dep_index
    BY DEF FindNextJob, callVars
  <2>2. curr_job \in [Thread -> Job] /\ dep_index \in [Thread -> Nat \ {0}]
    BY DEF QueuesOK
  <2> HIDE DEF j
  <2> QED
    BY <1>1, <2>1, <2>2
<1> HIDE DEF j, next
<1>6. JobsOK'
  BY <1>1, <1>2, <1>3 DEF JobsOK
<1>7. /\ curr_index' \in [Thread -> Nat]
      /\ \A u \in Thread : curr_index'[u] \in 1 .. Len(JobQueue[u]) + 1
  <2>1. /\ curr_index \in [Thread -> Nat]
        /\ \A u \in Thread : curr_index[u] \in 1 .. Len(JobQueue[u]) + 1
    BY DEF QueuesOK
  <2> QED
    BY <1>1, <1>3, <2>1
<1> QED
  BY <1>4, <1>5, <1>6, <1>7 DEF QueuesOK

\* So does waiting for the jobs a job depends on.
LEMMA AwaitDependsTypes ==
  ASSUME QueuesOK, NEW t \in Thread, AwaitDepends(t)
  PROVE  QueuesOK'
<1>1. \/ dep_index' = [dep_index EXCEPT ![t] = @ + 1]
      \/ dep_index' = dep_index
  BY DEF AwaitDepends
<1>2. UNCHANGED <<curr_index, next_job_time, curr_job>>
  BY DEF AwaitDepends, queueVars
<1> QED
  BY <1>1, <1>2 DEF QueuesOK

\* And the end of a call.
LEMMA ReturnFromJobTypes ==
  ASSUME ClockOK, ChildrenOK, JobsOK, QueuesOK, NEW t \in Thread, ReturnFromJob(t)
  PROVE  JobsOK' /\ QueuesOK'
<1>1. Now(t) \in Nat
  BY Threads DEF Now, ClockOK, ChildrenOK
<1>2. curr_job[t] \in Job
  BY DEF QueuesOK
<1>3. EventTimesAfter(Now(t)) \subseteq Nat
  BY ExecutiveAssumption DEF EventTimesAfter, ExecutiveAssumption
<1>4. /\ \/ UNCHANGED <<next_tics, next_job_time>>
         \/ \E n \in EventTimesAfter(Now(t)) :
              /\ next_tics' = [next_tics EXCEPT ![curr_job[t]] = n]
              /\ next_job_time' = [next_job_time EXCEPT ![t] = TestNextJobCallTime(@, n, Now(t))]
      /\ complete' = [complete EXCEPT ![curr_job[t]] = @ \/ MultiThread]
      /\ last_call' = [last_call EXCEPT ![curr_job[t]] = Now(t)]
      /\ UNCHANGED <<cycle_tics, disabled, curr_index, curr_job, dep_index>>
  BY DEF ReturnFromJob, callVars
<1>5. next_tics' \in [Job -> Nat] /\ next_job_time' \in [Thread -> Nat]
  <2>1. CASE UNCHANGED <<next_tics, next_job_time>>
    BY <2>1 DEF JobsOK, QueuesOK
  <2>2. ASSUME NEW n \in EventTimesAfter(Now(t)),
               next_tics' = [next_tics EXCEPT ![curr_job[t]] = n],
               next_job_time' = [next_job_time EXCEPT ![t] = TestNextJobCallTime(@, n, Now(t))]
        PROVE  next_tics' \in [Job -> Nat] /\ next_job_time' \in [Thread -> Nat]
    <3>1. TestNextJobCallTime(next_job_time[t], n, Now(t)) \in Nat
      BY <1>3, TestedIsTime DEF QueuesOK
    <3> QED
      BY <1>2, <1>3, <2>2, <3>1 DEF JobsOK, QueuesOK
  <2> QED
    BY <1>4, <2>1, <2>2
<1>6. JobsOK'
  <2>1. complete' \in [Job -> BOOLEAN]
    BY <1>4 DEF JobsOK, MultiThread
  <2> QED
    BY <1>1, <1>4, <1>5, <2>1 DEF JobsOK
<1> QED
  BY <1>4, <1>5, <1>6 DEF QueuesOK
\* The master goes from one of its labels to one at which no thread is started.
LEMMA MasterControl ==
  ASSUME ControlOK, MasterOK,
         \/ UNCHANGED pc /\ pc[0] \notin {"fire", "firing"}
         \/ \E l \in MainPC \ {"fire", "firing"} : Goto(0, l),
         \/ ii' \in {ii, 0, 1}
         \/ ii <= NumChild /\ ii' = ii + 1,
         ip_next_job_time' \in Nat, cmds' = cmds
  PROVE  ControlOK' /\ MasterOK'
<1>1. ControlOK' /\ pc'[0] \notin {"fire", "firing"}
  BY MasterMoves, Frames
<1>2. ii' \in 0 .. NumChild + 1
  BY TriggerAssumption DEF MasterOK
<1> QED
  BY <1>1, <1>2 DEF MasterOK

\* A child goes from one of its labels to another.
LEMMA ChildControl ==
  ASSUME ControlOK, MasterOK, NEW c \in Child,
         UNCHANGED pc \/ \E l \in ChildPC : Goto(c, l),
         UNCHANGED <<ip_next_job_time, ii, cmds>>
  PROVE  ControlOK' /\ MasterOK'
<1>1. ControlOK' /\ pc'[0] = pc[0]
  BY ChildMoves, Frames
<1> QED
  BY <1>1, Frames

\* A command leaves the clock, the queues, the triggers and the control alone.
LEMMA CommandTypes ==
  ASSUME TypeOK, NEW kind, Command(kind)
  PROVE  /\ ClockOK' /\ QueuesOK' /\ TriggerTypeOK' /\ ControlOK' /\ MasterOK'
         /\ UNCHANGED <<mode, complete, last_call, curr_time_tics, child_complete, amf_next_tics>>
<1>1. ClockOK' /\ QueuesOK' /\ TriggerTypeOK' /\ ControlOK'
  BY Frames DEF TypeOK, Command
<1>2. MasterOK'
  BY DEF TypeOK, MasterOK, Command
<1>3. UNCHANGED <<mode, complete, last_call, curr_time_tics, child_complete, amf_next_tics>>
  BY DEF Command
<1> QED
  BY <1>1, <1>2, <1>3

--------------------------------------------------------------------------------
(***************************************************************************)
(* Every step keeps the types.  First the master: what an action leaves    *)
(* alone is settled by Frames, where it goes by MasterControl.             *)
(***************************************************************************)

\* A sync time that is moved on by a cycle is a time.
LEMMA SyncTimesAreTimes ==
  ASSUME ChildrenOK, NEW k \in Child
  PROVE  [amf_next_tics EXCEPT ![k] = @ + AmfCycle[k]] \in [Child -> Nat]
<1>1. AmfCycle[k] \in Nat
  BY ExecutiveAssumption DEF ExecutiveAssumption
<1>2. amf_next_tics \in [Child -> Nat] /\ amf_next_tics[k] + AmfCycle[k] \in Nat
  BY <1>1 DEF ChildrenOK
<1> QED
  BY <1>2

\* A cursor may be put behind the last job of its queue.
LEMMA EndOfQueue ==
  ASSUME NEW t \in Thread
  PROVE  QueueEnd(t) \in 1 .. Len(JobQueue[t]) + 1 /\ QueueEnd(t) \in Nat
BY QueuedJobs DEF QueueEnd

\* The cursor and the next job call time of one queue change.
LEMMA QueueKept ==
  ASSUME QueuesOK, NEW t \in Thread, NEW k, k \in 1 .. Len(JobQueue[t]) + 1, NEW n \in Nat,
         curr_index' = curr_index \/ curr_index' = [curr_index EXCEPT ![t] = k],
         next_job_time' = next_job_time \/ next_job_time' = [next_job_time EXCEPT ![t] = n],
         UNCHANGED <<curr_job, dep_index>>
  PROVE  QueuesOK'
<1>1. k \in Nat
  BY QueuedJobs
<1>2. /\ curr_index \in [Thread -> Nat]
      /\ \A u \in Thread : curr_index[u] \in 1 .. Len(JobQueue[u]) + 1
  BY DEF QueuesOK
<1>3. /\ curr_index' \in [Thread -> Nat]
      /\ \A u \in Thread : curr_index'[u] \in 1 .. Len(JobQueue[u]) + 1
  BY <1>1, <1>2
<1>4. next_job_time' \in [Thread -> Nat]
  BY DEF QueuesOK
<1> QED
  BY <1>3, <1>4 DEF QueuesOK

\* The steps of the master keep the types.
LEMMA MainStepTypes ==
  ASSUME TypeOK, MainStep
  PROVE  TypeOK'
<1> USE DEF TypeOK
<1>1. CASE AwaitChildren
  <2>1. ClockOK' /\ ModeOK' /\ JobsOK' /\ QueuesOK' /\ ChildrenOK' /\ TriggerTypeOK'
    BY <1>1, Frames DEF AwaitChildren
  <2>2. \/ UNCHANGED pc /\ pc[0] \notin {"fire", "firing"}
        \/ \E l \in MainPC \ {"fire", "firing"} : Goto(0, l)
    BY <1>1 DEF AwaitChildren, MainPC
  <2>3. ControlOK' /\ MasterOK'
    BY <1>1, <2>2, MasterControl DEF AwaitChildren, MasterOK
  <2> QED
    BY <2>1, <2>2, <2>3
<1>2. CASE TestFreezeCmd
  <2>1. ClockOK' /\ ModeOK' /\ JobsOK' /\ QueuesOK' /\ ChildrenOK' /\ TriggerTypeOK'
    BY <1>2, Frames DEF TestFreezeCmd
  <2>2. \E l \in MainPC \ {"fire", "firing"} : Goto(0, l)
    BY <1>2 DEF TestFreezeCmd, MainPC
  <2>3. ControlOK' /\ MasterOK'
    BY <1>2, <2>2, MasterControl DEF TestFreezeCmd, MasterOK
  <2> QED
    BY <2>1, <2>2, <2>3
<1>3. CASE EnterFreeze
  <2>1. ClockOK' /\ JobsOK' /\ QueuesOK' /\ ChildrenOK' /\ TriggerTypeOK'
    BY <1>3, Frames DEF EnterFreeze
  <2>2. ModeOK'
    BY <1>3 DEF EnterFreeze, ModeOK
  <2>3. \E l \in MainPC \ {"fire", "firing"} : Goto(0, l)
    BY <1>3 DEF EnterFreeze, MainPC
  <2>4. ControlOK' /\ MasterOK'
    BY <1>3, <2>3, MasterControl DEF EnterFreeze, MasterOK
  <2> QED
    BY <2>1, <2>2, <2>3, <2>4
<1>4. CASE FreezeLoop
  <2>1. ClockOK' /\ ModeOK' /\ JobsOK' /\ QueuesOK' /\ ChildrenOK' /\ TriggerTypeOK'
    BY <1>4, Frames DEF FreezeLoop
  <2>2. \E l \in MainPC \ {"fire", "firing"} : Goto(0, l)
    BY <1>4 DEF FreezeLoop, MainPC
  <2>3. ControlOK' /\ MasterOK'
    BY <1>4, <2>2, MasterControl DEF FreezeLoop, MasterOK
  <2> QED
    BY <2>1, <2>2, <2>3
<1>5. CASE ClearFreezeLoopCmd
  <2>1. ClockOK' /\ JobsOK' /\ QueuesOK' /\ ChildrenOK' /\ TriggerTypeOK'
    BY <1>5, Frames DEF ClearFreezeLoopCmd
  <2>2. ModeOK'
    BY <1>5 DEF ClearFreezeLoopCmd, ModeOK
  <2>3. \E l \in MainPC \ {"fire", "firing"} : Goto(0, l)
    BY <1>5 DEF ClearFreezeLoopCmd, MainPC
  <2>4. ControlOK' /\ MasterOK'
    BY <1>5, <2>3, MasterControl DEF ClearFreezeLoopCmd, MasterOK
  <2> QED
    BY <2>1, <2>2, <2>3, <2>4
<1>6. CASE LeaveFreeze
  <2>1. ClockOK' /\ ModeOK' /\ JobsOK' /\ QueuesOK' /\ ChildrenOK' /\ TriggerTypeOK'
    BY <1>6, Frames DEF LeaveFreeze
  <2>2. \E l \in MainPC \ {"fire", "firing"} : Goto(0, l)
    BY <1>6 DEF LeaveFreeze, MainPC
  <2>3. ControlOK' /\ MasterOK'
    BY <1>6, <2>2, MasterControl DEF LeaveFreeze, MasterOK
  <2> QED
    BY <2>1, <2>2, <2>3
<1>7. CASE TopOfFrame
  <2>1. ModeOK' /\ JobsOK' /\ QueuesOK' /\ ChildrenOK' /\ TriggerTypeOK'
    BY <1>7, Frames DEF TopOfFrame
  <2>2. ClockOK'
    BY <1>7 DEF TopOfFrame, ClockOK, clockVars
  <2>3. \E l \in MainPC \ {"fire", "firing"} : Goto(0, l)
    BY <1>7 DEF TopOfFrame, MainPC
  <2>4. ControlOK' /\ MasterOK'
    BY <1>7, <2>3, MasterControl DEF TopOfFrame, MasterOK
  <2> QED
    BY <2>1, <2>2, <2>3, <2>4
<1>8. CASE ThreadSync
  <2>1. ClockOK' /\ ModeOK' /\ JobsOK' /\ QueuesOK' /\ TriggerTypeOK'
    BY <1>8, Frames DEF ThreadSync
  <2>2. ChildrenOK'
    <3>1. \/ amf_next_tics' = amf_next_tics
          \/ amf_next_tics' = [amf_next_tics EXCEPT ![ii] = @ + AmfCycle[ii]]
      BY <1>8 DEF ThreadSync
    <3>2. CASE ii \in Child
      BY <1>8, <3>1, <3>2, SyncTimesAreTimes DEF ThreadSync, ChildrenOK
    <3>3. CASE ii \notin Child
      BY <1>8, <3>1, <3>3 DEF ThreadSync, ChildrenOK
    <3> QED
      BY <3>2, <3>3
  <2>3. \/ UNCHANGED pc /\ pc[0] \notin {"fire", "firing"}
        \/ \E l \in MainPC \ {"fire", "firing"} : Goto(0, l)
    BY <1>8 DEF ThreadSync, MainPC
  <2>4. ControlOK' /\ MasterOK'
    BY <1>8, <2>3, MasterControl DEF ThreadSync, MasterOK
  <2> QED
    BY <2>1, <2>2, <2>3, <2>4
<1>9. CASE MarkIncomplete
  <2>1. ClockOK' /\ ModeOK' /\ ChildrenOK' /\ TriggerTypeOK'
    BY <1>9, Frames DEF MarkIncomplete
  <2>2. JobsOK'
    BY <1>9 DEF MarkIncomplete, JobsOK
  <2>3. QueuesOK'
    <3>1. CASE UNCHANGED curr_index
      BY <1>9, <3>1, Frames DEF MarkIncomplete, queueVars
    <3>2. CASE ii <= NumChild /\ curr_index' = [curr_index EXCEPT ![ii] = QueueEnd(ii)]
      <4>1. ii \in Thread
        BY <3>2, TriggerAssumption DEF MasterOK, Thread
      <4>2. UNCHANGED <<next_job_time, curr_job, dep_index>>
        BY <1>9 DEF MarkIncomplete, callVars
      <4> QED
        BY <3>2, <4>1, <4>2, EndOfQueue, QueueKept
    <3> QED
      BY <1>9, <3>1, <3>2 DEF MarkIncomplete
  <2>4. \/ UNCHANGED pc /\ pc[0] \notin {"fire", "firing"}
        \/ \E l \in MainPC \ {"fire", "firing"} : Goto(0, l)
    BY <1>9 DEF MarkIncomplete, MainPC
  <2>5. ControlOK' /\ MasterOK'
    BY <1>9, <2>4, MasterControl DEF MarkIncomplete, MasterOK
  <2> QED
    BY <2>1, <2>2, <2>3, <2>4, <2>5
<1>10. CASE InputProcessorRun
  <2>1. ClockOK' /\ ModeOK' /\ ChildrenOK' /\ TriggerTypeOK'
    BY <1>10, Frames DEF InputProcessorRun
  <2>2. /\ \E n \in Nat : next_tics' = [next_tics EXCEPT ![InputJob] = n] \/ next_tics' = next_tics
        /\ \E n \in Nat : next_job_time' = [next_job_time EXCEPT ![0] = n]
        /\ ip_next_job_time' \in Nat
    <3>1. /\ \A n \in EventTimesAfter(time_tics) : n \in Nat
          /\ InputJob \in Job
      BY ExecutiveAssumption DEF EventTimesAfter, ExecutiveAssumption
    <3>2. next_job_time[0] \in Nat /\ next_job_time = [next_job_time EXCEPT ![0] = next_job_time[0]]
      BY Threads DEF QueuesOK
    <3>3. /\ ip_next_job_time \in Nat /\ next_tics[InputJob] \in Nat
      BY <3>1 DEF MasterOK, JobsOK
    <3>4. CASE /\ ip_next_job_time' = TestNextJobCallTime(ip_next_job_time, next_tics[InputJob], time_tics)
               /\ UNCHANGED <<next_tics, next_job_time>>
      BY <3>2, <3>3, <3>4, TestedIsTime
    <3>5. ASSUME NEW n \in EventTimesAfter(time_tics),
                 next_tics' = [next_tics EXCEPT ![InputJob] = n],
                 ip_next_job_time' = TestNextJobCallTime(ip_next_job_time, n, time_tics),
                 next_job_time' = [next_job_time EXCEPT ![0] =
                   IF MultiThread THEN TestNextJobCallTime(@, n, time_tics) ELSE @]
          PROVE  /\ \E m \in Nat : next_tics' = [next_tics EXCEPT ![InputJob] = m]
                 /\ \E m \in Nat : next_job_time' = [next_job_time EXCEPT ![0] = m]
                 /\ ip_next_job_time' \in Nat
      <4>1. /\ TestNextJobCallTime(ip_next_job_time, n, time_tics) \in Nat
            /\ TestNextJobCallTime(next_job_time[0], n, time_tics) \in Nat
        BY <3>1, <3>2, <3>3, TestedIsTime
      <4> QED
        BY <3>1, <3>2, <3>5, <4>1
    <3> QED
      BY <1>10, <3>4, <3>5 DEF InputProcessorRun
  <2>3. JobsOK'
    <3>1. last_call' \in [Job -> Int]
      BY <1>10 DEF InputProcessorRun, JobsOK, ClockOK
    <3> QED
      BY <1>10, <2>2, <3>1 DEF InputProcessorRun, JobsOK
  <2>4. QueuesOK'
    <3>1. next_job_time' \in [Thread -> Nat]
      BY <2>2 DEF QueuesOK
    <3>2. UNCHANGED <<curr_index, curr_job, dep_index>>
      BY <1>10 DEF InputProcessorRun, callVars
    <3> QED
      BY <3>1, <3>2 DEF QueuesOK
  <2>5. ControlOK' /\ pc'[0] = "fire"
    BY <1>10, MasterMoves DEF InputProcessorRun, MainPC
  <2>6. MasterOK'
    BY <1>10, <2>2, <2>5, TriggerAssumption DEF InputProcessorRun, MasterOK
  <2> QED
    BY <2>1, <2>2, <2>3, <2>4, <2>5, <2>6
<1>11. CASE ArmThread
  <2>1. ClockOK' /\ ModeOK' /\ JobsOK' /\ TriggerTypeOK'
    BY <1>11, Frames DEF ArmThread
  <2>2. ChildrenOK'
    <3>1. CASE UNCHANGED <<curr_time_tics, child_complete, amf_next_tics, enabled>>
      BY <3>1 DEF ChildrenOK
    <3>2. CASE /\ ii <= NumChild
               /\ curr_time_tics' = [curr_time_tics EXCEPT ![ii] = time_tics]
               /\ child_complete' = [child_complete EXCEPT ![ii] = FALSE]
               /\ amf_next_tics' = [amf_next_tics EXCEPT ![ii] = @ + AmfCycle[ii]]
               /\ UNCHANGED enabled
      <4>1. ii \in Child
        BY <1>11, <3>2, TriggerAssumption DEF ArmThread, MasterOK, Child
      <4>2. amf_next_tics' \in [Child -> Nat]
        BY <3>2, <4>1, SyncTimesAreTimes
      <4> QED
        BY <3>2, <4>1, <4>2 DEF ChildrenOK, ClockOK
    <3> QED
      BY <1>11, <3>1, <3>2 DEF ArmThread
  <2>3. QueuesOK'
    <3>1. curr_index' = curr_index \/ curr_index' = [curr_index EXCEPT ![0] = 1]
      BY <1>11 DEF ArmThread
    <3>2. UNCHANGED <<next_job_time, curr_job, dep_index>>
      BY <1>11 DEF ArmThread, callVars
    <3>3. 1 \in 1 .. Len(JobQueue[0]) + 1
      BY QueuedJobs, Threads
    <3> QED
      BY <3>1, <3>2, <3>3, QueueKept, Threads
  <2>4. \/ UNCHANGED pc
        \/ Goto(0, "firing") \/ Goto(0, "sweep")
    BY <1>11 DEF ArmThread
  <2>5. ControlOK'
    BY <2>4, Frames, MasterMoves DEF MainPC
  <2>6. ii \in Nat /\ ii > 0 /\ ii <= NumChild + 1
    BY <1>11, TriggerAssumption DEF ArmThread, MasterOK
  <2>7. \/ UNCHANGED pc /\ ii <= NumChild /\ ii' = ii + 1
        \/ pc'[0] = "firing" /\ ii <= NumChild /\ ii' = ii
        \/ pc'[0] = "sweep" /\ ii' = ii
    BY <1>11, MasterMoves DEF ArmThread, MainPC
  <2>8. MasterOK'
    BY <1>11, <2>6, <2>7, TriggerAssumption DEF ArmThread, MasterOK, Child
  <2> QED
    BY <2>1, <2>2, <2>3, <2>4, <2>5, <2>6, <2>7, <2>8
<1>12. CASE FireThread
  <2>1. ClockOK' /\ ModeOK' /\ JobsOK' /\ QueuesOK' /\ ChildrenOK'
    BY <1>12, Frames DEF FireThread
  <2>2. TriggerTypeOK'
    <3>1. Fire(ii)
      BY <1>12 DEF FireThread
    <3>2. CASE TriggerType[ii] \in {"TT_MUTEX", "TT_FUTEX"}
      BY <3>1, <3>2 DEF Fire, TriggerTypeOK
    <3>3. CASE TriggerType[ii] = "TT_FLAG"
      BY <3>1, <3>3 DEF Fire, TriggerTypeOK
    <3>4. CASE trig' = [trig EXCEPT ![ii].efd = @ + 1]
      <4>1. ii \in Child
        BY <1>12 DEF FireThread, MasterOK
      <4>2. trig[ii].efd + 1 \in Nat
        BY <4>1 DEF TriggerTypeOK
      <4> QED
        BY <3>4, <4>1, <4>2 DEF TriggerTypeOK
    <3> QED
      BY <3>1, <3>2, <3>3, <3>4 DEF Fire
  <2>3. ControlOK' /\ pc'[0] = "fire"
    BY <1>12, MasterMoves DEF FireThread, MainPC
  <2>4. ii \in Nat /\ ii > 0 /\ ii <= NumChild
    BY <1>12, TriggerAssumption DEF FireThread, MasterOK, Child
  <2>5. MasterOK'
    BY <1>12, <2>3, <2>4, TriggerAssumption DEF FireThread, MasterOK
  <2> QED
    BY <2>1, <2>2, <2>3, <2>4, <2>5
<1>13. CASE FindNextJob(0)
  <2>1. ClockOK' /\ ModeOK' /\ ChildrenOK' /\ TriggerTypeOK'
    BY <1>13, Frames DEF FindNextJob
  <2>2. JobsOK' /\ QueuesOK'
    BY <1>13, FindNextJobTypes, Threads
  <2>3. \/ UNCHANGED pc /\ pc[0] \notin {"fire", "firing"}
        \/ \E l \in MainPC \ {"fire", "firing"} : Goto(0, l)
    BY <1>13 DEF FindNextJob, MainPC
  <2>4. ControlOK' /\ MasterOK'
    BY <1>13, <2>3, MasterControl DEF FindNextJob, MasterOK
  <2> QED
    BY <2>1, <2>2, <2>4
<1>14. CASE AwaitDepends(0)
  <2>1. ClockOK' /\ ModeOK' /\ JobsOK' /\ ChildrenOK' /\ TriggerTypeOK'
    BY <1>14, Frames DEF AwaitDepends
  <2>2. QueuesOK'
    BY <1>14, AwaitDependsTypes, Threads
  <2>3. \/ UNCHANGED pc /\ pc[0] \notin {"fire", "firing"}
        \/ \E l \in MainPC \ {"fire", "firing"} : Goto(0, l)
    BY <1>14 DEF AwaitDepends, MainPC
  <2>4. ControlOK' /\ MasterOK'
    BY <1>14, <2>3, MasterControl DEF AwaitDepends, MasterOK
  <2> QED
    BY <2>1, <2>2, <2>4
<1>15. CASE ReturnFromJob(0)
  <2>1. ClockOK' /\ ModeOK' /\ ChildrenOK' /\ TriggerTypeOK'
    BY <1>15, Frames DEF ReturnFromJob
  <2>2. JobsOK' /\ QueuesOK'
    BY <1>15, ReturnFromJobTypes, Threads
  <2>3. \E l \in MainPC \ {"fire", "firing"} : Goto(0, l)
    BY <1>15 DEF ReturnFromJob, MainPC
  <2>4. ControlOK' /\ MasterOK'
    BY <1>15, <2>3, MasterControl DEF ReturnFromJob, MasterOK
  <2> QED
    BY <2>1, <2>2, <2>4
<1>16. CASE ScheduledThreadSync
  <2>1. ClockOK' /\ ModeOK' /\ JobsOK' /\ QueuesOK' /\ ChildrenOK' /\ TriggerTypeOK'
    BY <1>16, Frames DEF ScheduledThreadSync
  <2>2. \/ UNCHANGED pc /\ pc[0] \notin {"fire", "firing"}
        \/ \E l \in MainPC \ {"fire", "firing"} : Goto(0, l)
    BY <1>16 DEF ScheduledThreadSync, MainPC
  <2>3. ControlOK' /\ MasterOK'
    BY <1>16, <2>2, MasterControl DEF ScheduledThreadSync, MasterOK
  <2> QED
    BY <2>1, <2>2, <2>3
<1>17. CASE AdvanceSimTime
  <2>1. ModeOK' /\ ChildrenOK' /\ TriggerTypeOK'
    BY <1>17, Frames DEF AdvanceSimTime
  <2>2. time_tics' \in Nat
    BY <1>17, NextTimeIsTime DEF AdvanceSimTime
  <2>3. ClockOK'
    BY <1>17, <2>2 DEF AdvanceSimTime, ClockOK
  <2>4. JobsOK'
    <3>1. complete' \in [Job -> BOOLEAN] /\ last_call' \in [Job -> Int]
      <4>1. /\ complete' = [complete EXCEPT ![AdvanceJob] = @ \/ MultiThread]
            /\ last_call' = [last_call EXCEPT ![AdvanceJob] = time_tics]
        BY <1>17 DEF AdvanceSimTime
      <4>2. MultiThread \in BOOLEAN /\ time_tics \in Int
        BY DEF MultiThread, ClockOK
      <4> QED
        BY <4>1, <4>2 DEF JobsOK
    <3>2. next_tics' \in [Job -> Nat]
      BY <1>17, <2>2 DEF AdvanceSimTime, JobsOK
    <3> QED
      BY <1>17, <3>1, <3>2 DEF AdvanceSimTime, JobsOK
  <2>5. time_tics' + SoftwareFrame \in Nat
    <3>1. SoftwareFrame \in Nat
      BY ExecutiveAssumption DEF ExecutiveAssumption
    <3>2. PICK n \in Nat : time_tics' = n
      BY <2>2
    <3>3. n + SoftwareFrame \in Nat
      BY <3>1
    <3> QED
      BY <3>2, <3>3
  <2>6. next_job_time' \in [Thread -> Nat]
    <3>1. \A t \in Thread : NextJobCallTime(t) \in Nat /\ next_job_time[t] \in Nat
      BY NextJobCallTimeIsTime DEF QueuesOK
    <3> QED
      BY <1>17, <2>5, <3>1 DEF AdvanceSimTime
  <2>7. QueuesOK'
    BY <1>17, <2>6 DEF AdvanceSimTime, QueuesOK, callVars
  <2>8. ip_next_job_time' \in Nat
    BY <1>17, <2>5 DEF AdvanceSimTime
  <2>9. \E l \in MainPC \ {"fire", "firing"} : Goto(0, l)
    BY <1>17 DEF AdvanceSimTime, MainPC
  <2>10. ControlOK' /\ MasterOK'
    BY <1>17, <2>8, <2>9, MasterControl DEF AdvanceSimTime
  <2> QED
    BY <2>1, <2>3, <2>4, <2>7, <2>10
<1>18. CASE SchedFreezeToExecCommand
  <2>1. ClockOK' /\ ChildrenOK' /\ TriggerTypeOK'
    BY <1>18, Frames DEF SchedFreezeToExecCommand
  <2>2. ModeOK'
    BY <1>18, NextFreezeIsTime DEF SchedFreezeToExecCommand, ModeOK
  <2>3. SchedFreezeNext \in Nat /\ next_job_time[0] \in Nat /\ TestNextJobCallTime(next_job_time[0], SchedFreezeNext, time_tics) \in Nat
    BY NextFreezeIsTime, TestedIsTime, Threads DEF QueuesOK
  <2>4. JobsOK'
    <3>1. /\ complete' \in [Job -> BOOLEAN] /\ last_call' \in [Job -> Int]
      <4>1. /\ complete' = [complete EXCEPT ![FreezeJob] = @ \/ MultiThread]
            /\ last_call' = [last_call EXCEPT ![FreezeJob] = time_tics]
        BY <1>18 DEF SchedFreezeToExecCommand
      <4>2. MultiThread \in BOOLEAN /\ time_tics \in Int
        BY DEF MultiThread, ClockOK
      <4> QED
        BY <4>1, <4>2 DEF JobsOK
    <3>2. next_tics' \in [Job -> Nat]
      BY <1>18, <2>3 DEF SchedFreezeToExecCommand, JobsOK
    <3> QED
      BY <1>18, <3>1, <3>2 DEF SchedFreezeToExecCommand, JobsOK
  <2>5. QueuesOK'
    BY <1>18, <2>3 DEF SchedFreezeToExecCommand, QueuesOK, callVars
  <2>6. \E l \in MainPC \ {"fire", "firing"} : Goto(0, l)
    BY <1>18 DEF SchedFreezeToExecCommand, MainPC
  <2>7. ControlOK' /\ MasterOK'
    BY <1>18, <2>6, MasterControl DEF SchedFreezeToExecCommand, MasterOK
  <2> QED
    BY <2>1, <2>2, <2>3, <2>4, <2>5, <2>6, <2>7
<1>19. CASE EndMainSweep
  <2>1. ClockOK' /\ ModeOK' /\ JobsOK' /\ QueuesOK' /\ ChildrenOK' /\ TriggerTypeOK'
    BY <1>19, Frames DEF EndMainSweep
  <2>2. \E l \in MainPC \ {"fire", "firing"} : Goto(0, l)
    BY <1>19 DEF EndMainSweep, MainPC
  <2>3. ControlOK' /\ MasterOK'
    BY <1>19, <2>2, MasterControl DEF EndMainSweep, MasterOK
  <2> QED
    BY <2>1, <2>2, <2>3
<1>20. CASE CheckCommand
  <2>1. ClockOK' /\ ModeOK' /\ JobsOK' /\ QueuesOK' /\ ChildrenOK' /\ TriggerTypeOK'
    BY <1>20, Frames DEF CheckCommand
  <2>2. \E l \in MainPC \ {"fire", "firing"} : Goto(0, l)
    BY <1>20 DEF CheckCommand, MainPC
  <2>3. ControlOK' /\ MasterOK'
    BY <1>20, <2>2, MasterControl DEF CheckCommand, MasterOK
  <2> QED
    BY <2>1, <2>2, <2>3
<1>21. CASE ClearRunCmd
  <2>1. ClockOK' /\ JobsOK' /\ QueuesOK' /\ ChildrenOK' /\ TriggerTypeOK'
    BY <1>21, Frames DEF ClearRunCmd
  <2>2. ModeOK'
    BY <1>21 DEF ClearRunCmd, ModeOK
  <2>3. \E l \in MainPC \ {"fire", "firing"} : Goto(0, l)
    BY <1>21 DEF ClearRunCmd, MainPC
  <2>4. ControlOK' /\ MasterOK'
    BY <1>21, <2>3, MasterControl DEF ClearRunCmd, MasterOK
  <2> QED
    BY <2>1, <2>2, <2>3, <2>4
<1>22. CASE CheckTerminate
  <2>1. JobsOK' /\ QueuesOK' /\ ChildrenOK' /\ TriggerTypeOK'
    BY <1>22, Frames DEF CheckTerminate
  <2>2. ClockOK'
    BY <1>22 DEF CheckTerminate, ClockOK
  <2>3. ModeOK'
    BY <1>22 DEF CheckTerminate, ModeOK
  <2>4. \E l \in MainPC \ {"fire", "firing"} : Goto(0, l)
    BY <1>22 DEF CheckTerminate, MainPC
  <2>5. ControlOK' /\ MasterOK'
    BY <1>22, <2>4, MasterControl DEF CheckTerminate, MasterOK
  <2> QED
    BY <2>1, <2>2, <2>3, <2>4, <2>5
<1>23. CASE EndOfFrame
  <2>1. QueuesOK' /\ ChildrenOK' /\ TriggerTypeOK'
    BY <1>23, Frames DEF EndOfFrame
  <2>2. ClockOK'
    BY <1>23, ExecutiveAssumption DEF EndOfFrame, ClockOK, ExecutiveAssumption
  <2>3. ModeOK'
    BY <1>23, NextFreezeIsTime DEF EndOfFrame, ModeOK
  <2>4. JobsOK'
    BY <1>23, NextFreezeIsTime DEF EndOfFrame, JobsOK
  <2>5. \E l \in MainPC \ {"fire", "firing"} : Goto(0, l)
    BY <1>23 DEF EndOfFrame, MainPC
  <2>6. ControlOK' /\ MasterOK'
    BY <1>23, <2>5, MasterControl DEF EndOfFrame, MasterOK
  <2> QED
    BY <2>1, <2>2, <2>3, <2>4, <2>5, <2>6
<1>24. CASE Shutdown
  <2>1. ClockOK' /\ JobsOK' /\ QueuesOK' /\ ChildrenOK' /\ TriggerTypeOK'
    BY <1>24, Frames DEF Shutdown
  <2>2. ModeOK'
    BY <1>24 DEF Shutdown, ModeOK
  <2>3. CASE UNCHANGED pc
    BY <1>24, <2>1, <2>2, <2>3, MasterControl DEF Shutdown, MasterOK
  <2>4. CASE /\ pc' = [t \in Thread |-> IF t = 0 THEN "done" ELSE "cancelled"]
             /\ UNCHANGED ii
    <3>1. ControlOK' /\ pc'[0] = "done"
      BY <2>4, Threads DEF ControlOK, MainPC, ChildPC
    <3> QED
      BY <1>24, <2>1, <2>2, <2>4, <3>1 DEF Shutdown, MasterOK
  <2> QED
    BY <1>24, <2>3, <2>4 DEF Shutdown
<1> QED
  BY <1>1, <1>2, <1>3, <1>4, <1>5, <1>6, <1>7, <1>8, <1>9, <1>10, <1>11, <1>12, <1>13, <1>14, <1>15, <1>16, <1>17, <1>18, <1>19, <1>20, <1>21, <1>22, <1>23, <1>24 DEF MainStep

\* Then the children.
LEMMA ChildStepTypes ==
  ASSUME TypeOK, NEW c \in Child, ChildStep(c)
  PROVE  TypeOK'
<1> USE DEF TypeOK
<1>1. CASE ChildStart(c)
  <2>1. ClockOK' /\ ModeOK' /\ JobsOK' /\ QueuesOK'
    BY <1>1, Frames DEF ChildStart
  <2>2. ChildrenOK' /\ TriggerTypeOK'
    BY <1>1 DEF ChildStart, InitTrigger, ChildrenOK, TriggerTypeOK
  <2>3. UNCHANGED pc \/ \E l \in ChildPC : Goto(c, l)
    BY <1>1 DEF ChildStart, ChildPC
  <2>4. ControlOK' /\ MasterOK'
    BY <1>1, <2>3, ChildControl DEF ChildStart
  <2> QED
    BY <2>1, <2>2, <2>4
<1>2. CASE ChildWait(c)
  <2>1. ClockOK' /\ ModeOK' /\ JobsOK' /\ QueuesOK' /\ ChildrenOK'
    BY <1>2, Frames DEF ChildWait
  <2>2. TriggerTypeOK'
    BY <1>2 DEF ChildWait, EnterWait, LeaveWait, TriggerTypeOK
  <2>3. UNCHANGED pc \/ \E l \in ChildPC : Goto(c, l)
    BY <1>2 DEF ChildWait, ChildPC
  <2>4. ControlOK' /\ MasterOK'
    BY <1>2, <2>3, ChildControl DEF ChildWait
  <2> QED
    BY <2>1, <2>2, <2>4
<1>3. CASE Dispatch(c)
  <2>1. ClockOK' /\ ModeOK' /\ JobsOK' /\ ChildrenOK' /\ TriggerTypeOK'
    BY <1>3, Frames DEF Dispatch
  <2>2. FirstJobTime(c) \in Nat
    BY ExecutiveAssumption DEF FirstJobTime, ChildrenOK, ExecutiveAssumption
  <2>3. /\ curr_index' = curr_index \/ curr_index' = [curr_index EXCEPT ![c] = 1]
        /\ \/ next_job_time' = next_job_time
           \/ next_job_time' = [next_job_time EXCEPT ![c] = FirstJobTime(c)]
        /\ UNCHANGED <<curr_job, dep_index>>
    BY <1>3 DEF Dispatch, queueVars, callVars
  <2>4. QueuesOK'
    <3>1. 1 \in 1 .. Len(JobQueue[c]) + 1
      BY QueuedJobs, Threads
    <3> QED
      BY <2>2, <2>3, <3>1, QueueKept, Threads
  <2>5. UNCHANGED pc \/ \E l \in ChildPC : Goto(c, l)
    BY <1>3 DEF Dispatch, ChildPC
  <2>6. ControlOK' /\ MasterOK'
    BY <1>3, <2>5, ChildControl DEF Dispatch
  <2> QED
    BY <2>1, <2>2, <2>3, <2>4, <2>6
<1>4. CASE CatchUp(c)
  <2>1. ClockOK' /\ ModeOK' /\ ChildrenOK' /\ TriggerTypeOK'
    BY <1>4, Frames DEF CatchUp
  <2>2. next_tics' \in [Job -> Nat]
    <3>1. CASE UNCHANGED next_tics
      BY <3>1 DEF JobsOK
    <3>2. CASE /\ ~AtEnd(c)
               /\ next_tics' = [next_tics EXCEPT ![JobQueue[c][curr_index[c]]] = @ + cycle_tics[JobQueue[c][curr_index[c]]]]
      <4>1. JobQueue[c][curr_index[c]] \in Job
        BY <3>2, Threads, JobAtCursor
      <4> QED
        BY <3>2, <4>1 DEF JobsOK
    <3> QED
      BY <1>4, <3>1, <3>2 DEF CatchUp
  <2>3. JobsOK'
    BY <1>4, <2>2 DEF CatchUp, JobsOK
  <2>4. /\ \/ curr_index' = curr_index \/ curr_index' = [curr_index EXCEPT ![c] = 1]
           \/ ~AtEnd(c) /\ curr_index' = [curr_index EXCEPT ![c] = @ + 1]
        /\ \/ next_job_time' = next_job_time
           \/ next_job_time' = [next_job_time EXCEPT ![c] = amf_next_tics[c]]
        /\ UNCHANGED <<curr_job, dep_index>>
    BY <1>4 DEF CatchUp, queueVars, callVars
  <2>5. QueuesOK'
    <3>1. 1 \in 1 .. Len(JobQueue[c]) + 1
      BY QueuedJobs, Threads
    <3>2. amf_next_tics[c] \in Nat
      BY DEF ChildrenOK
    <3>3. ~AtEnd(c) => curr_index[c] + 1 \in 1 .. Len(JobQueue[c]) + 1
      BY JobAtCursor, Threads
    <3>4. PICK k : /\ k \in 1 .. Len(JobQueue[c]) + 1
                   /\ curr_index' = curr_index \/ curr_index' = [curr_index EXCEPT ![c] = k]
      BY <2>4, <3>1, <3>3
    <3> QED
      BY <2>4, <3>2, <3>4, QueueKept, Threads
  <2>6. UNCHANGED pc \/ \E l \in ChildPC : Goto(c, l)
    BY <1>4 DEF CatchUp, ChildPC
  <2>7. ControlOK' /\ MasterOK'
    BY <1>4, <2>6, ChildControl DEF CatchUp
  <2> QED
    BY <2>1, <2>2, <2>3, <2>4, <2>5, <2>7
<1>5. CASE FindNextJob(c)
  <2>1. ClockOK' /\ ModeOK' /\ ChildrenOK' /\ TriggerTypeOK'
    BY <1>5, Frames DEF FindNextJob
  <2>2. JobsOK' /\ QueuesOK'
    BY <1>5, FindNextJobTypes, Threads
  <2>3. UNCHANGED pc \/ \E l \in ChildPC : Goto(c, l)
    BY <1>5 DEF FindNextJob, ChildPC
  <2>4. ControlOK' /\ MasterOK'
    BY <1>5, <2>3, ChildControl DEF FindNextJob
  <2> QED
    BY <2>1, <2>2, <2>4
<1>6. CASE GetNextJob(c)
  <2>1. ClockOK' /\ ModeOK' /\ JobsOK' /\ ChildrenOK' /\ TriggerTypeOK'
    BY <1>6, Frames DEF GetNextJob
  <2>2. /\ curr_index' = [curr_index EXCEPT ![c] = @ + 1]
        /\ \/ curr_job' = curr_job /\ dep_index' = dep_index
           \/ /\ curr_job' = [curr_job EXCEPT ![c] = JobQueue[c][curr_index[c]]]
              /\ dep_index' = [dep_index EXCEPT ![c] = 1]
        /\ UNCHANGED next_job_time /\ ~AtEnd(c)
    BY <1>6 DEF GetNextJob, callVars
  <2>3. QueuesOK'
    <3>1. PICK j \in Job, k \in 1 .. Len(JobQueue[c]) + 1 :
            /\ curr_index' = [curr_index EXCEPT ![c] = k]
            /\ \/ curr_job' = curr_job /\ dep_index' = dep_index
               \/ /\ curr_job' = [curr_job EXCEPT ![c] = j]
                  /\ dep_index' = [dep_index EXCEPT ![c] = 1]
      BY <2>2, Threads, JobAtCursor
    <3>2. curr_job' \in [Thread -> Job] /\ dep_index' \in [Thread -> Nat \ {0}]
      <4>1. curr_job \in [Thread -> Job] /\ dep_index \in [Thread -> Nat \ {0}]
        BY DEF QueuesOK
      <4> HIDE DEF TypeOK
      <4> QED
        BY <3>1, <4>1
    <3>3. k \in Nat
      BY QueuedJobs, Threads
    <3>4. /\ curr_index' \in [Thread -> Nat]
          /\ \A u \in Thread : curr_index'[u] \in 1 .. Len(JobQueue[u]) + 1
      <4>1. /\ curr_index \in [Thread -> Nat]
            /\ \A u \in Thread : curr_index[u] \in 1 .. Len(JobQueue[u]) + 1
        BY DEF QueuesOK
      <4> QED
        BY <3>1, <3>3, <4>1
    <3> QED
      BY <2>2, <3>2, <3>4 DEF QueuesOK
  <2>4. UNCHANGED pc \/ \E l \in ChildPC : Goto(c, l)
    BY <1>6 DEF GetNextJob, ChildPC
  <2>5. ControlOK' /\ MasterOK'
    BY <1>6, <2>4, ChildControl DEF GetNextJob
  <2> QED
    BY <2>1, <2>2, <2>3, <2>5
<1>7. CASE AwaitDepends(c)
  <2>1. ClockOK' /\ ModeOK' /\ JobsOK' /\ ChildrenOK' /\ TriggerTypeOK'
    BY <1>7, Frames DEF AwaitDepends
  <2>2. QueuesOK'
    BY <1>7, AwaitDependsTypes, Threads
  <2>3. UNCHANGED pc \/ \E l \in ChildPC : Goto(c, l)
    BY <1>7 DEF AwaitDepends, ChildPC
  <2>4. ControlOK' /\ MasterOK'
    BY <1>7, <2>3, ChildControl, Threads DEF AwaitDepends
  <2> QED
    BY <2>1, <2>2, <2>4
<1>8. CASE ReturnFromJob(c)
  <2>1. ClockOK' /\ ModeOK' /\ ChildrenOK' /\ TriggerTypeOK'
    BY <1>8, Frames DEF ReturnFromJob
  <2>2. JobsOK' /\ QueuesOK'
    BY <1>8, ReturnFromJobTypes, Threads
  <2>3. UNCHANGED pc \/ \E l \in ChildPC : Goto(c, l)
    BY <1>8 DEF ReturnFromJob, ChildPC
  <2>4. ControlOK' /\ MasterOK'
    BY <1>8, <2>3, ChildControl DEF ReturnFromJob
  <2> QED
    BY <2>1, <2>2, <2>4
<1>9. CASE EndChildSweep(c)
  <2>1. ClockOK' /\ ModeOK' /\ JobsOK' /\ TriggerTypeOK'
    BY <1>9, Frames DEF EndChildSweep
  <2>2. /\ curr_index' = curr_index \/ curr_index' = [curr_index EXCEPT ![c] = 1]
        /\ \/ next_job_time' = next_job_time
           \/ next_job_time' = [next_job_time EXCEPT ![c] = amf_next_tics[c]]
        /\ UNCHANGED <<curr_job, dep_index>>
    BY <1>9 DEF EndChildSweep, queueVars, callVars
  <2>3. QueuesOK'
    <3>1. 1 \in 1 .. Len(JobQueue[c]) + 1
      BY QueuedJobs, Threads
    <3>2. amf_next_tics[c] \in Nat
      BY DEF ChildrenOK
    <3> QED
      BY <2>2, <3>1, <3>2, QueueKept, Threads
  <2>4. ChildrenOK'
    BY <1>9, Threads DEF EndChildSweep, QueuesOK, ChildrenOK
  <2>5. UNCHANGED pc \/ \E l \in ChildPC : Goto(c, l)
    BY <1>9 DEF EndChildSweep, ChildPC
  <2>6. ControlOK' /\ MasterOK'
    BY <1>9, <2>5, ChildControl DEF EndChildSweep
  <2> QED
    BY <2>1, <2>2, <2>3, <2>4, <2>6
<1>10. CASE ChildComplete(c)
  <2>1. ClockOK' /\ ModeOK' /\ JobsOK' /\ QueuesOK' /\ TriggerTypeOK'
    BY <1>10, Frames DEF ChildComplete
  <2>2. ChildrenOK'
    BY <1>10 DEF ChildComplete, ChildrenOK
  <2>3. UNCHANGED pc \/ \E l \in ChildPC : Goto(c, l)
    BY <1>10 DEF ChildComplete, ChildPC
  <2>4. ControlOK' /\ MasterOK'
    BY <1>10, <2>3, ChildControl DEF ChildComplete
  <2> QED
    BY <2>1, <2>2, <2>4
<1> QED
  BY <1>1, <1>2, <1>3, <1>4, <1>5, <1>6, <1>7, <1>8, <1>9, <1>10 DEF ChildStep

\* And the commands.
LEMMA CommandStepTypes ==
  ASSUME TypeOK, CommandStep
  PROVE  TypeOK'
<1> USE DEF TypeOK
<1>1. CASE Freeze \/ Run \/ StopCmd
  <2>1. \E kind : Command(kind)
    BY <1>1 DEF Freeze, Run, StopCmd
  <2>2. /\ exec_command' \in {exec_command, "RunCmd", "ExitCmd"}
        /\ async_freeze_command' \in {async_freeze_command, TRUE}
        /\ UNCHANGED <<freeze_times, next_tics, cycle_tics, disabled, enabled>>
    BY <1>1 DEF Freeze, Run, StopCmd
  <2> QED
    BY <2>1, <2>2, CommandTypes DEF ModeOK, JobsOK, ChildrenOK
<1>2. ASSUME NEW n \in FreezeArgs, FreezeAt(n)
      PROVE  TypeOK'
  <2>1. n \in Nat /\ FreezeJob \in Job
    <3>1. FreezeArgs \subseteq Nat
      BY ExecutiveAssumption DEF ExecutiveAssumption
    <3>2. FreezeJob \in JobsOf(0)
      BY ExecutiveAssumption DEF ExecutiveAssumption
    <3> QED
      BY <3>1, <3>2, QueuedJobs, Threads DEF JobsOf
  <2>2. MinOf(n, next_tics[FreezeJob]) \in Nat
    BY <2>1 DEF MinOf, JobsOK
  <2>3. /\ UNCHANGED <<exec_command, async_freeze_command, cycle_tics, disabled, enabled>>
        /\ freeze_times' = freeze_times \cup {n}
        /\ next_tics' = [next_tics EXCEPT ![FreezeJob] = MinOf(n, next_tics[FreezeJob])]
        /\ Command("freeze_at")
    BY <1>2 DEF FreezeAt
  <2> QED
    BY <2>1, <2>2, <2>3, CommandTypes DEF ModeOK, JobsOK, ChildrenOK
<1>3. ASSUME NEW j \in UserJob, SetJobOnOff(j)
      PROVE  TypeOK'
  <2>1. /\ UNCHANGED <<exec_command, async_freeze_command, freeze_times, next_tics, cycle_tics, enabled>>
        /\ disabled' = [disabled EXCEPT ![j] = ~@]
        /\ Command("onoff")
    BY <1>3 DEF SetJobOnOff
  <2> QED
    BY <2>1, CommandTypes DEF ModeOK, JobsOK, ChildrenOK
<1>4. ASSUME NEW c \in Child, SetThreadEnabled(c)
      PROVE  TypeOK'
  <2>1. /\ UNCHANGED <<exec_command, async_freeze_command, freeze_times, next_tics, cycle_tics, disabled>>
        /\ enabled' = [enabled EXCEPT ![c] = ~@]
        /\ Command("thread")
    BY <1>4 DEF SetThreadEnabled
  <2> QED
    BY <2>1, CommandTypes DEF ModeOK, JobsOK, ChildrenOK
<1>5. ASSUME NEW j \in UserJob, NEW n \in CycleArgs, SetJobCycle(j, n)
      PROVE  TypeOK'
  <2>1. n \in Nat \ {0}
    BY ExecutiveAssumption DEF ExecutiveAssumption
  <2>2. time_tics - (time_tics % n) + n \in Nat
    BY <2>1, NextMultipleIsTime DEF ClockOK
  <2>3. /\ UNCHANGED <<exec_command, async_freeze_command, freeze_times, disabled, enabled>>
        /\ cycle_tics' = [cycle_tics EXCEPT ![j] = n]
        /\ Command("cycle")
    BY <1>5 DEF SetJobCycle
  <2>4. next_tics' \in [Job -> Nat]
    BY <1>5, <2>2 DEF SetJobCycle, JobsOK, ClockOK
  <2> QED
    BY <2>1, <2>3, <2>4, CommandTypes DEF ModeOK, JobsOK, ChildrenOK
<1> QED
  BY <1>1, <1>2, <1>3, <1>4, <1>5 DEF CommandStep

--------------------------------------------------------------------------------
\* The initial state has the types.
LEMMA InitTypes ==
  ASSUME Init
  PROVE  TypeOK
<1> USE DEF Init
<1>1. ClockOK /\ ModeOK
  BY ExecutiveAssumption DEF ClockOK, ModeOK, ExecutiveAssumption
<1>2. JobsOK
  <2>1. \A j \in UserJob : FirstCall(j) \in Nat
    <3>1. Start \in [Job -> Nat] /\ Cycle \in [Job -> Nat \ {0}]
      BY ExecutiveAssumption DEF ExecutiveAssumption
    <3> QED
      BY <3>1 DEF FirstCall, UserJob
  <2>2. {FirstCall(j) : j \in UserJob} \cup EventTimes \cup {0, MaxTics} \subseteq Nat
    <3>1. EventTimes \subseteq Nat /\ MaxTics \in Nat
      BY ExecutiveAssumption DEF ExecutiveAssumption
    <3> QED
      BY <2>1, <3>1
  <2>3. cycle_tics \in [Job -> Nat \ {0}]
    BY ExecutiveAssumption DEF ExecutiveAssumption
  <2>4. next_tics \in [Job -> Nat]
    BY <2>2
  <2> QED
    BY <2>3, <2>4 DEF JobsOK
<1>3. ControlOK
  BY Threads DEF ControlOK, MainPC, ChildPC
<1>4. QueuesOK
  <2>1. AdvanceJob \in Job
    <3>1. AdvanceJob \in JobsOf(0)
      BY ExecutiveAssumption DEF ExecutiveAssumption
    <3> QED
      BY <3>1, QueuedJobs, Threads DEF JobsOf
  <2>2. MaxTics \in Nat
    BY ExecutiveAssumption DEF ExecutiveAssumption
  <2>3. \A t \in Thread : 1 \in 1 .. Len(JobQueue[t]) + 1
    BY QueuedJobs
  <2> QED
    BY <2>1, <2>2, <2>3 DEF QueuesOK
<1>5. ChildrenOK /\ TriggerTypeOK
  BY DEF ChildrenOK, TriggerInit, TriggerTypeOK
<1>6. MasterOK
  <2>1. pc[0] \notin {"fire", "firing"}
    BY Threads
  <2> QED
    <3>1. MaxTics \in Nat
      BY ExecutiveAssumption DEF ExecutiveAssumption
    <3>2. NumChild \in Nat
      BY TriggerAssumption
    <3>3. ii = 1 /\ cmds = 0 /\ ip_next_job_time = MaxTics
      OBVIOUS
    <3> HIDE DEF Init
    <3> QED
      BY <2>1, <3>1, <3>2, <3>3 DEF MasterOK
<1> QED
  BY <1>1, <1>2, <1>3, <1>4, <1>5, <1>6 DEF TypeOK

\* No step of the master, of a child or of a command gives a variable a value
\* outside its type, and the cursor of a queue never leaves the queue.
THEOREM TypeCorrect == Spec => []TypeOK
<1>1. Init => TypeOK
  BY InitTypes
<1>2. TypeOK /\ [Next]_vars => TypeOK'
  <2> SUFFICES ASSUME TypeOK, [Next]_vars
               PROVE  TypeOK'
    OBVIOUS
  <2>1. CASE UNCHANGED vars
    <3>1. UNCHANGED <<clockVars, modeVars, jobVars, queueVars, callVars, childVars, trig, pc,
                      ip_next_job_time, ii, cmds>>
      BY <2>1 DEF vars
    <3> QED
      BY <3>1, Frames DEF TypeOK
  <2> QED
    BY <2>1, MainStepTypes, ChildStepTypes, CommandStepTypes DEF Next, Ended
<1> QED
  BY <1>1, <1>2, PTL DEF Spec

--------------------------------------------------------------------------------
(***************************************************************************)
(* Helpers.                                                                *)
(***************************************************************************)
\* advance_sim_time_job is in the queue of the master only, and is neither the
\* job of a user nor one of the other jobs of the executive.
LEMMA AdvanceFacts ==
  /\ AdvanceJob \in Job /\ AdvanceJob \in SystemJob /\ AdvanceJob \notin UserJob
  /\ AdvanceJob # FreezeJob /\ AdvanceJob # InputJob
  /\ \A c \in Child : AdvanceJob \notin JobsOf(c)
  /\ \E k \in 1 .. Len(JobQueue[0]) : JobQueue[0][k] = AdvanceJob
<1>1. AdvanceJob \in JobsOf(0)
  BY ExecutiveAssumption DEF ExecutiveAssumption
<1>2. \E k \in 1 .. Len(JobQueue[0]) : JobQueue[0][k] = AdvanceJob
  BY <1>1 DEF JobsOf
<1>3. AdvanceJob \in Job
  BY <1>2, QueuedJobs, Threads
<1>4. AdvanceJob # FreezeJob /\ AdvanceJob # InputJob
  BY ExecutiveAssumption DEF ExecutiveAssumption
<1>5. \A c \in Child : AdvanceJob \notin JobsOf(c)
  BY ExecutiveAssumption DEF ExecutiveAssumption
<1>6. AdvanceJob \in SystemJob /\ AdvanceJob \notin UserJob
  BY DEF SystemJob, UserJob
<1> QED
  BY <1>2, <1>3, <1>4, <1>5, <1>6

\* The places of the master outside the synchronization, the firing and the sweep:
\* every scheduled thread has completed its jobs there.
Outside == {"loop", "clear", "freeze", "resume", "refreeze", "unfreeze", "top", "check",
            "clearrun", "term", "eof", "shutdown"}

\* What the invariant says is about these variables.
LEMMA SyncFrame ==
  ASSUME SyncInv,
         UNCHANGED <<pc, ii, child_complete, trig, enabled, curr_time_tics, amf_next_tics,
                     time_tics, curr_index, curr_job>>,
         disabled'[AdvanceJob] = disabled[AdvanceJob],
         next_tics'[AdvanceJob] = next_tics[AdvanceJob]
  PROVE  SyncInv'
<1>1. AllEnabled' /\ AdvanceJobDue' /\ TriggersByType'
  BY DEF SyncInv, AllEnabled, AdvanceJobDue, TriggersByType, ByType
<1>2. Handshake' /\ CurrentTime'
  BY DEF SyncInv, Handshake, InHand, CurrentTime, Quiet, Armed, Running
<1>3. Phases'
  BY DEF SyncInv, Phases, ScheduledDone, AmfDone, AmfDue, AdvanceAhead
<1> QED
  BY <1>1, <1>2, <1>3 DEF SyncInv

\* A step of the master that does not arm, fire or cancel a thread.
LEMMA MasterHandshake ==
  ASSUME SyncInv, UNCHANGED <<child_complete, trig, enabled>>,
         \A c \in Child : pc'[c] = pc[c],
         pc'[0] # "firing", pc[0] # "done"
  PROVE  AllEnabled' /\ TriggersByType' /\ Handshake'
<1>1. AllEnabled' /\ TriggersByType'
  BY DEF SyncInv, AllEnabled, TriggersByType, ByType
<1>2. Handshake'
  BY DEF SyncInv, Handshake, InHand, Quiet, Armed, Running
<1> QED
  BY <1>1, <1>2

\* A step of the master from one of the outside places to another.
LEMMA OutsideStep ==
  ASSUME SyncInv, UNCHANGED <<child_complete, trig, enabled, disabled, curr_time_tics>>,
         \A c \in Child : pc'[c] = pc[c],
         pc[0] \in Outside, pc'[0] \in Outside,
         pc[0] = "shutdown" => pc'[0] = "shutdown",
         time_tics' = time_tics \/ pc'[0] = "shutdown",
         next_tics'[AdvanceJob] = next_tics[AdvanceJob]
  PROVE  SyncInv'
<1>1. AllEnabled' /\ TriggersByType' /\ Handshake'
  BY MasterHandshake DEF Outside
<1>2. AdvanceJobDue'
  BY DEF SyncInv, AdvanceJobDue, Outside
<1>3. \A c \in Child : ProcessType[c] = "SCHEDULED" => child_complete[c]
  BY DEF SyncInv, Phases, ScheduledDone, Outside
<1>4. Phases'
  BY <1>3 DEF Phases, AmfDone, Outside
<1>5. CurrentTime'
  BY <1>3 DEF CurrentTime
<1> QED
  BY <1>1, <1>2, <1>4, <1>5 DEF SyncInv

\* A step of a child within its jobs.
LEMMA RunningStep ==
  ASSUME TypeOK, SyncInv, NEW d \in Child, Running(d),
         UNCHANGED pc \/ \E l \in {"catchup", "sweep", "depend", "call", "complete"} : Goto(d, l),
         UNCHANGED <<ii, child_complete, trig, enabled, disabled, amf_next_tics, time_tics>>,
         curr_index'[0] = curr_index[0], curr_job'[0] = curr_job[0],
         \A c \in Child : ProcessType[c] = "SCHEDULED" => curr_time_tics'[c] = curr_time_tics[c],
         next_tics'[AdvanceJob] = next_tics[AdvanceJob]
  PROVE  SyncInv'
<1>1. /\ pc'[0] = pc[0] /\ Running(d)'
      /\ \A c \in Child : c # d => pc'[c] = pc[c]
  <2>1. CASE UNCHANGED pc
    BY <2>1 DEF Running
  <2>2. ASSUME NEW l \in {"catchup", "sweep", "depend", "call", "complete"}, Goto(d, l)
        PROVE  /\ pc'[0] = pc[0] /\ Running(d)'
               /\ \A c \in Child : c # d => pc'[c] = pc[c]
    BY <2>2, Threads DEF TypeOK, ControlOK, Goto, Running
  <2> QED
    BY <2>1, <2>2
<1>2. AllEnabled' /\ TriggersByType'
  BY DEF SyncInv, AllEnabled, TriggersByType, ByType
<1>3. AdvanceJobDue'
  BY <1>1 DEF SyncInv, AdvanceJobDue
<1>4. Handshake'
  BY <1>1 DEF SyncInv, Handshake, InHand, Quiet, Armed, Running
<1>5. Phases'
  BY <1>1 DEF SyncInv, Phases, ScheduledDone, AmfDone, AmfDue, AdvanceAhead
<1>6. CurrentTime'
  BY <1>1 DEF SyncInv, CurrentTime, Running
<1> QED
  BY <1>2, <1>3, <1>4, <1>5, <1>6 DEF SyncInv

--------------------------------------------------------------------------------
(***************************************************************************)
(* The children.                                                           *)
(***************************************************************************)
\* A step of child d disturbs its own flag, trigger and place only: the facts about
\* the other children and about the master stay.
LEMMA ChildSyncStep ==
  ASSUME StaticThreads, TypeOK, SyncInv, NEW d \in Child, ChildStep(d)
  PROVE  SyncInv'
<1>0. pc \in [Thread -> MainPC \cup ChildPC] /\ d \in Thread /\ d # 0
  BY Threads DEF TypeOK, ControlOK
<1>1. CASE ChildStart(d)
  <2>1. /\ child_complete' = [child_complete EXCEPT ![d] = TRUE]
        /\ trig' = [trig EXCEPT ![d].wait = "out"]
        /\ pc' = [pc EXCEPT ![d] = "wait"] /\ pc[d] = "start"
        /\ UNCHANGED <<ii, enabled, disabled, amf_next_tics, time_tics, curr_index, curr_job,
                       curr_time_tics, next_tics>>
    BY <1>1 DEF ChildStart, InitTrigger, Goto, clockVars, jobVars, queueVars, callVars
  <2>2. /\ pc'[0] = pc[0] /\ pc'[d] = "wait" /\ child_complete'[d]
        /\ \A c \in Child : c # d => pc'[c] = pc[c] /\ child_complete'[c] = child_complete[c]
                                     /\ trig'[c] = trig[c]
    BY <1>0, <2>1 DEF TypeOK, ChildrenOK, TriggerTypeOK
  <2>3. /\ trig'[d].wait = "out" /\ trig'[d].flag = trig[d].flag /\ trig'[d].efd = trig[d].efd
    BY <2>1 DEF TypeOK, TriggerTypeOK
  <2>4. AllEnabled' /\ AdvanceJobDue' /\ TriggersByType'
    BY <2>1, <2>2, <2>3 DEF SyncInv, AllEnabled, AdvanceJobDue, TriggersByType, ByType
  <2>5. Handshake'
    BY <2>1, <2>2, <2>3 DEF SyncInv, Handshake, InHand, Quiet, Armed, Running
  <2>6. Phases'
    BY <2>1, <2>2 DEF SyncInv, Phases, ScheduledDone, AmfDone, AmfDue, AdvanceAhead
  <2>7. CurrentTime'
    BY <2>1, <2>2 DEF SyncInv, CurrentTime
  <2> QED
    BY <2>4, <2>5, <2>6, <2>7 DEF SyncInv
<1>2. CASE pc[d] = "wait" /\ EnterWait(d) /\ Goto(d, "waiting") /\ ChildWait(d)
  <2>1. /\ trig' = [trig EXCEPT ![d].wait = "in"]
        /\ pc' = [pc EXCEPT ![d] = "waiting"] /\ pc[d] = "wait"
        /\ UNCHANGED <<ii, enabled, disabled, amf_next_tics, time_tics, curr_index, curr_job,
                       curr_time_tics, next_tics, child_complete>>
    BY <1>2 DEF ChildWait, EnterWait, Goto, clockVars, jobVars, queueVars, callVars, childVars
  <2>2. /\ pc'[0] = pc[0] /\ pc'[d] = "waiting"
        /\ \A c \in Child : c # d => pc'[c] = pc[c] /\ trig'[c] = trig[c]
    BY <1>0, <2>1 DEF TypeOK, TriggerTypeOK
  <2>3. trig'[d].wait = "in" /\ trig'[d].flag = trig[d].flag /\ trig'[d].efd = trig[d].efd
    BY <2>1 DEF TypeOK, TriggerTypeOK
  <2>4. AllEnabled' /\ AdvanceJobDue' /\ TriggersByType'
    BY <2>1, <2>2, <2>3 DEF SyncInv, AllEnabled, AdvanceJobDue, TriggersByType, ByType
  <2>5. Handshake'
    BY <2>1, <2>2, <2>3 DEF SyncInv, Handshake, InHand, Quiet, Armed, Running
  <2>6. Phases'
    BY <2>1, <2>2 DEF SyncInv, Phases, ScheduledDone, AmfDone, AmfDue, AdvanceAhead
  <2>7. CurrentTime'
    BY <2>1, <2>2 DEF SyncInv, CurrentTime
  <2> QED
    BY <2>4, <2>5, <2>6, <2>7 DEF SyncInv
<1>3. CASE pc[d] = "waiting" /\ LeaveWait(d) /\ Goto(d, "dispatch") /\ ChildWait(d)
  <2>1. /\ pc' = [pc EXCEPT ![d] = "dispatch"] /\ pc[d] = "waiting"
        /\ UNCHANGED <<ii, enabled, disabled, amf_next_tics, time_tics, curr_index, curr_job,
                       curr_time_tics, next_tics, child_complete>>
    BY <1>3 DEF ChildWait, Goto, clockVars, jobVars, queueVars, callVars, childVars
  <2>2. /\ pc'[0] = pc[0] /\ pc'[d] = "dispatch"
        /\ \A c \in Child : c # d => pc'[c] = pc[c]
    BY <1>0, <2>1
  <2>3. ~Quiet(d) /\ \A c \in Child : c # d => trig'[c] = trig[c]
    BY <1>3 DEF LeaveWait, Quiet, StaticThreads, TypeOK, TriggerTypeOK
  <2>4. ~child_complete[d] /\ ~Armed(d)
    BY <2>3 DEF SyncInv, Handshake, InHand
  <2>5. Quiet(d)'
    <3>1. CASE TriggerType[d] \in {"TT_MUTEX", "TT_FUTEX"}
      BY <1>3, <3>1 DEF LeaveWait, Quiet, SyncInv, TriggersByType, ByType, TypeOK, TriggerTypeOK
    <3>2. CASE TriggerType[d] = "TT_FLAG"
      BY <1>3, <3>2 DEF LeaveWait, Quiet, SyncInv, TriggersByType, ByType, TypeOK, TriggerTypeOK
    <3>3. CASE TriggerType[d] = "TT_EVENTFD"
      BY <1>3, <3>3 DEF LeaveWait, Quiet, SyncInv, TriggersByType, ByType, TypeOK, TriggerTypeOK
    <3> QED
      BY <3>1, <3>2, <3>3, TriggerAssumption DEF TriggerKind
  <2>6. AllEnabled' /\ AdvanceJobDue'
    BY <2>1, <2>2 DEF SyncInv, AllEnabled, AdvanceJobDue
  <2>7. TriggersByType'
    BY <2>3, <2>5 DEF SyncInv, TriggersByType, ByType, Quiet
  <2>8. Handshake'
    BY <2>1, <2>2, <2>3, <2>4, <2>5 DEF SyncInv, Handshake, InHand, Quiet, Armed, Running
  <2>9. Phases'
    BY <2>1, <2>2 DEF SyncInv, Phases, ScheduledDone, AmfDone, AmfDue, AdvanceAhead
  <2>10. CurrentTime'
    BY <2>1, <2>2 DEF SyncInv, CurrentTime
  <2> QED
    BY <2>6, <2>7, <2>8, <2>9, <2>10 DEF SyncInv
<1>4. CASE ChildComplete(d)
  <2>1. /\ child_complete' = [child_complete EXCEPT ![d] = TRUE]
        /\ pc' = [pc EXCEPT ![d] = "wait"] /\ pc[d] = "complete"
        /\ UNCHANGED <<ii, enabled, disabled, amf_next_tics, time_tics, curr_index, curr_job,
                       curr_time_tics, next_tics, trig>>
    BY <1>4 DEF ChildComplete, Goto, clockVars, jobVars, queueVars, callVars
  <2>2. /\ pc'[0] = pc[0] /\ pc'[d] = "wait" /\ child_complete'[d]
        /\ \A c \in Child : c # d => pc'[c] = pc[c] /\ child_complete'[c] = child_complete[c]
    BY <1>0, <2>1 DEF TypeOK, ChildrenOK
  <2>3. AllEnabled' /\ AdvanceJobDue' /\ TriggersByType'
    BY <2>1, <2>2 DEF SyncInv, AllEnabled, AdvanceJobDue, TriggersByType, ByType
  <2>4. Handshake'
    BY <2>1, <2>2 DEF SyncInv, Handshake, InHand, Quiet, Armed, Running
  <2>5. Phases'
    BY <2>1, <2>2 DEF SyncInv, Phases, ScheduledDone, AmfDone, AmfDue, AdvanceAhead
  <2>6. CurrentTime'
    BY <2>1, <2>2 DEF SyncInv, CurrentTime
  <2> QED
    BY <2>3, <2>4, <2>5, <2>6 DEF SyncInv
<1>5. CASE Dispatch(d)
  <2>1. Running(d)
    BY <1>5 DEF Dispatch, Running
  <2>2. UNCHANGED pc \/ \E l \in {"catchup", "sweep", "depend", "call", "complete"} : Goto(d, l)
    BY <1>5 DEF Dispatch
  <2>3. UNCHANGED <<ii, child_complete, trig, enabled, disabled, amf_next_tics, time_tics>>
    BY <1>0, <1>5 DEF Dispatch, clockVars, childVars, jobVars
  <2>4. curr_index'[0] = curr_index[0] /\ curr_job'[0] = curr_job[0]
    BY <1>0, <1>5, Threads DEF Dispatch, TypeOK, QueuesOK, queueVars, callVars
  <2>5. UNCHANGED curr_time_tics
    BY <1>5 DEF Dispatch, childVars
  <2>6. next_tics'[AdvanceJob] = next_tics[AdvanceJob]
    BY <1>5 DEF Dispatch, jobVars
  <2> QED
    BY <2>1, <2>2, <2>3, <2>4, <2>5, <2>6, RunningStep
<1>6. CASE CatchUp(d)
  <2>1. Running(d)
    BY <1>6 DEF CatchUp, Running
  <2>2. UNCHANGED pc \/ \E l \in {"catchup", "sweep", "depend", "call", "complete"} : Goto(d, l)
    BY <1>6 DEF CatchUp
  <2>3. UNCHANGED <<ii, child_complete, trig, enabled, disabled, amf_next_tics, time_tics>>
    BY <1>0, <1>6 DEF CatchUp, clockVars, childVars, jobVars
  <2>4. curr_index'[0] = curr_index[0] /\ curr_job'[0] = curr_job[0]
    BY <1>0, <1>6, Threads DEF CatchUp, TypeOK, QueuesOK, queueVars, callVars
  <2>5. UNCHANGED curr_time_tics
    BY <1>6 DEF CatchUp, childVars
  <2>6. next_tics'[AdvanceJob] = next_tics[AdvanceJob]
    <3>1. ~AtEnd(d) => JobQueue[d][curr_index[d]] \in JobsOf(d)
      BY <1>0 DEF AtEnd, QueueEnd, JobsOf, TypeOK, QueuesOK
    <3>2. ~AtEnd(d) => JobQueue[d][curr_index[d]] # AdvanceJob
      BY <3>1, AdvanceFacts
    <3> QED
      BY <1>6, <3>2, AdvanceFacts DEF CatchUp, TypeOK, JobsOK
  <2> QED
    BY <2>1, <2>2, <2>3, <2>4, <2>5, <2>6, RunningStep
<1>7. CASE FindNextJob(d)
  <2>1. Running(d)
    BY <1>7 DEF FindNextJob, Running
  <2>2. UNCHANGED pc \/ \E l \in {"catchup", "sweep", "depend", "call", "complete"} : Goto(d, l)
    BY <1>7 DEF FindNextJob
  <2>3. UNCHANGED <<ii, child_complete, trig, enabled, disabled, amf_next_tics, time_tics>>
    BY <1>0, <1>7 DEF FindNextJob, clockVars, childVars, jobVars
  <2>4. curr_index'[0] = curr_index[0] /\ curr_job'[0] = curr_job[0]
    BY <1>0, <1>7, Threads DEF FindNextJob, TypeOK, QueuesOK, queueVars, callVars
  <2>5. UNCHANGED curr_time_tics
    BY <1>7 DEF FindNextJob, childVars
  <2>6. next_tics'[AdvanceJob] = next_tics[AdvanceJob]
    <3>1. ~AtEnd(d) => JobQueue[d][curr_index[d]] \in JobsOf(d)
      BY <1>0 DEF AtEnd, QueueEnd, JobsOf, TypeOK, QueuesOK
    <3>2. ~AtEnd(d) => JobQueue[d][curr_index[d]] # AdvanceJob
      BY <3>1, AdvanceFacts
    <3> QED
      BY <1>7, <3>2, AdvanceFacts DEF FindNextJob, TypeOK, JobsOK
  <2> QED
    BY <2>1, <2>2, <2>3, <2>4, <2>5, <2>6, RunningStep
<1>8. CASE GetNextJob(d)
  <2>1. Running(d)
    BY <1>8 DEF GetNextJob, Running
  <2>2. UNCHANGED pc \/ \E l \in {"catchup", "sweep", "depend", "call", "complete"} : Goto(d, l)
    BY <1>8 DEF GetNextJob
  <2>3. UNCHANGED <<ii, child_complete, trig, enabled, disabled, amf_next_tics, time_tics>>
    BY <1>0, <1>8 DEF GetNextJob, clockVars, childVars, jobVars
  <2>4. curr_index'[0] = curr_index[0] /\ curr_job'[0] = curr_job[0]
    BY <1>0, <1>8, Threads DEF GetNextJob, TypeOK, QueuesOK, queueVars, callVars
  <2>5. UNCHANGED curr_time_tics
    BY <1>8 DEF GetNextJob, childVars
  <2>6. next_tics'[AdvanceJob] = next_tics[AdvanceJob]
    BY <1>8 DEF GetNextJob, jobVars
  <2> QED
    BY <2>1, <2>2, <2>3, <2>4, <2>5, <2>6, RunningStep
<1>9. CASE AwaitDepends(d)
  <2>1. Running(d)
    BY <1>9 DEF AwaitDepends, Running
  <2>2. UNCHANGED pc \/ \E l \in {"catchup", "sweep", "depend", "call", "complete"} : Goto(d, l)
    BY <1>9 DEF AwaitDepends
  <2>3. UNCHANGED <<ii, child_complete, trig, enabled, disabled, amf_next_tics, time_tics>>
    BY <1>0, <1>9 DEF AwaitDepends, clockVars, childVars, jobVars
  <2>4. curr_index'[0] = curr_index[0] /\ curr_job'[0] = curr_job[0]
    BY <1>0, <1>9, Threads DEF AwaitDepends, TypeOK, QueuesOK, queueVars, callVars
  <2>5. UNCHANGED curr_time_tics
    BY <1>9 DEF AwaitDepends, childVars
  <2>6. next_tics'[AdvanceJob] = next_tics[AdvanceJob]
    BY <1>9 DEF AwaitDepends, jobVars
  <2> QED
    BY <2>1, <2>2, <2>3, <2>4, <2>5, <2>6, RunningStep
<1>10. CASE ReturnFromJob(d)
  <2>1. Running(d)
    BY <1>10 DEF ReturnFromJob, Running
  <2>2. UNCHANGED pc \/ \E l \in {"catchup", "sweep", "depend", "call", "complete"} : Goto(d, l)
    BY <1>10 DEF ReturnFromJob
  <2>3. UNCHANGED <<ii, child_complete, trig, enabled, disabled, amf_next_tics, time_tics>>
    BY <1>0, <1>10 DEF ReturnFromJob, clockVars, childVars, jobVars
  <2>4. curr_index'[0] = curr_index[0] /\ curr_job'[0] = curr_job[0]
    BY <1>0, <1>10, Threads DEF ReturnFromJob, TypeOK, QueuesOK, queueVars, callVars
  <2>5. UNCHANGED curr_time_tics
    BY <1>10 DEF ReturnFromJob, childVars
  <2>6. next_tics'[AdvanceJob] = next_tics[AdvanceJob]
    BY <1>10, AdvanceFacts DEF ReturnFromJob, TypeOK, JobsOK
  <2> QED
    BY <2>1, <2>2, <2>3, <2>4, <2>5, <2>6, RunningStep
<1>11. CASE EndChildSweep(d)
  <2>1. Running(d)
    BY <1>11 DEF EndChildSweep, Running
  <2>2. UNCHANGED pc \/ \E l \in {"catchup", "sweep", "depend", "call", "complete"} : Goto(d, l)
    BY <1>11 DEF EndChildSweep
  <2>3. UNCHANGED <<ii, child_complete, trig, enabled, disabled, amf_next_tics, time_tics>>
    BY <1>0, <1>11 DEF EndChildSweep, clockVars, childVars, jobVars
  <2>4. curr_index'[0] = curr_index[0] /\ curr_job'[0] = curr_job[0]
    BY <1>0, <1>11, Threads DEF EndChildSweep, TypeOK, QueuesOK, queueVars, callVars
  <2>5. \A c \in Child : ProcessType[c] = "SCHEDULED" => curr_time_tics'[c] = curr_time_tics[c]
    BY <1>11 DEF EndChildSweep, HasFrames, TypeOK, ChildrenOK
  <2>6. next_tics'[AdvanceJob] = next_tics[AdvanceJob]
    BY <1>11 DEF EndChildSweep, jobVars
  <2> QED
    BY <2>1, <2>2, <2>3, <2>4, <2>5, <2>6, RunningStep
<1> QED
  BY <1>1, <1>2, <1>3, <1>4, <1>5, <1>6, <1>7, <1>8, <1>9, <1>10, <1>11 DEF ChildStep, ChildWait

--------------------------------------------------------------------------------
(***************************************************************************)
(* The commands.                                                           *)
(***************************************************************************)
\* No command touches what the invariant is about, if none disables a thread.
LEMMA CommandSyncStep ==
  ASSUME StaticThreads, TypeOK, SyncInv, CommandStep
  PROVE  SyncInv'
<1>1. /\ UNCHANGED <<pc, ii, child_complete, trig, curr_time_tics, amf_next_tics, time_tics,
                     curr_index, curr_job>>
      /\ UNCHANGED enabled
  BY DEF CommandStep, Freeze, FreezeAt, Run, StopCmd, SetJobOnOff, SetThreadEnabled, SetJobCycle,
         Command, StaticThreads, clockVars, queueVars, callVars
<1>2. disabled'[AdvanceJob] = disabled[AdvanceJob]
  BY AdvanceFacts DEF CommandStep, Freeze, FreezeAt, Run, StopCmd, SetJobOnOff, SetThreadEnabled,
                      SetJobCycle, TypeOK, JobsOK
<1>3. next_tics'[AdvanceJob] = next_tics[AdvanceJob]
  BY AdvanceFacts DEF CommandStep, Freeze, FreezeAt, Run, StopCmd, SetJobOnOff, SetThreadEnabled,
                      SetJobCycle, TypeOK, JobsOK
<1> QED
  BY <1>1, <1>2, <1>3, SyncFrame

--------------------------------------------------------------------------------
(***************************************************************************)
(* The master.                                                             *)
(***************************************************************************)
\* The places the master goes to, as facts about pc.
LEMMA MasterGoes ==
  ASSUME TypeOK, NEW l, Goto(0, l)
  PROVE  pc'[0] = l /\ \A c \in Child : pc'[c] = pc[c]
BY Threads DEF TypeOK, ControlOK, Goto

\* From one place outside to another.
LEMMA OutsideSyncStep ==
  ASSUME TypeOK, SyncInv,
         \/ TestFreezeCmd \/ EnterFreeze \/ FreezeLoop \/ ClearFreezeLoopCmd \/ CheckCommand
         \/ LeaveFreeze \/ ClearRunCmd \/ CheckTerminate \/ EndOfFrame \/ (Shutdown /\ UNCHANGED pc)
  PROVE  SyncInv'
<1>1. CASE TestFreezeCmd
  <2>1. UNCHANGED <<child_complete, trig, enabled, disabled, curr_time_tics>>
    BY <1>1 DEF TestFreezeCmd, childVars, jobVars
  <2>2. /\ pc[0] \in Outside /\ pc'[0] \in Outside /\ pc[0] # "shutdown"
        /\ \A c \in Child : pc'[c] = pc[c]
    BY <1>1, MasterGoes DEF TestFreezeCmd, Outside
  <2>3. time_tics' = time_tics /\ next_tics' = next_tics
    BY <1>1 DEF TestFreezeCmd, clockVars, jobVars
  <2> QED
    BY <2>1, <2>2, <2>3, OutsideStep
<1>2. CASE EnterFreeze
  <2>1. UNCHANGED <<child_complete, trig, enabled, disabled, curr_time_tics>>
    BY <1>2 DEF EnterFreeze, childVars, jobVars
  <2>2. /\ pc[0] \in Outside /\ pc'[0] \in Outside /\ pc[0] # "shutdown"
        /\ \A c \in Child : pc'[c] = pc[c]
    BY <1>2, MasterGoes DEF EnterFreeze, Outside
  <2>3. time_tics' = time_tics /\ next_tics' = next_tics
    BY <1>2 DEF EnterFreeze, clockVars, jobVars
  <2> QED
    BY <2>1, <2>2, <2>3, OutsideStep
<1>3. CASE FreezeLoop
  <2>1. UNCHANGED <<child_complete, trig, enabled, disabled, curr_time_tics>>
    BY <1>3 DEF FreezeLoop, childVars, jobVars
  <2>2. /\ pc[0] \in Outside /\ pc'[0] \in Outside /\ pc[0] # "shutdown"
        /\ \A c \in Child : pc'[c] = pc[c]
    BY <1>3, MasterGoes DEF FreezeLoop, Outside
  <2>3. time_tics' = time_tics /\ next_tics' = next_tics
    BY <1>3 DEF FreezeLoop, clockVars, jobVars
  <2> QED
    BY <2>1, <2>2, <2>3, OutsideStep
<1>4. CASE ClearFreezeLoopCmd
  <2>1. UNCHANGED <<child_complete, trig, enabled, disabled, curr_time_tics>>
    BY <1>4 DEF ClearFreezeLoopCmd, childVars, jobVars
  <2>2. /\ pc[0] \in Outside /\ pc'[0] \in Outside /\ pc[0] # "shutdown"
        /\ \A c \in Child : pc'[c] = pc[c]
    BY <1>4, MasterGoes DEF ClearFreezeLoopCmd, Outside
  <2>3. time_tics' = time_tics /\ next_tics' = next_tics
    BY <1>4 DEF ClearFreezeLoopCmd, clockVars, jobVars
  <2> QED
    BY <2>1, <2>2, <2>3, OutsideStep
<1>5. CASE CheckCommand
  <2>1. UNCHANGED <<child_complete, trig, enabled, disabled, curr_time_tics>>
    BY <1>5 DEF CheckCommand, childVars, jobVars
  <2>2. /\ pc[0] \in Outside /\ pc'[0] \in Outside /\ pc[0] # "shutdown"
        /\ \A c \in Child : pc'[c] = pc[c]
    BY <1>5, MasterGoes DEF CheckCommand, Outside
  <2>3. time_tics' = time_tics /\ next_tics' = next_tics
    BY <1>5 DEF CheckCommand, clockVars, jobVars
  <2> QED
    BY <2>1, <2>2, <2>3, OutsideStep
<1>6. CASE LeaveFreeze
  <2>1. UNCHANGED <<child_complete, trig, enabled, disabled, curr_time_tics>>
    BY <1>6 DEF LeaveFreeze, childVars, jobVars
  <2>2. /\ pc[0] \in Outside /\ pc'[0] \in Outside /\ pc[0] # "shutdown"
        /\ \A c \in Child : pc'[c] = pc[c]
    BY <1>6, MasterGoes DEF LeaveFreeze, Outside
  <2>3. time_tics' = time_tics /\ next_tics' = next_tics
    BY <1>6 DEF LeaveFreeze, clockVars, jobVars
  <2> QED
    BY <2>1, <2>2, <2>3, OutsideStep
<1>7. CASE ClearRunCmd
  <2>1. UNCHANGED <<child_complete, trig, enabled, disabled, curr_time_tics>>
    BY <1>7 DEF ClearRunCmd, childVars, jobVars
  <2>2. /\ pc[0] \in Outside /\ pc'[0] \in Outside /\ pc[0] # "shutdown"
        /\ \A c \in Child : pc'[c] = pc[c]
    BY <1>7, MasterGoes DEF ClearRunCmd, Outside
  <2>3. time_tics' = time_tics /\ next_tics' = next_tics
    BY <1>7 DEF ClearRunCmd, clockVars, jobVars
  <2> QED
    BY <2>1, <2>2, <2>3, OutsideStep
<1>8. CASE CheckTerminate
  <2>1. UNCHANGED <<child_complete, trig, enabled, disabled, curr_time_tics>>
    BY <1>8 DEF CheckTerminate, childVars, jobVars
  <2>2. /\ pc[0] \in Outside /\ pc'[0] \in Outside /\ pc[0] # "shutdown"
        /\ \A c \in Child : pc'[c] = pc[c]
    BY <1>8, MasterGoes DEF CheckTerminate, Outside
  <2>3. (time_tics' = time_tics \/ pc'[0] = "shutdown") /\ next_tics' = next_tics
    BY <1>8, MasterGoes DEF CheckTerminate, jobVars
  <2> QED
    BY <2>1, <2>2, <2>3, OutsideStep
<1>9. CASE EndOfFrame
  <2>1. UNCHANGED <<child_complete, trig, enabled, disabled, curr_time_tics>>
    BY <1>9 DEF EndOfFrame, childVars, jobVars
  <2>2. /\ pc[0] \in Outside /\ pc'[0] \in Outside /\ pc[0] # "shutdown"
        /\ \A c \in Child : pc'[c] = pc[c]
    BY <1>9, MasterGoes DEF EndOfFrame, Outside
  <2>3. time_tics' = time_tics /\ next_tics'[AdvanceJob] = next_tics[AdvanceJob]
    BY <1>9, AdvanceFacts DEF EndOfFrame, TypeOK, JobsOK
  <2> QED
    BY <2>1, <2>2, <2>3, OutsideStep
<1>10. CASE Shutdown /\ UNCHANGED pc
  <2>1. UNCHANGED <<child_complete, trig, enabled, disabled, curr_time_tics>>
    BY <1>10 DEF Shutdown, childVars, jobVars
  <2>2. /\ pc[0] \in Outside /\ pc'[0] \in Outside /\ pc'[0] = "shutdown"
        /\ \A c \in Child : pc'[c] = pc[c]
    BY <1>10 DEF Shutdown, Outside
  <2>3. time_tics' = time_tics /\ next_tics' = next_tics
    BY <1>10 DEF Shutdown, clockVars, jobVars
  <2> QED
    BY <2>1, <2>2, <2>3, OutsideStep
<1> QED
  BY <1>1, <1>2, <1>3, <1>4, <1>5, <1>6, <1>7, <1>8, <1>9, <1>10

\* The synchronization with the children and their start.
LEMMA FireSyncStep ==
  ASSUME StaticThreads, TypeOK, SyncInv,
         \/ AwaitChildren \/ TopOfFrame \/ ThreadSync \/ MarkIncomplete \/ InputProcessorRun
         \/ ArmThread \/ FireThread
  PROVE  SyncInv'
<1>0. NumChild \in Nat /\ ii \in 0 .. NumChild + 1 /\ Child = 1 .. NumChild
  BY TriggerAssumption DEF TypeOK, MasterOK, Child
<1>1. CASE AwaitChildren
  <2>1. UNCHANGED <<child_complete, trig, enabled, disabled, curr_time_tics, time_tics>>
    BY <1>1 DEF AwaitChildren, childVars, jobVars, clockVars
  <2>2. /\ pc[0] = "init" /\ pc'[0] \in {"init", "loop"}
        /\ \A c \in Child : pc'[c] = pc[c]
    BY <1>1, MasterGoes DEF AwaitChildren
  <2>3. AllEnabled' /\ TriggersByType' /\ Handshake'
    BY <2>1, <2>2, MasterHandshake
  <2>4. next_tics'[AdvanceJob] = next_tics[AdvanceJob]
    BY <1>1 DEF AwaitChildren, jobVars
  <2>5. AdvanceJobDue'
    BY <2>1, <2>2, <2>4 DEF SyncInv, AdvanceJobDue
  <2>6. CurrentTime'
    BY <2>1, <2>2 DEF SyncInv, CurrentTime
  <2>7. Phases'
    <3>1. CASE ii <= NumChild /\ child_complete[ii] /\ ii' = ii + 1 /\ UNCHANGED pc
      BY <1>0, <2>1, <2>2, <3>1 DEF SyncInv, Phases, ScheduledDone, AmfDone
    <3>2. CASE ii > NumChild /\ Goto(0, "loop")
      <4>1. \A c \in Child : c < ii
        BY <1>0, <3>2
      <4>2. pc'[0] = "loop"
        BY <3>2, MasterGoes
      <4> QED
        BY <2>1, <2>2, <4>1, <4>2 DEF SyncInv, Phases, ScheduledDone, AmfDone
    <3> QED
      BY <1>1, <3>1, <3>2 DEF AwaitChildren
  <2> QED
    BY <2>3, <2>5, <2>6, <2>7 DEF SyncInv
<1>2. CASE TopOfFrame
  <2>1. UNCHANGED <<child_complete, trig, enabled, disabled, curr_time_tics, time_tics>>
    BY <1>2 DEF TopOfFrame, childVars, jobVars, clockVars
  <2>2. /\ pc[0] = "top" /\ pc'[0] \in {"sync", "input"} /\ (pc'[0] = "input" => ~MultiThread)
        /\ \A c \in Child : pc'[c] = pc[c]
    BY <1>2, MasterGoes DEF TopOfFrame
  <2>3. AllEnabled' /\ TriggersByType' /\ Handshake'
    BY <2>1, <2>2, MasterHandshake
  <2>4. next_tics'[AdvanceJob] = next_tics[AdvanceJob]
    BY <1>2 DEF TopOfFrame, jobVars
  <2>5. AdvanceJobDue'
    BY <2>1, <2>2, <2>4 DEF SyncInv, AdvanceJobDue
  <2>6. CurrentTime'
    BY <2>1, <2>2 DEF SyncInv, CurrentTime
  <2>7. Phases'
    <3>1. \A c \in Child : ProcessType[c] = "SCHEDULED" => child_complete[c]
      BY <2>2 DEF SyncInv, Phases, ScheduledDone
    <3>2. ii' = 1
      BY <1>2 DEF TopOfFrame
    <3>3. \A c \in Child : ~AmfDone(c)'
      BY <1>0, <2>2, <3>2 DEF AmfDone, MultiThread
    <3> QED
      BY <2>1, <3>1, <3>3 DEF Phases
  <2> QED
    BY <2>3, <2>5, <2>6, <2>7 DEF SyncInv
<1>3. CASE ThreadSync
  <2>1. UNCHANGED <<child_complete, trig, enabled, disabled, curr_time_tics, time_tics>>
    BY <1>3 DEF ThreadSync, childVars, jobVars, clockVars
  <2>2. /\ pc[0] = "sync" /\ pc'[0] \in {"sync", "mark"}
        /\ \A c \in Child : pc'[c] = pc[c]
    BY <1>3, MasterGoes DEF ThreadSync
  <2>3. AllEnabled' /\ TriggersByType' /\ Handshake'
    BY <2>1, <2>2, MasterHandshake
  <2>4. next_tics'[AdvanceJob] = next_tics[AdvanceJob]
    BY <1>3 DEF ThreadSync, jobVars
  <2>5. AdvanceJobDue'
    BY <2>1, <2>2, <2>4 DEF SyncInv, AdvanceJobDue
  <2>6. CurrentTime'
    BY <2>1, <2>2 DEF SyncInv, CurrentTime
  <2>7. Phases'
    <3>1. \A c \in Child : ProcessType[c] = "SCHEDULED" => child_complete[c]
      BY <2>2 DEF SyncInv, Phases, ScheduledDone
    <3>2. \A c \in Child : AmfDue(c)' => AmfDue(c)
      BY <1>3, <2>1 DEF ThreadSync, AmfDue, AsyncBehind, TypeOK, ChildrenOK
    <3>3. \A c \in Child : AmfDone(c)' => child_complete[c]
      <4>1. CASE ii <= NumChild /\ AsyncBehind(ii) /\ UNCHANGED <<pc, ii>>
        BY <2>2, <3>2, <4>1 DEF SyncInv, Phases, AmfDone
      <4>2. CASE ii <= NumChild /\ (AmfDue(ii) => child_complete[ii]) /\ ii' = ii + 1 /\ UNCHANGED pc
        BY <1>0, <2>2, <3>2, <4>2 DEF SyncInv, Phases, AmfDone
      <4>3. CASE ii > NumChild
        <5>1. \A c \in Child : c < ii
          BY <1>0, <4>3
        <5> QED
          BY <2>2, <3>2, <5>1 DEF SyncInv, Phases, AmfDone
      <4> QED
        BY <1>3, <4>1, <4>2, <4>3 DEF ThreadSync
    <3> QED
      BY <2>1, <3>1, <3>3 DEF Phases
  <2> QED
    BY <2>3, <2>5, <2>6, <2>7 DEF SyncInv
<1>4. CASE MarkIncomplete
  <2>1. UNCHANGED <<child_complete, trig, enabled, disabled, curr_time_tics, time_tics>>
    BY <1>4 DEF MarkIncomplete, childVars, jobVars, clockVars
  <2>2. /\ pc[0] = "mark" /\ pc'[0] \in {"mark", "input"}
        /\ \A c \in Child : pc'[c] = pc[c]
    BY <1>4, MasterGoes DEF MarkIncomplete
  <2>3. AllEnabled' /\ TriggersByType' /\ Handshake'
    BY <2>1, <2>2, MasterHandshake
  <2>4. next_tics'[AdvanceJob] = next_tics[AdvanceJob]
    BY <1>4 DEF MarkIncomplete
  <2>5. AdvanceJobDue'
    BY <2>1, <2>2, <2>4 DEF SyncInv, AdvanceJobDue
  <2>6. CurrentTime'
    BY <2>1, <2>2 DEF SyncInv, CurrentTime
  <2>7. Phases'
    <3>1. UNCHANGED amf_next_tics
      BY <1>4 DEF MarkIncomplete, childVars
    <3> QED
      BY <2>1, <2>2, <3>1 DEF SyncInv, Phases, ScheduledDone, AmfDone, AmfDue
  <2> QED
    BY <2>3, <2>5, <2>6, <2>7 DEF SyncInv
<1>5. CASE InputProcessorRun
  <2>1. UNCHANGED <<child_complete, trig, enabled, disabled, curr_time_tics, time_tics>>
    BY <1>5 DEF InputProcessorRun, childVars, jobVars, clockVars
  <2>2. /\ pc[0] = "input" /\ pc'[0] = "fire"
        /\ \A c \in Child : pc'[c] = pc[c]
    BY <1>5, MasterGoes DEF InputProcessorRun
  <2>3. AllEnabled' /\ TriggersByType' /\ Handshake'
    BY <2>1, <2>2, MasterHandshake
  <2>4. next_tics'[AdvanceJob] = next_tics[AdvanceJob]
    BY <1>5, AdvanceFacts DEF InputProcessorRun, TypeOK, JobsOK
  <2>5. AdvanceJobDue'
    BY <2>1, <2>2, <2>4 DEF SyncInv, AdvanceJobDue
  <2>6. CurrentTime'
    BY <2>1, <2>2 DEF SyncInv, CurrentTime
  <2>7. Phases'
    <3>1. UNCHANGED amf_next_tics
      BY <1>5 DEF InputProcessorRun, childVars
    <3> QED
      BY <2>1, <2>2, <3>1 DEF SyncInv, Phases, ScheduledDone, AmfDone, AmfDue
  <2> QED
    BY <2>3, <2>5, <2>6, <2>7 DEF SyncInv
<1>6. CASE ArmThread
  <2>1. /\ UNCHANGED <<trig, enabled, disabled, time_tics, next_tics, curr_job>>
        /\ pc[0] = "fire" /\ ii > 0
    BY <1>6 DEF ArmThread, jobVars, clockVars, callVars, TypeOK, MasterOK
  <2>2. CASE ii <= NumChild /\ ~isThreadReadyToRun(ii)
    <3>1. /\ UNCHANGED <<child_complete, curr_time_tics, amf_next_tics, pc, curr_index>>
          /\ ii' = ii + 1
      BY <1>0, <1>6, <2>2 DEF ArmThread
    <3>2. AllEnabled' /\ TriggersByType' /\ Handshake'
      BY <2>1, <3>1, MasterHandshake
    <3>3. AdvanceJobDue' /\ CurrentTime'
      BY <2>1, <3>1 DEF SyncInv, AdvanceJobDue, CurrentTime
    <3>4. Phases'
      BY <1>0, <2>1, <3>1 DEF SyncInv, Phases, ScheduledDone, AmfDone, AmfDue
    <3> QED
      BY <3>2, <3>3, <3>4 DEF SyncInv
  <2>3. CASE ii > NumChild
    <3>1. /\ UNCHANGED <<child_complete, curr_time_tics, amf_next_tics, ii>>
          /\ curr_index'[0] = 1 /\ pc'[0] = "sweep"
          /\ \A c \in Child : pc'[c] = pc[c]
      BY <1>0, <1>6, <2>3, MasterGoes, Threads DEF ArmThread, TypeOK, QueuesOK
    <3>2. AllEnabled' /\ TriggersByType' /\ Handshake'
      BY <2>1, <3>1, MasterHandshake
    <3>3. AdvanceJobDue' /\ CurrentTime'
      BY <2>1, <3>1 DEF SyncInv, AdvanceJobDue, CurrentTime
    <3>4. AdvanceAhead'
      BY <3>1, AdvanceFacts DEF AdvanceAhead
    <3>5. Phases'
      BY <3>1, <3>4 DEF Phases, ScheduledDone, AmfDone
    <3> QED
      BY <3>2, <3>3, <3>5 DEF SyncInv
  <2>4. CASE ii <= NumChild /\ isThreadReadyToRun(ii)
    <3>1. ii \in Child
      BY <1>0, <2>1, <2>4
    <3>2. /\ pc'[0] = "firing" /\ \A c \in Child : pc'[c] = pc[c]
          /\ child_complete' = [child_complete EXCEPT ![ii] = FALSE]
          /\ curr_time_tics' = [curr_time_tics EXCEPT ![ii] = time_tics]
          /\ UNCHANGED <<ii, curr_index>>
      BY <1>0, <1>6, <2>4, MasterGoes DEF ArmThread
    <3>3. /\ ~child_complete'[ii] /\ curr_time_tics'[ii] = time_tics
          /\ \A c \in Child : c # ii => /\ child_complete'[c] = child_complete[c]
                                        /\ curr_time_tics'[c] = curr_time_tics[c]
      BY <3>1, <3>2 DEF TypeOK, ChildrenOK
    <3>4. child_complete[ii]
      BY <1>0, <2>1, <2>4, <3>1 DEF isThreadReadyToRun, SyncInv, Phases, ScheduledDone, AmfDone, AmfDue
    <3>5. pc[ii] \in {"wait", "waiting"} /\ Quiet(ii)
      BY <2>1, <3>1, <3>4 DEF SyncInv, Handshake, InHand
    <3>6. AllEnabled' /\ TriggersByType' /\ AdvanceJobDue'
      BY <2>1, <3>2 DEF SyncInv, AllEnabled, TriggersByType, ByType, AdvanceJobDue
    <3>7. Handshake'
      BY <2>1, <3>2, <3>3, <3>5 DEF SyncInv, Handshake, InHand, Quiet, Armed, Running
    <3>8. CurrentTime'
      BY <2>1, <3>2, <3>3 DEF SyncInv, CurrentTime
    <3>9. Phases'
      <4>1. \A c \in Child : c > ii => c >= ii /\ c # ii
        BY <1>0
      <4>2. \A c \in Child : c # ii => amf_next_tics'[c] = amf_next_tics[c]
        BY <1>0, <1>6, <2>4 DEF ArmThread, TypeOK, ChildrenOK
      <4> QED
        BY <2>1, <3>2, <3>3, <4>1, <4>2 DEF SyncInv, Phases, ScheduledDone, AmfDone, AmfDue
    <3> QED
      BY <3>6, <3>7, <3>8, <3>9 DEF SyncInv
  <2> QED
    BY <1>0, <2>2, <2>3, <2>4
<1>7. CASE FireThread
  <2>1. /\ UNCHANGED <<child_complete, enabled, disabled, time_tics, next_tics, curr_time_tics,
                       amf_next_tics>>
        /\ pc[0] = "firing" /\ pc'[0] = "fire" /\ ii' = ii + 1 /\ Fire(ii)
        /\ \A c \in Child : pc'[c] = pc[c]
    BY <1>7, MasterGoes DEF FireThread, jobVars, clockVars, childVars
  <2>2. ii \in Child /\ Armed(ii)
    BY <2>1 DEF TypeOK, MasterOK, Armed
  <2>3. \A c \in Child : c # ii => trig'[c] = trig[c]
    BY <2>1, <2>2 DEF Fire, TypeOK, TriggerTypeOK
  <2>4. pc[ii] \in {"wait", "waiting"} /\ ~child_complete[ii]
    BY <2>2 DEF SyncInv, Handshake, InHand
  <2>5. /\ trig'[ii].flag => TriggerType[ii] = "TT_FLAG"
        /\ trig'[ii].efd > 0 => TriggerType[ii] = "TT_EVENTFD"
        /\ trig'[ii].wait = "signalled" => TriggerType[ii] \in {"TT_MUTEX", "TT_FUTEX"}
    BY <2>1, <2>2 DEF Fire, SyncInv, TriggersByType, ByType, TypeOK, TriggerTypeOK
  <2>6. AllEnabled' /\ TriggersByType' /\ AdvanceJobDue'
    BY <2>1, <2>3, <2>5 DEF SyncInv, AllEnabled, TriggersByType, ByType, AdvanceJobDue
  <2>7. Handshake'
    BY <2>1, <2>2, <2>3, <2>4 DEF SyncInv, Handshake, InHand, Quiet, Armed, Running
  <2>8. CurrentTime'
    BY <2>1 DEF SyncInv, CurrentTime
  <2>9. Phases'
    <3>1. \A c \in Child : c >= ii + 1 => c > ii
      BY <1>0
    <3> QED
      BY <2>1, <3>1 DEF SyncInv, Phases, ScheduledDone, AmfDone, AmfDue
  <2> QED
    BY <2>6, <2>7, <2>8, <2>9 DEF SyncInv
<1> QED
  BY <1>1, <1>2, <1>3, <1>4, <1>5, <1>6, <1>7

\* The sweep of the queue of the master, and the end of the process.
LEMMA SweepSyncStep ==
  ASSUME StaticThreads, TypeOK, SyncInv,
         \/ FindNextJob(0) \/ AwaitDepends(0) \/ ReturnFromJob(0) \/ ScheduledThreadSync
         \/ AdvanceSimTime \/ SchedFreezeToExecCommand \/ EndMainSweep \/ (Shutdown /\ ~UNCHANGED pc)
  PROVE  SyncInv'
<1>0. /\ NumChild \in Nat /\ ii \in 0 .. NumChild + 1 /\ Child = 1 .. NumChild
      /\ 0 \in Thread /\ curr_index \in [Thread -> Nat] /\ curr_job \in [Thread -> Job]
      /\ next_tics \in [Job -> Nat] /\ Len(JobQueue[0]) \in Nat
  BY TriggerAssumption, Threads, QueuedJobs DEF TypeOK, MasterOK, QueuesOK, JobsOK, Child
<1>1. CASE FindNextJob(0)
  <2> DEFINE j == JobQueue[0][curr_index[0]]
  <2>1. /\ UNCHANGED <<child_complete, trig, enabled, disabled, curr_time_tics, time_tics, ii>>
        /\ pc[0] = "sweep" /\ ~AtEnd(0) /\ curr_index'[0] = curr_index[0] + 1
    BY <1>0, <1>1 DEF FindNextJob, childVars, jobVars, clockVars
  <2>2. j = AdvanceJob => next_tics[j] = Now(0) /\ ~disabled[j]
    BY <2>1 DEF SyncInv, AdvanceJobDue, Now
  <2>3. \/ pc'[0] = "depend" /\ curr_job'[0] = j
        \/ pc'[0] = "sweep" /\ curr_job'[0] = curr_job[0] /\ j # AdvanceJob
    BY <1>0, <1>1, <2>1, <2>2, MasterGoes DEF FindNextJob, callVars
  <2>4. \A c \in Child : pc'[c] = pc[c]
    BY <1>1, MasterGoes DEF FindNextJob
  <2>5. next_tics'[AdvanceJob] = next_tics[AdvanceJob]
    BY <1>0, <1>1, AdvanceFacts DEF FindNextJob
  <2>6. AllEnabled' /\ TriggersByType' /\ Handshake'
    BY <2>1, <2>3, <2>4, MasterHandshake
  <2>7. AdvanceJobDue' /\ CurrentTime'
    BY <2>1, <2>3, <2>4, <2>5 DEF SyncInv, AdvanceJobDue, CurrentTime
  <2>8. AdvanceAhead => AdvanceAhead'
    <3>1. SUFFICES ASSUME NEW k \in curr_index[0] .. Len(JobQueue[0]), JobQueue[0][k] = AdvanceJob
                   PROVE  AdvanceAhead'
      BY <2>1 DEF AdvanceAhead
    <3>2. CASE k = curr_index[0]
      BY <2>3, <3>1, <3>2 DEF AdvanceAhead
    <3>3. CASE k # curr_index[0]
      <4>1. k \in curr_index'[0] .. Len(JobQueue[0])
        BY <1>0, <2>1, <3>3
      <4> QED
        BY <3>1, <4>1 DEF AdvanceAhead
    <3> QED
      BY <3>2, <3>3
  <2>9. Phases'
    BY <2>1, <2>3, <2>8 DEF SyncInv, Phases, ScheduledDone, AmfDone
  <2> QED
    BY <2>6, <2>7, <2>9 DEF SyncInv
<1>2. CASE AwaitDepends(0)
  <2>1. /\ UNCHANGED <<child_complete, trig, enabled, disabled, curr_time_tics, time_tics,
                       next_tics, curr_index, curr_job>>
        /\ pc[0] = "depend"
    BY <1>2 DEF AwaitDepends, childVars, jobVars, clockVars, queueVars
  <2>2. \/ pc' = pc /\ ii' = ii
        \/ pc'[0] = "call" /\ ii' = 1
    BY <1>2, MasterGoes DEF AwaitDepends
  <2>3. \A c \in Child : pc'[c] = pc[c]
    BY <1>2, MasterGoes DEF AwaitDepends
  <2>4. AllEnabled' /\ TriggersByType' /\ Handshake'
    BY <2>1, <2>2, <2>3, MasterHandshake
  <2>5. AdvanceJobDue' /\ CurrentTime'
    BY <2>1, <2>2, <2>3 DEF SyncInv, AdvanceJobDue, CurrentTime
  <2>6. AdvanceAhead => AdvanceAhead'
    BY <2>1, <2>2 DEF AdvanceAhead
  <2>7. \A c \in Child : ~(c < 1)
    BY <1>0
  <2>8. Phases'
    BY <2>1, <2>2, <2>6, <2>7 DEF SyncInv, Phases, ScheduledDone, AmfDone
  <2> QED
    BY <2>4, <2>5, <2>8 DEF SyncInv
<1>3. CASE ReturnFromJob(0) \/ SchedFreezeToExecCommand
  <2>1. /\ UNCHANGED <<child_complete, trig, enabled, disabled, curr_time_tics, time_tics,
                       curr_index, curr_job>>
        /\ pc[0] = "call" /\ pc'[0] = "sweep" /\ \A c \in Child : pc'[c] = pc[c]
    BY <1>3, MasterGoes DEF ReturnFromJob, SchedFreezeToExecCommand, childVars, clockVars, callVars
  <2>2. curr_job[0] # AdvanceJob
    BY <1>3, AdvanceFacts DEF ReturnFromJob, SchedFreezeToExecCommand
  <2>3. next_tics'[AdvanceJob] = next_tics[AdvanceJob]
    BY <1>0, <1>3, <2>2, AdvanceFacts DEF ReturnFromJob, SchedFreezeToExecCommand
  <2>4. AllEnabled' /\ TriggersByType' /\ Handshake'
    BY <2>1, MasterHandshake
  <2>5. AdvanceJobDue' /\ CurrentTime'
    BY <2>1, <2>3 DEF SyncInv, AdvanceJobDue, CurrentTime
  <2>6. AdvanceAhead => AdvanceAhead'
    BY <2>1, <2>2 DEF AdvanceAhead
  <2>7. Phases'
    BY <2>1, <2>2, <2>6 DEF SyncInv, Phases, ScheduledDone, AmfDone
  <2> QED
    BY <2>4, <2>5, <2>7 DEF SyncInv
<1>4. CASE ScheduledThreadSync
  <2>1. /\ UNCHANGED <<child_complete, trig, enabled, disabled, curr_time_tics, time_tics,
                       next_tics, curr_index, curr_job, pc>>
        /\ pc[0] = "call" /\ curr_job[0] = AdvanceJob /\ ii <= NumChild /\ ii' = ii + 1
    BY <1>4 DEF ScheduledThreadSync, childVars, jobVars, clockVars, queueVars, callVars
  <2>2. ii \in Child
    BY <1>0, <2>1 DEF SyncInv, AdvanceJobDue
  <2>3. ProcessType[ii] = "SCHEDULED" => child_complete[ii]
    BY <1>4, <2>2 DEF ScheduledThreadSync, MustSync, SyncInv, AllEnabled
  <2>4. AllEnabled' /\ TriggersByType' /\ Handshake'
    BY <2>1, MasterHandshake
  <2>5. AdvanceJobDue' /\ CurrentTime'
    BY <1>0, <2>1 DEF SyncInv, AdvanceJobDue, CurrentTime
  <2>6. \A c \in Child : c < ii + 1 => c < ii \/ c = ii
    BY <1>0
  <2>7. AdvanceAhead => AdvanceAhead'
    BY <2>1 DEF AdvanceAhead
  <2>8. Phases'
    BY <2>1, <2>3, <2>6, <2>7 DEF SyncInv, Phases, ScheduledDone, AmfDone
  <2> QED
    BY <2>4, <2>5, <2>8 DEF SyncInv
<1>5. CASE AdvanceSimTime
  <2>1. /\ UNCHANGED <<child_complete, trig, enabled, disabled, curr_index, curr_job>>
        /\ pc[0] = "call" /\ curr_job[0] = AdvanceJob /\ ii > NumChild
        /\ pc'[0] = "sweep" /\ \A c \in Child : pc'[c] = pc[c]
    BY <1>5, MasterGoes DEF AdvanceSimTime, childVars, callVars
  <2>2. next_tics'[AdvanceJob] = time_tics'
    BY <1>0, <1>5, AdvanceFacts DEF AdvanceSimTime
  <2>3. \A c \in Child : c < ii
    BY <1>0, <2>1
  <2>4. \A c \in Child : ProcessType[c] = "SCHEDULED" => child_complete[c]
    BY <2>1, <2>3 DEF SyncInv, Phases, ScheduledDone
  <2>5. AllEnabled' /\ TriggersByType' /\ Handshake'
    BY <2>1, MasterHandshake
  <2>6. AdvanceJobDue'
    BY <2>1, <2>2 DEF SyncInv, AdvanceJobDue
  <2>7. CurrentTime'
    BY <2>1, <2>4 DEF CurrentTime
  <2>8. Phases'
    BY <2>1, <2>4 DEF Phases, AmfDone
  <2> QED
    BY <2>5, <2>6, <2>7, <2>8 DEF SyncInv
<1>6. CASE EndMainSweep
  <2>1. /\ UNCHANGED <<child_complete, trig, enabled, disabled, curr_time_tics, time_tics,
                       next_tics>>
        /\ pc[0] = "sweep" /\ AtEnd(0) /\ pc'[0] = "check" /\ \A c \in Child : pc'[c] = pc[c]
    BY <1>6, MasterGoes DEF EndMainSweep, childVars, jobVars, clockVars
  <2>2. ~AdvanceAhead
    BY <1>0, <2>1 DEF AdvanceAhead, AtEnd, QueueEnd
  <2>3. \A c \in Child : ProcessType[c] = "SCHEDULED" => child_complete[c]
    BY <2>1, <2>2 DEF SyncInv, Phases, ScheduledDone
  <2>4. AllEnabled' /\ TriggersByType' /\ Handshake'
    BY <2>1, MasterHandshake
  <2>5. AdvanceJobDue' /\ CurrentTime'
    BY <2>1 DEF SyncInv, AdvanceJobDue, CurrentTime
  <2>6. Phases'
    BY <2>1, <2>3 DEF Phases, AmfDone
  <2> QED
    BY <2>4, <2>5, <2>6 DEF SyncInv
<1>7. CASE Shutdown /\ ~UNCHANGED pc
  <2>1. /\ UNCHANGED <<child_complete, trig, enabled, disabled, curr_time_tics, time_tics>>
        /\ pc[0] = "shutdown" /\ pc'[0] = "done" /\ \A c \in Child : pc'[c] = "cancelled"
    BY <1>0, <1>7, Threads DEF Shutdown, childVars, jobVars, clockVars
  <2>2. \A c \in Child : ProcessType[c] = "SCHEDULED" => child_complete[c]
    BY <2>1 DEF SyncInv, Phases, ScheduledDone
  <2>3. AllEnabled' /\ TriggersByType' /\ AdvanceJobDue'
    BY <2>1 DEF SyncInv, AllEnabled, TriggersByType, ByType, AdvanceJobDue
  <2>4. Handshake'
    BY <2>1 DEF SyncInv, Handshake, InHand, Quiet, Armed, Running
  <2>5. CurrentTime'
    BY <2>1, <2>2 DEF CurrentTime
  <2>6. Phases'
    BY <2>1, <2>2 DEF Phases, AmfDone
  <2> QED
    BY <2>3, <2>4, <2>5, <2>6 DEF SyncInv
<1> QED
  BY <1>1, <1>2, <1>3, <1>4, <1>5, <1>6, <1>7

--------------------------------------------------------------------------------
(***************************************************************************)
(* The theorems.                                                           *)
(***************************************************************************)
\* The initial state.
LEMMA SyncInit ==
  ASSUME Init
  PROVE  SyncInv
<1>1. /\ \A c \in Child : /\ enabled[c] /\ ~child_complete[c] /\ pc[c] = "start"
                          /\ trig[c].wait = "new" /\ ~trig[c].flag /\ trig[c].efd = 0
      /\ ii = 1 /\ pc[0] \in {"init", "loop"}
      /\ ~disabled[AdvanceJob] /\ next_tics[AdvanceJob] = time_tics
  BY Threads, AdvanceFacts DEF Init, TriggerInit
<1>2. AllEnabled /\ AdvanceJobDue /\ TriggersByType /\ Handshake /\ CurrentTime
  BY <1>1 DEF AllEnabled, AdvanceJobDue, TriggersByType, ByType, Handshake, InHand, CurrentTime, Quiet, Armed, Running
<1>3. pc[0] = "loop" => Child = {}
  BY Threads, TriggerAssumption DEF Init, MultiThread, Child
<1>4. \A c \in Child : ~(c < 1)
  BY TriggerAssumption DEF Child
<1>5. Phases
  BY <1>1, <1>3, <1>4 DEF Phases, ScheduledDone, AmfDone
<1> QED
  BY <1>2, <1>5 DEF SyncInv

\* Every step keeps the invariant.
LEMMA SyncStep ==
  ASSUME StaticThreads, TypeOK, SyncInv, [Next]_vars
  PROVE  SyncInv'
<1>1. CASE UNCHANGED vars
  BY <1>1, SyncFrame DEF vars, clockVars, modeVars, jobVars, queueVars, callVars, childVars
<1>2. CASE MainStep
  BY <1>2, OutsideSyncStep, FireSyncStep, SweepSyncStep DEF MainStep
<1> QED
  BY <1>1, <1>2, ChildSyncStep, CommandSyncStep DEF Next, Ended

\* The invariant holds in every run in which the threads stay enabled and no wait
\* returns without a signal.
THEOREM SyncInvariant == ASSUME StaticThreads PROVE Spec => []SyncInv
<1>1. Init => SyncInv
  BY SyncInit
<1>2. TypeOK /\ SyncInv /\ [Next]_vars => SyncInv'
  BY SyncStep
<1> QED
  BY <1>1, <1>2, TypeCorrect, PTL DEF Spec

\* A scheduled thread that runs has the time of the master: scheduled_thread_sync
\* waits for it before advance_sim_time moves the time.
THEOREM ScheduledTime == ASSUME StaticThreads PROVE Spec => []ScheduledTimeMatches
<1>1. SyncInv => ScheduledTimeMatches
  BY DEF SyncInv, ScheduledTimeMatches, CurrentTime, Handshake, InHand, Running
<1> QED
  BY <1>1, SyncInvariant, PTL

\* The master calls the top and end of frame jobs of a scheduled thread only while
\* that thread is idle.
THEOREM FrameJobs == ASSUME StaticThreads PROVE Spec => []FrameJobsAlone
<1>1. SyncInv => FrameJobsAlone
  BY DEF SyncInv, FrameJobsAlone, Phases, ScheduledDone, Handshake, InHand, Running
<1> QED
  BY <1>1, SyncInvariant, PTL

\* The master overwrites the time and the completion flag of a thread, of any
\* process type, only while the thread is out of its jobs.
THEOREM ArmedIdle == ASSUME StaticThreads PROVE Spec => ArmedWhenIdle
<1>1. TypeOK /\ SyncInv /\ SyncInv' /\ [Next]_vars
        => [pc[0] = "fire" /\ pc'[0] = "firing" => ~Running(ii)]_vars
  <2> SUFFICES ASSUME TypeOK, SyncInv, SyncInv', Next, pc[0] = "fire", pc'[0] = "firing"
               PROVE  ~Running(ii)
    OBVIOUS
  <2>1. ASSUME NEW c \in Child, ChildStep(c)
        PROVE  FALSE
    <3>1. ControlOK
      BY DEF TypeOK
    <3>2. UNCHANGED pc \/ \E l \in ChildPC : Goto(c, l)
      BY <2>1 DEF ChildStep, ChildStart, ChildWait, Dispatch, CatchUp, FindNextJob, GetNextJob,
                  AwaitDepends, ReturnFromJob, EndChildSweep, ChildComplete, ChildPC
    <3>3. pc'[0] = pc[0]
      BY <3>1, <3>2, ChildMoves
    <3> QED
      BY <3>3
  <2>2. ~CommandStep
    BY DEF CommandStep, Freeze, FreezeAt, Run, StopCmd, SetJobOnOff, SetThreadEnabled, SetJobCycle,
           Command
  <2>3. ArmThread
    <3>1. MainStep
      BY <2>1, <2>2 DEF Next, Ended
    <3> QED
      BY <3>1 DEF MainStep, AwaitChildren, TestFreezeCmd, EnterFreeze, FreezeLoop,
        ClearFreezeLoopCmd, LeaveFreeze, TopOfFrame, ThreadSync, MarkIncomplete, InputProcessorRun,
        FireThread, FindNextJob, AwaitDepends, ReturnFromJob, ScheduledThreadSync, AdvanceSimTime,
        SchedFreezeToExecCommand, EndMainSweep, CheckCommand, ClearRunCmd, CheckTerminate,
        EndOfFrame, Shutdown
  <2>4. /\ ii \in Child /\ ii' = ii
        /\ \A c \in Child : pc'[c] = pc[c]
    <3>1. Goto(0, "firing") /\ ii' = ii /\ ii <= NumChild
      <4>1. CASE Goto(0, "sweep")
        BY <4>1, MasterGoes
      <4> QED
        BY <2>3, <4>1 DEF ArmThread
    <3>2. ii \in Child
      BY <3>1, TriggerAssumption DEF TypeOK, MasterOK, Child
    <3> QED
      BY <3>1, <3>2, MasterGoes
  <2> QED
    BY <2>4 DEF SyncInv, Handshake, InHand, Armed, Running
<1> QED
  BY <1>1, TypeCorrect, SyncInvariant, PTL DEF Spec, ArmedWhenIdle

--------------------------------------------------------------------------------
(***************************************************************************)
(* The threads that do not keep step with the master.  A thread may be     *)
(* disabled here, so none of this follows from the invariant above.        *)
(***************************************************************************)
\* What is known of a thread is about these variables.
LEMMA ApartFrame ==
  ASSUME NEW c \in Child, ByType(c), InHand(c), Joined(c),
         trig'[c] = trig[c], child_complete'[c] = child_complete[c], pc'[c] = pc[c],
         amf_next_tics'[c] = amf_next_tics[c], UNCHANGED <<time_tics, ii>>, pc'[0] = pc[0]
  PROVE  ByType(c)' /\ InHand(c)' /\ Joined(c)'
<1>1. ByType(c)'
  BY DEF ByType
<1>2. InHand(c)'
  BY DEF InHand, Quiet, Armed, Running
<1>3. Joined(c)'
  BY DEF Joined, AmfDone, AmfDue
<1> QED
  BY <1>1, <1>2, <1>3

\* A child moves its own program counter, and is alone in that.
LEMMA ChildAlone ==
  ASSUME TypeOK, NEW d \in Child, ChildStep(d)
  PROVE  /\ pc'[0] = pc[0] /\ UNCHANGED <<clockVars, enabled, ii, amf_next_tics>>
         /\ \A c \in Child : c # d =>
              /\ pc'[c] = pc[c] /\ trig'[c] = trig[c] /\ child_complete'[c] = child_complete[c]
              /\ curr_time_tics'[c] = curr_time_tics[c]
              /\ curr_index'[c] = curr_index[c] /\ next_job_time'[c] = next_job_time[c]
<1>0. d \in Thread /\ d # 0 /\ \A c \in Child : c \in Thread
  BY Threads
<1>1. UNCHANGED pc \/ \E l \in ChildPC : Goto(d, l)
  BY DEF ChildStep, ChildStart, ChildWait, Dispatch, CatchUp, FindNextJob, GetNextJob,
         AwaitDepends, ReturnFromJob, EndChildSweep, ChildComplete, ChildPC
<1>2. pc'[0] = pc[0] /\ \A c \in Child : c # d => pc'[c] = pc[c]
  BY <1>0, <1>1, ChildMoves, Threads DEF TypeOK
<1>3. UNCHANGED <<clockVars, enabled, ii, amf_next_tics>>
  BY <1>0 DEF ChildStep, ChildStart, ChildWait, Dispatch, CatchUp, FindNextJob, GetNextJob,
         AwaitDepends, ReturnFromJob, EndChildSweep, ChildComplete, childVars
<1>4. \A c \in Child : c # d => trig'[c] = trig[c] /\ child_complete'[c] = child_complete[c]
  BY DEF ChildStep, ChildStart, ChildWait, Dispatch, CatchUp, FindNextJob, GetNextJob,
         AwaitDepends, ReturnFromJob, EndChildSweep, ChildComplete, childVars, InitTrigger,
         EnterWait, LeaveWait, TypeOK, TriggerTypeOK, ChildrenOK
<1>5. \A c \in Child : c # d => curr_time_tics'[c] = curr_time_tics[c]
  BY DEF ChildStep, ChildStart, ChildWait, Dispatch, CatchUp, FindNextJob, GetNextJob,
         AwaitDepends, ReturnFromJob, EndChildSweep, ChildComplete, childVars, TypeOK, ChildrenOK
<1>6. curr_index' = curr_index \/ \E n \in Nat : curr_index' = [curr_index EXCEPT ![d] = n]
  BY <1>0 DEF ChildStep, ChildStart, ChildWait, Dispatch, CatchUp, FindNextJob, GetNextJob,
         AwaitDepends, ReturnFromJob, EndChildSweep, ChildComplete, queueVars, TypeOK, QueuesOK
<1>7. next_job_time' = next_job_time \/ \E n : next_job_time' = [next_job_time EXCEPT ![d] = n]
  BY DEF ChildStep, ChildStart, ChildWait, Dispatch, CatchUp, FindNextJob, GetNextJob,
         AwaitDepends, ReturnFromJob, EndChildSweep, ChildComplete, queueVars
<1>8. \A c \in Child : c # d =>
        curr_index'[c] = curr_index[c] /\ next_job_time'[c] = next_job_time[c]
  BY <1>0, <1>6, <1>7 DEF TypeOK, QueuesOK
<1> QED
  BY <1>2, <1>3, <1>4, <1>5, <1>8

\* No wait returns without a signal, so a child that starts had been armed and fired.
LEMMA ChildApart ==
  ASSUME ~SpuriousWakeups, TypeOK, NEW d \in Child, ChildStep(d),
         ByType(d), InHand(d), Joined(d)
  PROVE  ByType(d)' /\ InHand(d)' /\ Joined(d)'
<1>0. /\ pc \in [Thread -> MainPC \cup ChildPC] /\ d \in Thread /\ d # 0
      /\ pc'[0] = pc[0] /\ UNCHANGED <<time_tics, ii, amf_next_tics>>
  BY Threads, ChildAlone DEF TypeOK, ControlOK, clockVars
<1>1. CASE ChildStart(d)
  <2>1. child_complete'[d] /\ pc'[d] = "wait" /\ pc[d] = "start"
    BY <1>0, <1>1 DEF ChildStart, Goto, TypeOK, ChildrenOK
  <2>2. trig'[d].wait = "out" /\ trig'[d].flag = trig[d].flag /\ trig'[d].efd = trig[d].efd
    BY <1>1 DEF ChildStart, InitTrigger, TypeOK, TriggerTypeOK
  <2>3. ~Armed(d)
    BY <2>1 DEF InHand
  <2> QED
    BY <1>0, <2>1, <2>2, <2>3 DEF ByType, InHand, Joined, AmfDone, AmfDue, Quiet, Armed, Running
<1>2. CASE pc[d] = "wait" /\ EnterWait(d) /\ Goto(d, "waiting") /\ ChildWait(d)
  <2>1. child_complete'[d] = child_complete[d] /\ pc'[d] = "waiting" /\ pc[d] = "wait"
    BY <1>0, <1>2 DEF ChildWait, Goto, childVars
  <2>2. trig'[d].wait = "in" /\ trig'[d].flag = trig[d].flag /\ trig'[d].efd = trig[d].efd
    BY <1>2 DEF EnterWait, TypeOK, TriggerTypeOK
  <2> QED
    BY <1>0, <2>1, <2>2 DEF ByType, InHand, Joined, AmfDone, AmfDue, Quiet, Armed, Running
<1>3. CASE pc[d] = "waiting" /\ LeaveWait(d) /\ Goto(d, "dispatch") /\ ChildWait(d)
  <2>1. child_complete'[d] = child_complete[d] /\ pc'[d] = "dispatch" /\ pc[d] = "waiting"
    BY <1>0, <1>3 DEF ChildWait, Goto, childVars
  <2>2. ~Quiet(d)
    BY <1>3 DEF LeaveWait, Quiet, TypeOK, TriggerTypeOK
  <2>3. ~child_complete[d] /\ ~Armed(d)
    BY <2>2 DEF InHand
  <2>4. Quiet(d)'
    <3>1. CASE TriggerType[d] \in {"TT_MUTEX", "TT_FUTEX"}
      BY <1>3, <3>1 DEF LeaveWait, Quiet, ByType, TypeOK, TriggerTypeOK
    <3>2. CASE TriggerType[d] = "TT_FLAG"
      BY <1>3, <3>2 DEF LeaveWait, Quiet, ByType, TypeOK, TriggerTypeOK
    <3>3. CASE TriggerType[d] = "TT_EVENTFD"
      BY <1>3, <3>3 DEF LeaveWait, Quiet, ByType, TypeOK, TriggerTypeOK
    <3> QED
      BY <3>1, <3>2, <3>3, TriggerAssumption DEF TriggerKind
  <2>5. ByType(d)'
    BY <2>4 DEF ByType, Quiet
  <2> QED
    BY <1>0, <2>1, <2>3, <2>4, <2>5 DEF InHand, Joined, AmfDone, AmfDue, Armed, Running
<1>4. CASE ChildComplete(d)
  <2>1. /\ child_complete'[d] /\ pc'[d] = "wait" /\ pc[d] = "complete" /\ trig' = trig
    BY <1>0, <1>4 DEF ChildComplete, Goto, TypeOK, ChildrenOK
  <2> QED
    BY <1>0, <2>1 DEF ByType, InHand, Joined, AmfDone, AmfDue, Quiet, Armed, Running
<1>5. CASE \/ Dispatch(d) \/ CatchUp(d) \/ FindNextJob(d) \/ GetNextJob(d)
           \/ AwaitDepends(d) \/ ReturnFromJob(d) \/ EndChildSweep(d)
  <2>1. Running(d) /\ UNCHANGED <<child_complete, trig>>
    BY <1>5 DEF Dispatch, CatchUp, FindNextJob, GetNextJob, AwaitDepends, ReturnFromJob,
                EndChildSweep, Running, childVars
  <2>2. \/ UNCHANGED pc
        \/ \E l \in {"catchup", "sweep", "depend", "call", "complete"} : Goto(d, l)
    BY <1>5 DEF Dispatch, CatchUp, FindNextJob, GetNextJob, AwaitDepends, ReturnFromJob,
                EndChildSweep
  <2>3. Running(d)'
    BY <1>0, <2>1, <2>2 DEF Goto, Running
  <2> QED
    BY <1>0, <2>1, <2>3 DEF ByType, InHand, Joined, AmfDone, AmfDue, Quiet, Armed, Running
<1> QED
  BY <1>1, <1>2, <1>3, <1>4, <1>5 DEF ChildStep, ChildWait

\* What most steps of the master do to the threads: nothing.  They neither come to a place
\* where more is known of a thread, nor to the end, and shutdown waits for one thread after
\* the other.
MasterPass ==
  /\ UNCHANGED <<childVars, trig>>
  /\ pc[0] # "done" /\ pc'[0] \notin {"firing", "done"}
  /\ \A c \in Child :
       /\ pc'[c] = pc[c]
       /\ AmfDone(c)' => AmfDone(c)
       /\ pc'[0] = "shutdown" /\ c < ii' /\ AwaitAtShutdown(c)
            => child_complete[c] \/ (pc[0] = "shutdown" /\ c < ii)

\* All steps of the master but four do nothing to the children and their triggers.
LEMMA MasterPasses ==
  ASSUME TypeOK, MainStep
  PROVE  ThreadSync \/ ArmThread \/ FireThread \/ (Shutdown /\ ii > NumChild) \/ MasterPass
<1>0. \A c \in Child : ~(c < 1) /\ (~MultiThread => FALSE)
  BY TriggerAssumption DEF Child, MultiThread
<1>1. CASE AwaitChildren
  <2>1. UNCHANGED <<childVars, trig>> /\ pc[0] = "init" /\ pc'[0] \in {"init", "loop"}
        /\ \A c \in Child : pc'[c] = pc[c]
    BY <1>1, MasterGoes DEF AwaitChildren
  <2> QED
    BY <2>1 DEF MasterPass, AmfDone
<1>2. CASE TestFreezeCmd \/ EnterFreeze \/ ClearFreezeLoopCmd \/ ClearRunCmd \/ EndOfFrame \/ EndMainSweep
  <2>1. /\ UNCHANGED <<childVars, trig>> /\ pc[0] # "done" /\ \A c \in Child : pc'[c] = pc[c]
        /\ pc'[0] \in {"clear", "top", "freeze", "unfreeze", "term", "loop", "check"}
    BY <1>2, MasterGoes DEF TestFreezeCmd, EnterFreeze, ClearFreezeLoopCmd, ClearRunCmd, EndOfFrame,
                            EndMainSweep
  <2> QED
    BY <2>1 DEF MasterPass, AmfDone
<1>3. CASE FreezeLoop \/ LeaveFreeze \/ CheckCommand \/ CheckTerminate
  <2>1. /\ UNCHANGED <<childVars, trig>> /\ pc[0] # "done" /\ \A c \in Child : pc'[c] = pc[c]
        /\ pc'[0] \in {"freeze", "resume", "refreeze", "shutdown", "top", "clearrun", "term", "eof"}
        /\ ii' = 1
    BY <1>3, MasterGoes DEF FreezeLoop, LeaveFreeze, CheckCommand, CheckTerminate
  <2> QED
    BY <1>0, <2>1 DEF MasterPass, AmfDone
<1>4. CASE TopOfFrame
  <2>1. /\ UNCHANGED <<childVars, trig>> /\ pc[0] = "top" /\ \A c \in Child : pc'[c] = pc[c]
        /\ pc'[0] = (IF MultiThread THEN "sync" ELSE "input") /\ ii' = 1
    BY <1>4, MasterGoes DEF TopOfFrame
  <2> QED
    BY <1>0, <2>1 DEF MasterPass, AmfDone
<1>5. CASE MarkIncomplete
  <2>1. /\ UNCHANGED <<childVars, trig, time_tics>> /\ pc[0] = "mark"
        /\ \A c \in Child : pc'[c] = pc[c]
        /\ pc'[0] \in {"mark", "input"}
    BY <1>5, MasterGoes DEF MarkIncomplete, clockVars
  <2> QED
    BY <2>1 DEF MasterPass, AmfDone, AmfDue, childVars
<1>6. CASE InputProcessorRun
  <2>1. /\ UNCHANGED <<childVars, trig, time_tics>> /\ pc[0] = "input"
        /\ \A c \in Child : pc'[c] = pc[c]
        /\ pc'[0] = "fire"
    BY <1>6, MasterGoes DEF InputProcessorRun, clockVars
  <2> QED
    BY <2>1 DEF MasterPass, AmfDone, AmfDue, childVars
<1>7. CASE FindNextJob(0) \/ AwaitDepends(0) \/ ReturnFromJob(0) \/ AdvanceSimTime
           \/ SchedFreezeToExecCommand \/ ScheduledThreadSync
  <2>1. /\ UNCHANGED <<childVars, trig>> /\ pc[0] \in {"sweep", "depend", "call"}
        /\ \A c \in Child : pc'[c] = pc[c]
        /\ pc'[0] \in {"sweep", "depend", "call"}
    BY <1>7, MasterGoes DEF FindNextJob, AwaitDepends, ReturnFromJob, AdvanceSimTime,
                            SchedFreezeToExecCommand, ScheduledThreadSync
  <2> QED
    BY <2>1 DEF MasterPass, AmfDone
<1>8. CASE Shutdown /\ ~(ii > NumChild)
  <2>1. /\ UNCHANGED <<childVars, trig, pc>> /\ pc[0] = "shutdown"
        /\ ii' = ii + 1 /\ (AwaitAtShutdown(ii) => child_complete[ii])
    BY <1>8 DEF Shutdown
  <2>2. \A c \in Child : c < ii + 1 => c < ii \/ c = ii
    BY TriggerAssumption DEF TypeOK, MasterOK, Child
  <2>3. \A c \in Child : c < ii' /\ AwaitAtShutdown(c) => child_complete[c] \/ c < ii
    BY <2>1, <2>2
  <2>4. \A c \in Child : pc'[c] = pc[c] /\ ~AmfDone(c)'
    BY <2>1 DEF AmfDone
  <2>5. pc[0] = "shutdown" /\ pc'[0] = "shutdown" /\ UNCHANGED <<childVars, trig>>
    BY <2>1
  <2> QED
    BY <2>3, <2>4, <2>5 DEF MasterPass
<1> QED
  BY <1>1, <1>2, <1>3, <1>4, <1>5, <1>6, <1>7, <1>8 DEF MainStep

\* thread_sync waits for the AMF threads that are due, fire_thread arms and fires an idle
\* thread, and the master does not pass an AMF thread that is due on its way there.
LEMMA MasterApart ==
  ASSUME TypeOK, MainStep, NEW c \in Child, Apart(c), ByType(c), InHand(c), Joined(c)
  PROVE  ByType(c)' /\ InHand(c)' /\ Joined(c)'
<1>0. /\ NumChild \in Nat /\ ii \in 0 .. NumChild + 1 /\ Child = 1 .. NumChild /\ c \in Nat
      /\ ProcessType[c] \in {"ASYNC", "AMF"}
  BY TriggerAssumption, ExecutiveAssumption
  DEF TypeOK, MasterOK, Child, Apart, ExecutiveAssumption, ProcessKind
<1>1. CASE MasterPass
  <2>1. /\ pc'[c] = pc[c] /\ trig'[c] = trig[c] /\ child_complete'[c] = child_complete[c]
        /\ pc[0] # "done" /\ pc'[0] # "firing"
    BY <1>1 DEF MasterPass, childVars
  <2>2. ByType(c)' /\ InHand(c)'
    BY <2>1 DEF ByType, InHand, Quiet, Armed, Running
  <2>3. Joined(c)'
    BY <1>1, <2>1 DEF MasterPass, Joined, AwaitAtShutdown, Apart
  <2> QED
    BY <2>2, <2>3
<1>2. CASE ThreadSync
  <2>1. /\ UNCHANGED <<child_complete, trig, time_tics>> /\ pc[0] = "sync"
        /\ pc'[0] \in {"sync", "mark"} /\ pc'[c] = pc[c]
    BY <1>2, MasterGoes DEF ThreadSync, clockVars
  <2>2. ByType(c)' /\ InHand(c)'
    BY <2>1 DEF ByType, InHand, Quiet, Armed, Running
  <2>3. AmfDone(c)' => child_complete[c]
    <3>1. CASE ii <= NumChild /\ AsyncBehind(ii)
      <4>1. /\ amf_next_tics' = [amf_next_tics EXCEPT ![ii] = @ + AmfCycle[ii]]
            /\ UNCHANGED <<pc, ii>> /\ ProcessType[ii] = "ASYNC"
        BY <1>0, <1>2, <3>1 DEF ThreadSync, AsyncBehind
      <4>2. ProcessType[c] = "AMF" => amf_next_tics'[c] = amf_next_tics[c]
        BY <4>1 DEF TypeOK, ChildrenOK
      <4> QED
        BY <2>1, <4>1, <4>2 DEF AmfDone, AmfDue, Joined
    <3>2. CASE ii <= NumChild /\ ~AsyncBehind(ii)
      <4>1. ii' = ii + 1 /\ UNCHANGED <<pc, amf_next_tics>> /\ (AmfDue(ii) => child_complete[ii])
        BY <1>0, <1>2, <3>2 DEF ThreadSync
      <4>2. c < ii + 1 => c < ii \/ c = ii
        BY <1>0
      <4> QED
        BY <2>1, <4>1, <4>2 DEF AmfDone, AmfDue, Joined
    <3>3. CASE ii > NumChild
      <4>1. UNCHANGED amf_next_tics /\ c < ii
        BY <1>0, <1>2, <3>3 DEF ThreadSync
      <4> QED
        BY <2>1, <4>1 DEF AmfDone, AmfDue, Joined
    <3> QED
      BY <1>0, <3>1, <3>2, <3>3
  <2> QED
    BY <2>1, <2>2, <2>3 DEF Joined
<1>3. CASE ArmThread
  <2>1. /\ UNCHANGED <<trig, time_tics>> /\ pc[0] = "fire"
        /\ pc'[0] \in {"fire", "firing", "sweep"} /\ pc'[c] = pc[c]
    BY <1>3, MasterGoes DEF ArmThread, clockVars
  <2>2. CASE ii <= NumChild /\ isThreadReadyToRun(ii)
    <3>1. /\ child_complete' = [child_complete EXCEPT ![ii] = FALSE]
          /\ amf_next_tics' = [amf_next_tics EXCEPT ![ii] = @ + AmfCycle[ii]]
          /\ pc'[0] = "firing" /\ ii' = ii
      BY <1>0, <1>3, <2>2, MasterGoes DEF ArmThread
    <3>2. CASE ii = c
      <4>1. child_complete[c]
        BY <1>0, <2>1, <2>2, <3>2 DEF Joined, AmfDone, AmfDue, isThreadReadyToRun
      <4>2. ~child_complete'[c] /\ pc[c] \in {"wait", "waiting"} /\ Quiet(c)
        BY <2>1, <3>1, <3>2, <4>1 DEF InHand, TypeOK, ChildrenOK
      <4>3. ~AmfDone(c)'
        BY <1>0, <3>1, <3>2 DEF AmfDone
      <4> QED
        BY <2>1, <3>1, <3>2, <4>2, <4>3 DEF ByType, InHand, Joined, Quiet, Armed, Running
    <3>3. CASE ii # c
      <4>1. child_complete'[c] = child_complete[c] /\ amf_next_tics'[c] = amf_next_tics[c]
        BY <3>1, <3>3 DEF TypeOK, ChildrenOK
      <4>2. (c > ii => c >= ii) /\ (c >= ii => c > ii)
        BY <1>0, <3>3
      <4> QED
        BY <2>1, <3>1, <3>3, <4>1, <4>2
        DEF ByType, InHand, Joined, AmfDone, AmfDue, Quiet, Armed, Running
    <3> QED
      BY <3>2, <3>3
  <2>3. CASE ~(ii <= NumChild /\ isThreadReadyToRun(ii))
    <3>1. /\ UNCHANGED <<child_complete, amf_next_tics>>
          /\ \/ pc'[0] = "fire" /\ ii' = ii + 1
             \/ pc'[0] = "sweep"
      BY <1>3, <2>1, <2>3, MasterGoes DEF ArmThread
    <3>2. c >= ii + 1 => c >= ii
      BY <1>0
    <3> QED
      BY <2>1, <3>1, <3>2 DEF ByType, InHand, Joined, AmfDone, AmfDue, Quiet, Armed, Running
  <2> QED
    BY <2>2, <2>3
<1>4. CASE FireThread
  <2>1. /\ UNCHANGED <<childVars, time_tics>> /\ pc[0] = "firing" /\ Fire(ii)
        /\ pc'[0] = "fire" /\ ii' = ii + 1 /\ pc'[c] = pc[c] /\ ii \in Child
    BY <1>4, MasterGoes DEF FireThread, clockVars, TypeOK, MasterOK
  <2>2. c >= ii + 1 => c > ii
    BY <1>0
  <2>3. Joined(c)'
    BY <2>1, <2>2 DEF Joined, AmfDone, AmfDue, childVars
  <2>4. CASE ii = c
    <3>1. pc[c] \in {"wait", "waiting"} /\ ~child_complete[c]
      BY <2>1, <2>4 DEF InHand, Armed
    <3>2. ByType(c)'
      BY <2>1, <2>4 DEF Fire, ByType, TypeOK, TriggerTypeOK
    <3>3. InHand(c)'
      BY <2>1, <3>1 DEF InHand, Armed, Running, childVars
    <3> QED
      BY <2>3, <3>2, <3>3
  <2>5. CASE ii # c
    <3>1. trig'[c] = trig[c]
      BY <2>1, <2>5 DEF Fire, TypeOK, TriggerTypeOK
    <3> QED
      BY <2>1, <2>3, <2>5, <3>1 DEF ByType, InHand, Quiet, Armed, Running, childVars
  <2> QED
    BY <2>4, <2>5
<1>5. CASE Shutdown /\ ii > NumChild
  <2>1. /\ UNCHANGED <<childVars, trig>> /\ pc'[0] = "done" /\ pc'[c] = "cancelled"
        /\ pc[0] = "shutdown"
    BY <1>0, <1>5, Threads DEF Shutdown
  <2> QED
    BY <2>1 DEF ByType, InHand, Joined, AmfDone, Quiet, Armed, Running, childVars
<1> QED
  BY <1>1, <1>2, <1>3, <1>4, <1>5, MasterPasses

\* The initial state.
LEMMA ApartInit ==
  ASSUME Init
  PROVE  ApartInv
<1> SUFFICES ASSUME NEW c \in Child
             PROVE  ByType(c) /\ InHand(c) /\ Joined(c)
  BY DEF ApartInv
<1>1. /\ ~child_complete[c] /\ pc[c] = "start"
      /\ trig[c].wait = "new" /\ ~trig[c].flag /\ trig[c].efd = 0
      /\ pc[0] \in {"init", "loop"}
  BY Threads DEF Init, TriggerInit
<1> QED
  BY <1>1 DEF ByType, InHand, Joined, AmfDone, Quiet, Armed, Running

\* A command does nothing to a thread but enable or disable it.
LEMMA CommandKeeps ==
  ASSUME CommandStep
  PROVE  UNCHANGED <<clockVars, mode, complete, last_call, queueVars, callVars, curr_time_tics,
                     child_complete, amf_next_tics, trig, pc, ip_next_job_time, ii>>
BY DEF CommandStep, Freeze, FreezeAt, Run, StopCmd, SetJobOnOff, SetThreadEnabled, SetJobCycle,
       Command

\* Every step keeps what is known of these threads.
LEMMA ApartStep ==
  ASSUME ~SpuriousWakeups, TypeOK, ApartInv, [Next]_vars
  PROVE  ApartInv'
<1> SUFFICES ASSUME NEW c \in Child, Apart(c)
             PROVE  ByType(c)' /\ InHand(c)' /\ Joined(c)'
  BY DEF ApartInv, Apart
<1>1. ByType(c) /\ InHand(c) /\ Joined(c)
  BY DEF ApartInv
<1>2. CASE UNCHANGED vars \/ CommandStep
  <2>1. UNCHANGED <<time_tics, child_complete, amf_next_tics, trig, pc, ii>>
    BY <1>2, CommandKeeps DEF vars, clockVars, childVars
  <2> QED
    BY <1>1, <2>1, ApartFrame
<1>3. CASE MainStep
  BY <1>1, <1>3, MasterApart
<1>4. ASSUME NEW d \in Child, ChildStep(d)
      PROVE  ByType(c)' /\ InHand(c)' /\ Joined(c)'
  <2>1. CASE d = c
    BY <1>1, <1>4, <2>1, ChildApart
  <2>2. CASE d # c
    <3>1. /\ trig'[c] = trig[c] /\ child_complete'[c] = child_complete[c] /\ pc'[c] = pc[c]
          /\ amf_next_tics'[c] = amf_next_tics[c] /\ UNCHANGED <<time_tics, ii>>
          /\ pc'[0] = pc[0]
      BY <1>4, <2>2, ChildAlone DEF clockVars
    <3> QED
      BY <1>1, <3>1, ApartFrame
  <2> QED
    BY <2>1, <2>2
<1> QED
  BY <1>2, <1>3, <1>4 DEF Next, Ended

\* It holds in every run in which no wait returns without a signal, whatever is commanded.
THEOREM ApartInvariant == ASSUME ~SpuriousWakeups PROVE Spec => []ApartInv
<1>1. Init => ApartInv
  BY ApartInit
<1>2. TypeOK /\ ApartInv /\ [Next]_vars => ApartInv'
  BY ApartStep
<1> QED
  BY <1>1, <1>2, TypeCorrect, PTL DEF Spec

\* The process cancels its threads only after it has waited for those it is told to wait for
\* (shutdown, the loop over shutdown_wait_async): none of them is within its jobs.
THEOREM ShutdownIsAwaited == ASSUME ~SpuriousWakeups PROVE Spec => ShutdownWaits
<1>1. TypeOK /\ ApartInv /\ [Next]_vars
        => [pc'[0] = "done" /\ pc[0] # "done" =>
              \A c \in Child : ProcessType[c] # "SCHEDULED" /\ AsyncWait[c] => ~Running(c)]_vars
  <2> SUFFICES ASSUME TypeOK, ApartInv, Next, pc'[0] = "done", pc[0] # "done",
                      NEW c \in Child, ProcessType[c] # "SCHEDULED", AsyncWait[c]
               PROVE  ~Running(c)
    OBVIOUS
  <2>1. MainStep
    BY CommandKeeps, ChildAlone DEF Next, Ended
  <2>2. Shutdown /\ ii > NumChild
    BY <2>1, MasterPasses, MasterGoes DEF MasterPass, ThreadSync, ArmThread, FireThread
  <2>3. pc[0] = "shutdown" /\ c < ii
    BY <2>2, TriggerAssumption DEF Shutdown, Child, TypeOK, MasterOK
  <2>4. InHand(c) /\ child_complete[c]
    BY <2>3 DEF ApartInv, Apart, Joined
  <2> QED
    BY <2>4 DEF InHand, Running
<1> QED
  BY <1>1, TypeCorrect, ApartInvariant, PTL DEF Spec, ShutdownWaits

--------------------------------------------------------------------------------
(***************************************************************************)
(* The time of a thread that has frames.                                   *)
(***************************************************************************)
\* A thread with frames does not keep step with the master, and is not a free running one.
LEMMA FrameThread ==
  ASSUME NEW c \in Child, HasFrames(c)
  PROVE  Apart(c) /\ ~FreeRunning(c) /\ AmfCycle[c] \in Nat \ {0}
BY ExecutiveAssumption DEF HasFrames, Apart, FreeRunning, ExecutiveAssumption

\* The numbers a thread computes with.
LEMMA FrameNumbers ==
  ASSUME TypeOK, NEW c \in Child
  PROVE  /\ amf_next_tics[c] \in Nat /\ curr_time_tics[c] \in Nat /\ next_job_time[c] \in Nat
         /\ AmfCycle[c] \in Nat /\ time_tics \in Nat /\ time_last_pass_tics \in Nat
         /\ TerminateTime \in Nat /\ MaxTics \in Nat /\ TerminateTime < MaxTics
BY Threads, ExecutiveAssumption
DEF TypeOK, ClockOK, QueuesOK, ChildrenOK, ExecutiveAssumption

\* What is said of the time of a thread is about these variables.
LEMMA FrameTimesKept ==
  ASSUME NEW c \in Child, FrameTimes(c),
         pc'[c] = pc[c] \/ pc'[c] = "cancelled", child_complete'[c] = child_complete[c],
         amf_next_tics'[c] = amf_next_tics[c], curr_time_tics'[c] = curr_time_tics[c],
         next_job_time'[c] = next_job_time[c]
  PROVE  FrameTimes(c)'
BY DEF FrameTimes, ToBegin, InSweep, FrameStart

\* The time stops at the terminate time.
LEMMA TimeEnds ==
  ASSUME TypeOK, time_tics <= TerminateTime, time_last_pass_tics <= TerminateTime, [Next]_vars
  PROVE  time_tics' <= TerminateTime /\ time_last_pass_tics' <= TerminateTime
<1>1. CASE AdvanceSimTime
  BY <1>1, NextTimeIsTime DEF AdvanceSimTime, TypeOK
<1>2. CASE CheckTerminate
  BY <1>2 DEF CheckTerminate
<1>3. CASE MainStep /\ ~AdvanceSimTime /\ ~CheckTerminate
  <2>1. UNCHANGED <<time_tics, time_last_pass_tics>>
    BY <1>3 DEF MainStep, AwaitChildren, TestFreezeCmd, EnterFreeze, FreezeLoop,
       ClearFreezeLoopCmd, LeaveFreeze, TopOfFrame, ThreadSync, MarkIncomplete, InputProcessorRun,
       ArmThread, FireThread, FindNextJob, AwaitDepends, ReturnFromJob, ScheduledThreadSync,
       SchedFreezeToExecCommand, EndMainSweep, CheckCommand, ClearRunCmd, EndOfFrame, Shutdown,
       clockVars
  <2> QED
    BY <2>1
<1>4. CASE UNCHANGED vars \/ CommandStep \/ \E c \in Child : ChildStep(c)
  <2>1. UNCHANGED clockVars
    BY <1>4, CommandKeeps, ChildAlone DEF vars
  <2> QED
    BY <2>1 DEF clockVars
<1> QED
  BY <1>1, <1>2, <1>3, <1>4 DEF Next, Ended

\* The sweep of a thread moves its time to its next job, if that is in the frame.
LEMMA ChildFrame ==
  ASSUME FramesFit, TypeOK, NEW c \in Child, HasFrames(c), ChildStep(c), InHand(c), FrameTimes(c)
  PROVE  FrameTimes(c)'
<1>0. /\ c \in Thread /\ ControlOK /\ ~FreeRunning(c) /\ AmfCycle[c] > 0
      /\ pc \in [Thread -> MainPC \cup ChildPC] /\ amf_next_tics' = amf_next_tics
  BY Threads, FrameThread, ChildAlone DEF TypeOK, ControlOK
<1>1. /\ amf_next_tics[c] \in Nat /\ curr_time_tics[c] \in Nat /\ next_job_time[c] \in Nat
      /\ AmfCycle[c] \in Nat /\ MaxTics \in Nat /\ TerminateTime \in Nat
      /\ amf_next_tics[c] <= MaxTics
      /\ next_job_time \in [Thread -> Nat] /\ curr_time_tics \in [Child -> Nat]
  <2>1. amf_next_tics[c] <= TerminateTime + AmfCycle[c] /\ TerminateTime + AmfCycle[c] <= MaxTics
    BY DEF FramesFit, FrameTimes
  <2>2. next_job_time \in [Thread -> Nat] /\ curr_time_tics \in [Child -> Nat]
    BY DEF TypeOK, QueuesOK, ChildrenOK
  <2> QED
    BY <2>1, <2>2, FrameNumbers
<1>2. CASE ChildStart(c) \/ ChildComplete(c)
  <2>1. /\ pc'[c] = "wait" /\ child_complete'[c]
    BY <1>0, <1>2 DEF ChildStart, ChildComplete, Goto, TypeOK, ChildrenOK
  <2> QED
    BY <1>0, <2>1 DEF FrameTimes, ToBegin, InSweep
<1>3. CASE ChildWait(c)
  <2>1. /\ UNCHANGED <<child_complete, curr_time_tics, next_job_time>>
        /\ pc[c] \in {"wait", "waiting"} /\ pc'[c] \in {"waiting", "dispatch"}
    BY <1>0, <1>3 DEF ChildWait, Goto, childVars, queueVars
  <2> QED
    BY <1>0, <2>1 DEF FrameTimes, ToBegin, InSweep, FrameStart
<1>4. CASE Dispatch(c)
  <2>1. UNCHANGED <<child_complete, curr_time_tics>> /\ pc[c] = "dispatch"
    BY <1>4 DEF Dispatch, childVars
  <2>2. curr_time_tics[c] = FrameStart(c)
    BY <2>1 DEF FrameTimes, ToBegin, InHand
  <2>3. \/ pc'[c] = "complete"
        \/ pc'[c] = "catchup"
        \/ pc'[c] = "sweep" /\ next_job_time'[c] = amf_next_tics[c]
    BY <1>0, <1>1, <1>4 DEF Dispatch, Goto, FirstJobTime, HasFrames
  <2> QED
    BY <1>0, <1>1, <2>1, <2>2, <2>3 DEF FrameTimes, ToBegin, InSweep, FrameStart
<1>5. CASE CatchUp(c)
  <2>1. UNCHANGED <<child_complete, curr_time_tics>> /\ pc[c] = "catchup"
    BY <1>5 DEF CatchUp, childVars
  <2>2. \/ pc'[c] = "catchup"
        \/ pc'[c] = "sweep" /\ next_job_time'[c] = amf_next_tics[c]
    BY <1>0, <1>1, <1>5 DEF CatchUp, Goto
  <2> QED
    BY <1>0, <1>1, <2>1, <2>2 DEF FrameTimes, ToBegin, InSweep, FrameStart
<1>6. CASE FindNextJob(c)
  <2> DEFINE j    == JobQueue[c][curr_index[c]]
             due  == next_tics[j] = Now(c)
             next == IF due /\ j \notin SystemJob THEN NextCall(j) ELSE next_tics[j]
  <2>1. UNCHANGED <<child_complete, curr_time_tics>> /\ pc[c] = "sweep" /\ ~AtEnd(c)
    BY <1>6 DEF FindNextJob, childVars
  <2>2. pc'[c] \in {"sweep", "depend"}
    BY <1>0, <1>6 DEF FindNextJob, Goto
  <2>3. j \in Job /\ Now(c) = curr_time_tics[c]
    BY <1>0, <2>1, JobAtCursor, Threads DEF TypeOK, Now
  <2>4. /\ next_tics[j] \in Nat /\ cycle_tics[j] \in Nat \ {0} /\ Stop[j] \in Nat
    BY <2>3, ExecutiveAssumption DEF TypeOK, JobsOK, ExecutiveAssumption
  <2>5. next_job_time'[c] = IF due THEN IF j \in SystemJob THEN next_job_time[c]
                                                          ELSE MinOf(next_job_time[c], NextCall(j))
                                  ELSE TestNextJobCallTime(next_job_time[c], next_tics[j], Now(c))
    BY <1>0, <1>1, <1>6 DEF FindNextJob
  <2> HIDE DEF j
  <2>6. curr_time_tics[c] < amf_next_tics[c] /\ next_job_time[c] >= curr_time_tics[c]
    BY <2>1 DEF FrameTimes, InSweep
  <2>7. due => NextCall(j) \in Nat /\ NextCall(j) >= curr_time_tics[c]
    BY <1>1, <2>3, <2>4, <2>6 DEF NextCall
  <2>8. next_job_time'[c] >= curr_time_tics[c]
    BY <1>1, <2>3, <2>4, <2>5, <2>6, <2>7 DEF MinOf, TestNextJobCallTime
  <2> QED
    BY <1>0, <1>1, <2>1, <2>2, <2>8 DEF FrameTimes, ToBegin, InSweep, FrameStart
<1>7. CASE AwaitDepends(c)
  <2>1. /\ UNCHANGED <<child_complete, curr_time_tics, next_job_time>>
        /\ pc[c] = "depend" /\ pc'[c] \in {"depend", "call"}
    BY <1>0, <1>7 DEF AwaitDepends, Goto, childVars, queueVars
  <2> QED
    BY <1>0, <2>1 DEF FrameTimes, ToBegin, InSweep, FrameStart
<1>8. CASE ReturnFromJob(c)
  <2>1. /\ UNCHANGED <<child_complete, curr_time_tics>> /\ pc[c] = "call" /\ pc'[c] = "sweep"
    BY <1>0, <1>8 DEF ReturnFromJob, Goto, childVars
  <2>2. Now(c) = curr_time_tics[c] /\ EventTimesAfter(Now(c)) \subseteq Nat
    BY <1>1, Threads, ExecutiveAssumption DEF Now, EventTimesAfter, ExecutiveAssumption
  <2>3. \/ next_job_time' = next_job_time
        \/ \E n \in Nat : next_job_time'[c] = TestNextJobCallTime(next_job_time[c], n, Now(c))
    BY <1>0, <1>1, <1>8, <2>2 DEF ReturnFromJob
  <2>4. curr_time_tics[c] < amf_next_tics[c] /\ next_job_time[c] >= curr_time_tics[c]
    BY <2>1 DEF FrameTimes, InSweep
  <2>5. next_job_time'[c] >= curr_time_tics[c]
    BY <1>1, <2>2, <2>3, <2>4 DEF MinOf, TestNextJobCallTime
  <2> QED
    BY <1>0, <1>1, <2>1, <2>5 DEF FrameTimes, ToBegin, InSweep, FrameStart
<1>9. CASE EndChildSweep(c)
  <2>1. /\ UNCHANGED child_complete /\ pc[c] = "sweep"
        /\ curr_time_tics'[c] = next_job_time[c]
    BY <1>1, <1>9 DEF EndChildSweep
  <2>2. \/ /\ next_job_time[c] < amf_next_tics[c] /\ pc'[c] = "sweep"
           /\ next_job_time'[c] = amf_next_tics[c]
        \/ pc'[c] = "complete"
    BY <1>0, <1>1, <1>9 DEF EndChildSweep, MoreOfFrame, Goto
  <2> QED
    BY <1>0, <1>1, <2>1, <2>2 DEF FrameTimes, ToBegin, InSweep, FrameStart
<1> QED
  BY <1>0, <1>2, <1>3, <1>4, <1>5, <1>6, <1>7, <1>8, <1>9 DEF ChildStep, GetNextJob

\* The master gives a new next job call time to itself and to scheduled threads only.
LEMMA MasterLeavesCalls ==
  ASSUME TypeOK, MainStep, NEW c \in Child, Apart(c)
  PROVE  next_job_time'[c] = next_job_time[c]
<1>0. c \in Thread /\ c # 0 /\ next_job_time \in [Thread -> Nat]
  BY Threads DEF TypeOK, QueuesOK
<1>1. CASE AdvanceSimTime
  BY <1>0, <1>1 DEF AdvanceSimTime, Apart
<1>2. CASE \/ FindNextJob(0) \/ ReturnFromJob(0) \/ SchedFreezeToExecCommand \/ InputProcessorRun
  <2>1. next_job_time' = next_job_time \/ \E n : next_job_time' = [next_job_time EXCEPT ![0] = n]
    BY <1>2 DEF FindNextJob, ReturnFromJob, SchedFreezeToExecCommand, InputProcessorRun
  <2> QED
    BY <1>0, <2>1
<1> QED
  BY <1>1, <1>2 DEF MainStep, AwaitChildren, TestFreezeCmd, EnterFreeze, FreezeLoop,
     ClearFreezeLoopCmd, LeaveFreeze, TopOfFrame, ThreadSync, MarkIncomplete, ArmThread, FireThread,
     AwaitDepends, ScheduledThreadSync, EndMainSweep, CheckCommand, ClearRunCmd, CheckTerminate,
     EndOfFrame, Shutdown, queueVars

\* The master moves the sync time of an idle thread only, and arms a thread with frames at the
\* time of its last sync.
LEMMA MasterFrame ==
  ASSUME TypeOK, time_tics <= TerminateTime, MainStep, NEW c \in Child, HasFrames(c),
         InHand(c), Joined(c), FrameTimes(c)
  PROVE  FrameTimes(c)'
<1>a. next_job_time'[c] = next_job_time[c]
  BY FrameThread, MasterLeavesCalls
<1>b. /\ AmfCycle[c] \in Nat /\ AmfCycle[c] > 0 /\ time_tics \in Nat /\ TerminateTime \in Nat
      /\ amf_next_tics[c] \in Nat
  BY FrameThread, FrameNumbers
<1>0. /\ NumChild \in Nat /\ ii \in 0 .. NumChild + 1 /\ Child = 1 .. NumChild
      /\ amf_next_tics \in [Child -> Nat] /\ curr_time_tics \in [Child -> Nat]
      /\ child_complete \in [Child -> BOOLEAN]
  BY TriggerAssumption DEF TypeOK, MasterOK, ChildrenOK, Child
<1>1. CASE MasterPass
  <2>1. UNCHANGED childVars /\ pc'[c] = pc[c]
    BY <1>1 DEF MasterPass
  <2> QED
    BY <1>a, <2>1, FrameTimesKept DEF childVars
<1>2. CASE ThreadSync
  <2>1. UNCHANGED <<child_complete, curr_time_tics>> /\ pc[0] = "sync" /\ pc'[c] = pc[c]
    BY <1>2, MasterGoes DEF ThreadSync
  <2>2. CASE ii <= NumChild /\ AsyncBehind(ii) /\ ii = c
    <3>1. /\ child_complete[c] /\ amf_next_tics[c] < time_tics
          /\ amf_next_tics'[c] = amf_next_tics[c] + AmfCycle[c]
      BY <1>0, <1>2, <2>2 DEF ThreadSync, AsyncBehind
    <3>2. pc[c] \in {"wait", "waiting", "cancelled"}
      BY <3>1 DEF InHand
    <3>3. amf_next_tics'[c] <= TerminateTime + AmfCycle[c]
      BY <1>b, <3>1
    <3> QED
      BY <2>1, <3>1, <3>2, <3>3 DEF FrameTimes, ToBegin, InSweep
  <2>3. CASE ~(ii <= NumChild /\ AsyncBehind(ii) /\ ii = c)
    <3>1. amf_next_tics'[c] = amf_next_tics[c]
      BY <1>0, <1>2, <2>3 DEF ThreadSync
    <3> QED
      BY <1>a, <2>1, <3>1, FrameTimesKept
  <2> QED
    BY <2>2, <2>3
<1>3. CASE ArmThread
  <2>1. pc[0] = "fire" /\ pc'[c] = pc[c]
    BY <1>3, MasterGoes DEF ArmThread
  <2>2. CASE ii <= NumChild /\ isThreadReadyToRun(ii) /\ ii = c
    <3>1. /\ curr_time_tics'[c] = time_tics /\ ~child_complete'[c]
          /\ amf_next_tics'[c] = amf_next_tics[c] + AmfCycle[c]
      BY <1>0, <1>3, <2>2 DEF ArmThread
    <3>2. amf_next_tics[c] = time_tics
      BY <1>0, <2>2 DEF isThreadReadyToRun, HasFrames
    <3>3. child_complete[c]
      BY <1>0, <2>1, <2>2 DEF Joined, AmfDone, AmfDue, isThreadReadyToRun, HasFrames
    <3>4. pc[c] \in {"wait", "waiting", "cancelled"}
      BY <3>3 DEF InHand
    <3>5. /\ amf_next_tics'[c] <= TerminateTime + AmfCycle[c]
          /\ amf_next_tics'[c] - AmfCycle[c] = curr_time_tics'[c]
      BY <1>b, <3>1, <3>2
    <3> QED
      BY <2>1, <3>4, <3>5 DEF FrameTimes, ToBegin, InSweep, FrameStart
  <2>3. CASE ~(ii <= NumChild /\ isThreadReadyToRun(ii) /\ ii = c)
    <3>1. /\ amf_next_tics'[c] = amf_next_tics[c] /\ curr_time_tics'[c] = curr_time_tics[c]
          /\ child_complete'[c] = child_complete[c]
      BY <1>0, <1>3, <2>3 DEF ArmThread
    <3> QED
      BY <1>a, <2>1, <3>1, FrameTimesKept
  <2> QED
    BY <2>2, <2>3
<1>4. CASE FireThread
  <2>1. UNCHANGED childVars /\ pc'[c] = pc[c]
    BY <1>4, MasterGoes DEF FireThread
  <2> QED
    BY <1>a, <2>1, FrameTimesKept DEF childVars
<1>5. CASE Shutdown /\ ii > NumChild
  <2>1. UNCHANGED childVars /\ pc'[c] = "cancelled"
    BY <1>0, <1>5, Threads DEF Shutdown
  <2> QED
    BY <1>a, <2>1, FrameTimesKept DEF childVars
<1> QED
  BY <1>1, <1>2, <1>3, <1>4, <1>5, MasterPasses

\* The initial state.
LEMMA FramesInit ==
  ASSUME Init
  PROVE  FramesInv
<1>1. time_tics <= TerminateTime /\ time_last_pass_tics <= TerminateTime
  BY ExecutiveAssumption DEF Init, ExecutiveAssumption
<1>2. ASSUME NEW c \in Child
      PROVE  FrameTimes(c)
  <2>1. pc[c] = "start" /\ amf_next_tics[c] = 0
    BY <1>2, Threads DEF Init
  <2>2. TerminateTime \in Nat /\ AmfCycle[c] \in Nat
    BY <1>2, ExecutiveAssumption DEF ExecutiveAssumption
  <2> QED
    BY <2>1, <2>2 DEF FrameTimes, ToBegin, InSweep
<1> QED
  BY <1>1, <1>2 DEF FramesInv

\* Every step keeps the time of a thread in its frame.
LEMMA FramesStep ==
  ASSUME FramesFit, TypeOK, ApartInv, FramesInv, [Next]_vars
  PROVE  FramesInv'
<1>1. time_tics' <= TerminateTime /\ time_last_pass_tics' <= TerminateTime
  BY TimeEnds DEF FramesInv
<1> SUFFICES ASSUME NEW c \in Child, HasFrames(c)
             PROVE  FrameTimes(c)'
  BY <1>1 DEF FramesInv, HasFrames
<1>2. FrameTimes(c) /\ InHand(c) /\ Joined(c)
  BY FrameThread DEF FramesInv, ApartInv
<1>3. CASE UNCHANGED vars \/ CommandStep
  <2>1. UNCHANGED <<child_complete, amf_next_tics, pc, curr_time_tics, next_job_time>>
    BY <1>3, CommandKeeps DEF vars, childVars, queueVars
  <2> QED
    BY <1>2, <2>1, FrameTimesKept
<1>4. CASE MainStep
  BY <1>2, <1>4, MasterFrame DEF FramesInv
<1>5. ASSUME NEW d \in Child, ChildStep(d)
      PROVE  FrameTimes(c)'
  <2>1. CASE d = c
    BY <1>2, <1>5, <2>1, ChildFrame
  <2>2. CASE d # c
    <3>1. /\ child_complete'[c] = child_complete[c] /\ pc'[c] = pc[c]
          /\ amf_next_tics'[c] = amf_next_tics[c] /\ curr_time_tics'[c] = curr_time_tics[c]
          /\ next_job_time'[c] = next_job_time[c]
      BY <1>5, <2>2, ChildAlone
    <3> QED
      BY <1>2, <3>1, FrameTimesKept
  <2> QED
    BY <2>1, <2>2
<1> QED
  BY <1>3, <1>4, <1>5 DEF Next, Ended

\* The times of the threads are in their frames in every run in which no wait returns without
\* a signal, whatever is commanded.
THEOREM FramesInvariant == ASSUME ~SpuriousWakeups, FramesFit PROVE Spec => []FramesInv
<1>1. Init => FramesInv
  BY FramesInit
<1>2. TypeOK /\ ApartInv /\ FramesInv /\ [Next]_vars => FramesInv'
  BY FramesStep
<1> QED
  BY <1>1, <1>2, TypeCorrect, ApartInvariant, PTL DEF Spec

\* A thread with a cycle calls its jobs at times of its current frame only (thread_body moves
\* curr_time_tics to the next job call time only if that is before amf_next_tics).
THEOREM FramesAreHonoured == ASSUME ~SpuriousWakeups, FramesFit PROVE Spec => []FramesHonoured
<1>1. FramesInv => FramesHonoured
  <2> SUFFICES ASSUME FramesInv, NEW c \in Child, HasFrames(c),
                      pc[c] \in {"sweep", "depend", "call"}
               PROVE  /\ curr_time_tics[c] >= amf_next_tics[c] - AmfCycle[c]
                      /\ curr_time_tics[c] < amf_next_tics[c]
    BY DEF FramesHonoured
  <2> QED
    BY DEF FramesInv, FrameTimes, FrameStart, InSweep
<1> QED
  BY <1>1, FramesInvariant, PTL

--------------------------------------------------------------------------------
(***************************************************************************)
(* The jobs of a thread that has frames.                                   *)
(***************************************************************************)
\* The jobs of a child are its own, and none of those of the executive.
LEMMA OwnJobs ==
  ASSUME JobsOnce, NEW c \in Child, NEW j \in JobsOf(c)
  PROVE  /\ j \in Job /\ j \notin {AdvanceJob, FreezeJob, InputJob}
         /\ \A t \in Thread : t # c => j \notin JobsOf(t)
<1>1. j \in Job
  BY QueuedJobs, Threads DEF JobsOf
<1>2. j \notin {AdvanceJob, FreezeJob, InputJob}
  BY ExecutiveAssumption DEF ExecutiveAssumption
<1>3. \A t \in Thread : t # c => j \notin JobsOf(t)
  BY Threads DEF JobsOf, JobsOnce
<1> QED
  BY <1>1, <1>2, <1>3

\* The job under a cursor is a job of the queue.
LEMMA CursorJob ==
  ASSUME QueuesOK, NEW t \in Thread, ~AtEnd(t)
  PROVE  curr_index[t] \in 1 .. Len(JobQueue[t]) /\ JobQueue[t][curr_index[t]] \in JobsOf(t)
<1>1. curr_index[t] \in 1 .. Len(JobQueue[t])
  BY QueuedJobs DEF QueuesOK, AtEnd, QueueEnd
<1> QED
  BY <1>1 DEF JobsOf

\* A sweep touches the jobs of its own queue only.
LEMMA SweepLeavesJobs ==
  ASSUME JobsOnce, TypeOK, CallsOwnJobs, NEW t \in Thread, NEW c \in Child, t # c, NEW j \in JobsOf(c),
         FindNextJob(t) \/ GetNextJob(t) \/ AwaitDepends(t) \/ ReturnFromJob(t)
  PROVE  /\ next_tics'[j] = next_tics[j] /\ UNCHANGED disabled /\ curr_job'[c] = curr_job[c]
         /\ curr_index'[c] = curr_index[c]
<1>0. /\ j \in Job /\ j \notin JobsOf(t) /\ c \in Thread
      /\ next_tics \in [Job -> Nat] /\ curr_index \in [Thread -> Nat] /\ curr_job \in [Thread -> Job]
  BY OwnJobs, Threads DEF TypeOK, JobsOK, QueuesOK
<1>1. CASE FindNextJob(t)
  <2>1. JobQueue[t][curr_index[t]] # j
    BY <1>0, <1>1, CursorJob DEF FindNextJob, TypeOK
  <2> QED
    BY <1>0, <1>1, <2>1 DEF FindNextJob, callVars
<1>2. CASE GetNextJob(t)
  BY <1>0, <1>2 DEF GetNextJob, jobVars, callVars
<1>3. CASE AwaitDepends(t)
  BY <1>0, <1>3 DEF AwaitDepends, jobVars, queueVars
<1>4. CASE ReturnFromJob(t)
  <2>1. curr_job[t] # j
    BY <1>0, <1>4 DEF ReturnFromJob, CallsOwnJobs
  <2> QED
    BY <1>0, <1>4, <2>1 DEF ReturnFromJob, callVars
<1> QED
  BY <1>1, <1>2, <1>3, <1>4

\* The master touches no job of a child; it moves the cursor of a thread that is ready to run.
LEMMA MasterLeavesJobs ==
  ASSUME JobsOnce, TypeOK, CallsOwnJobs, MainStep, NEW c \in Child, NEW j \in JobsOf(c)
  PROVE  /\ next_tics'[j] = next_tics[j] /\ UNCHANGED disabled /\ curr_job'[c] = curr_job[c]
         /\ \/ curr_index'[c] = curr_index[c]
            \/ pc[0] = "mark" /\ isThreadReadyToRun(c)
<1>0. /\ j \in Job /\ j \notin {AdvanceJob, FreezeJob, InputJob} /\ c \in Thread /\ c # 0
      /\ 0 \in Thread /\ j \notin JobsOf(0)
      /\ next_tics \in [Job -> Nat] /\ curr_index \in [Thread -> Nat] /\ curr_job \in [Thread -> Job]
  BY OwnJobs, Threads DEF TypeOK, JobsOK, QueuesOK
<1>1. CASE FindNextJob(0) \/ AwaitDepends(0) \/ ReturnFromJob(0)
  BY <1>0, <1>1, SweepLeavesJobs
<1>2. CASE \/ InputProcessorRun \/ AdvanceSimTime \/ SchedFreezeToExecCommand \/ EndOfFrame
  BY <1>0, <1>2 DEF InputProcessorRun, AdvanceSimTime, SchedFreezeToExecCommand, EndOfFrame,
                    callVars, queueVars
<1>3. CASE MarkIncomplete
  <2>1. UNCHANGED <<next_tics, disabled, curr_job>> /\ pc[0] = "mark"
    BY <1>3 DEF MarkIncomplete, callVars
  <2>2. \/ curr_index' = curr_index
        \/ /\ curr_index' = [curr_index EXCEPT ![ii] = QueueEnd(ii)]
           /\ ii = 0 \/ isThreadReadyToRun(ii)
    BY <1>3 DEF MarkIncomplete
  <2> QED
    BY <1>0, <2>1, <2>2
<1>4. CASE ArmThread
  BY <1>0, <1>4 DEF ArmThread, jobVars, callVars
<1> QED
  BY <1>1, <1>2, <1>3, <1>4 DEF MainStep, AwaitChildren, TestFreezeCmd, EnterFreeze, FreezeLoop,
     ClearFreezeLoopCmd, LeaveFreeze, TopOfFrame, ThreadSync, FireThread, ScheduledThreadSync,
     EndMainSweep, CheckCommand, ClearRunCmd, CheckTerminate, Shutdown, jobVars, queueVars, callVars

\* Nor does another child.
LEMMA ChildLeavesJobs ==
  ASSUME JobsOnce, TypeOK, CallsOwnJobs, NEW d \in Child, ChildStep(d),
         NEW c \in Child, c # d, NEW j \in JobsOf(c)
  PROVE  next_tics'[j] = next_tics[j] /\ UNCHANGED disabled /\ curr_job'[c] = curr_job[c]
<1>0. /\ j \in Job /\ j \notin JobsOf(d) /\ d \in Thread /\ next_tics \in [Job -> Nat]
  BY OwnJobs, Threads DEF TypeOK, JobsOK
<1>1. CASE FindNextJob(d) \/ GetNextJob(d) \/ AwaitDepends(d) \/ ReturnFromJob(d)
  BY <1>0, <1>1, SweepLeavesJobs
<1>2. CASE CatchUp(d)
  <2>1. ~AtEnd(d) => JobQueue[d][curr_index[d]] # j
    BY <1>0, CursorJob DEF TypeOK
  <2> QED
    BY <1>0, <1>2, <2>1 DEF CatchUp, callVars
<1> QED
  BY <1>1, <1>2 DEF ChildStep, ChildStart, ChildWait, Dispatch, EndChildSweep, ChildComplete,
                    jobVars, callVars

\* What is said of a job of a thread is about these variables.
LEMMA FrameCallKept ==
  ASSUME NEW c \in Child, NEW k \in 1 .. Len(JobQueue[c]), FrameCall(c, k),
         next_tics'[JobQueue[c][k]] = next_tics[JobQueue[c][k]], UNCHANGED disabled,
         pc'[c] = pc[c] \/ pc'[c] = "cancelled", child_complete'[c] = child_complete[c],
         amf_next_tics'[c] = amf_next_tics[c], curr_time_tics'[c] = curr_time_tics[c],
         next_job_time'[c] = next_job_time[c], curr_job'[c] = curr_job[c],
         curr_index'[c] = curr_index[c] \/ pc[c] \in {"wait", "waiting", "cancelled"}
  PROVE  FrameCall(c, k)'
<1>1. CASE ProcessType[c] = "ASYNC"
  BY <1>1 DEF FrameCall, ToBegin, InSweep, FrameStart
<1>2. CASE ProcessType[c] # "ASYNC"
  BY <1>2 DEF FrameCall, ToBegin, InSweep, FrameStart
<1> QED
  BY <1>1, <1>2

\* A step of a thread: its sweep looks at the job at the cursor and moves on, and it starts again
\* with the next time or ends when all jobs have their next call later.
LEMMA ChildCall ==
  ASSUME FramesFit, JobsOnce, TypeOK, AllEnabled, FrameCallsInv,
         NEW c \in Child, HasFrames(c), ChildStep(c), InHand(c), FrameTimes(c),
         NEW k \in 1 .. Len(JobQueue[c])
  PROVE  FrameCall(c, k)'
<1>a. PICK j \in Job : j = JobQueue[c][k]
  BY QueuedJobs, Threads
<1>b. /\ c \in Thread /\ ~FreeRunning(c) /\ AmfCycle[c] \in Nat \ {0} /\ j \in JobsOf(c)
      /\ pc \in [Thread -> MainPC \cup ChildPC] /\ amf_next_tics' = amf_next_tics
      /\ ProcessType[c] \in {"ASYNC", "AMF"} /\ enabled[c]
  BY <1>a, Threads, FrameThread, ChildAlone DEF TypeOK, ControlOK, HasFrames, JobsOf, AllEnabled
<1>c. /\ amf_next_tics[c] \in Nat /\ curr_time_tics[c] \in Nat /\ next_job_time[c] \in Nat
      /\ MaxTics \in Nat /\ next_tics[j] \in Nat /\ cycle_tics[j] \in Nat \ {0} /\ Stop[j] \in Nat
      /\ amf_next_tics[c] <= MaxTics
  <2>1. next_tics[j] \in Nat /\ cycle_tics[j] \in Nat \ {0} /\ Stop[j] \in Nat
    BY ExecutiveAssumption DEF TypeOK, JobsOK, ExecutiveAssumption
  <2>2. amf_next_tics[c] <= TerminateTime + AmfCycle[c] /\ TerminateTime + AmfCycle[c] <= MaxTics
    BY DEF FramesFit, FrameTimes
  <2> QED
    BY <2>1, <2>2, FrameNumbers
<1>d. /\ next_tics \in [Job -> Nat] /\ curr_index \in [Thread -> Nat] /\ curr_job \in [Thread -> Job]
      /\ next_job_time \in [Thread -> Nat] /\ curr_time_tics \in [Child -> Nat]
      /\ child_complete \in [Child -> BOOLEAN]
      /\ k \in Nat /\ curr_index[c] \in Nat /\ Now(c) = curr_time_tics[c]
  <2>1. c # 0
    BY Threads
  <2>2. next_tics \in [Job -> Nat]
    BY DEF TypeOK, JobsOK
  <2>3. /\ curr_index \in [Thread -> Nat] /\ curr_job \in [Thread -> Job]
        /\ next_job_time \in [Thread -> Nat]
    BY DEF TypeOK, QueuesOK
  <2>4. curr_time_tics \in [Child -> Nat] /\ child_complete \in [Child -> BOOLEAN]
    BY DEF TypeOK, ChildrenOK
  <2>5. k \in Nat /\ curr_index[c] \in Nat /\ Now(c) = curr_time_tics[c]
    BY <1>b, <2>1, <2>3 DEF Now
  <2> QED
    BY <2>2, <2>3, <2>4, <2>5
<1>e. /\ ProcessType[c] = "ASYNC" =>
           ((pc[c] = "catchup" /\ k < curr_index[c]) \/ InSweep(c) =>
              disabled[j] \/ next_tics[j] >= FrameStart(c))
      /\ ProcessType[c] = "AMF" =>
           /\ pc[c] # "catchup"
           /\ child_complete[c] \/ pc[c] \in {"start", "complete"} => next_tics[j] >= amf_next_tics[c]
           /\ ToBegin(c) \/ InSweep(c) => next_tics[j] >= curr_time_tics[c]
           /\ InSweep(c) /\ k < curr_index[c] =>
                \/ pc[c] # "sweep" /\ curr_job[c] = j /\ j \in SystemJob
                \/ next_tics[j] > curr_time_tics[c] /\ next_job_time[c] <= next_tics[j]
  BY <1>a DEF FrameCallsInv, FrameCall
<1>f. SUFFICES
        /\ ProcessType[c] = "ASYNC" =>
             ((pc'[c] = "catchup" /\ k < curr_index'[c]) \/ InSweep(c)' =>
                disabled'[j] \/ next_tics'[j] >= FrameStart(c))
        /\ ProcessType[c] = "AMF" =>
             /\ pc'[c] # "catchup"
             /\ child_complete'[c] \/ pc'[c] \in {"start", "complete"} => next_tics'[j] >= amf_next_tics[c]
             /\ ToBegin(c)' \/ InSweep(c)' => next_tics'[j] >= curr_time_tics'[c]
             /\ InSweep(c)' /\ k < curr_index'[c] =>
                  \/ pc'[c] # "sweep" /\ curr_job'[c] = j /\ j \in SystemJob
                  \/ next_tics'[j] > curr_time_tics'[c] /\ next_job_time'[c] <= next_tics'[j]
  BY <1>a, <1>b DEF FrameCall, FrameStart
<1>1. CASE ChildStart(c) \/ ChildComplete(c)
  <2>1. /\ pc'[c] = "wait" /\ child_complete'[c] /\ pc[c] \in {"start", "complete"}
        /\ UNCHANGED <<next_tics, disabled>>
    BY <1>1, <1>b, <1>d DEF ChildStart, ChildComplete, Goto, jobVars
  <2> QED
    BY <1>e, <2>1 DEF ToBegin, InSweep
<1>2. CASE ChildWait(c)
  <2>1. /\ UNCHANGED <<child_complete, curr_time_tics, next_tics, disabled>>
        /\ pc[c] \in {"wait", "waiting"} /\ pc'[c] \in {"waiting", "dispatch"}
    BY <1>2, <1>b DEF ChildWait, Goto, childVars, jobVars
  <2> QED
    BY <1>e, <2>1 DEF ToBegin, InSweep
<1>3. CASE Dispatch(c)
  <2>1. /\ UNCHANGED <<child_complete, curr_time_tics, next_tics, disabled>> /\ pc[c] = "dispatch"
        /\ pc'[c] \in {"catchup", "sweep"} /\ curr_index'[c] = 1
        /\ ProcessType[c] = "ASYNC" <=> pc'[c] = "catchup"
    BY <1>3, <1>b, <1>d DEF Dispatch, Goto, childVars, jobVars, HasFrames
  <2>2. ~child_complete[c]
    BY <2>1 DEF InHand
  <2>3. ~(k < 1)
    BY <1>d
  <2> QED
    BY <1>e, <2>1, <2>2, <2>3 DEF ToBegin, InSweep
<1>4. CASE CatchUp(c)
  <2>1. /\ UNCHANGED <<child_complete, curr_time_tics, disabled>> /\ pc[c] = "catchup"
        /\ pc'[c] \in {"catchup", "sweep"} /\ ProcessType[c] = "ASYNC"
    BY <1>4, <1>b, <1>e DEF CatchUp, Goto, childVars
  <2>2. CASE ~AtEnd(c) /\ curr_index[c] = k
    <3>1. JobQueue[c][curr_index[c]] = j
      BY <1>a, <2>2
    <3>2. \/ Lagging(c, j) /\ UNCHANGED <<queueVars, pc>>
          \/ ~Lagging(c, j) /\ UNCHANGED <<next_tics, pc>>
      BY <1>4, <2>2, <3>1 DEF CatchUp
    <3>3. CASE Lagging(c, j) /\ UNCHANGED <<queueVars, pc>>
      BY <1>d, <2>1, <2>2, <3>3 DEF queueVars, InSweep
    <3>4. CASE ~Lagging(c, j) /\ UNCHANGED <<next_tics, pc>>
      BY <1>b, <1>c, <2>1, <3>4 DEF Lagging, FrameStart
    <3> QED
      BY <3>2, <3>3, <3>4
  <2>3. CASE ~AtEnd(c) /\ curr_index[c] # k
    <3>1. /\ JobQueue[c][curr_index[c]] # j
          /\ curr_index[c] \in 1 .. Len(JobQueue[c])
      BY <1>a, <1>b, <2>3, CursorJob DEF TypeOK, JobsOnce
    <3>2. next_tics'[j] = next_tics[j]
      BY <1>4, <1>d, <2>3, <3>1 DEF CatchUp
    <3>3. /\ pc'[c] = "catchup"
          /\ curr_index'[c] \in {curr_index[c], curr_index[c] + 1}
      BY <1>4, <1>b, <1>d, <2>1, <2>3 DEF CatchUp, queueVars
    <3>4. k < curr_index'[c] => k < curr_index[c]
      BY <1>d, <2>3, <3>3
    <3> QED
      BY <1>e, <2>1, <3>2, <3>3, <3>4 DEF InSweep
  <2>4. CASE AtEnd(c)
    <3>1. UNCHANGED next_tics
      BY <1>4, <2>4 DEF CatchUp
    <3>2. k < curr_index[c]
      BY <1>d, <2>4, QueuedJobs, Threads DEF AtEnd, QueueEnd
    <3> QED
      BY <1>e, <2>1, <3>1, <3>2
  <2> QED
    BY <2>2, <2>3, <2>4
<1>5. CASE FindNextJob(c)
  <2> DEFINE i    == JobQueue[c][curr_index[c]]
             due  == next_tics[i] = curr_time_tics[c]
             next == IF due /\ i \notin SystemJob THEN NextCall(i) ELSE next_tics[i]
  <2>1. /\ UNCHANGED <<child_complete, curr_time_tics, disabled>> /\ pc[c] = "sweep" /\ ~AtEnd(c)
        /\ InSweep(c) /\ ~child_complete[c]
    BY <1>5 DEF FindNextJob, childVars, InSweep, InHand
  <2>2. /\ next_tics' = [next_tics EXCEPT ![i] = next]
        /\ next_job_time'[c] = IF due THEN IF i \in SystemJob THEN next_job_time[c]
                                                             ELSE MinOf(next_job_time[c], next)
                               ELSE TestNextJobCallTime(next_job_time[c], next, curr_time_tics[c])
        /\ curr_index'[c] = curr_index[c] + 1
    BY <1>5, <1>b, <1>d DEF FindNextJob
  <2>3. \/ due /\ pc'[c] = "depend" /\ curr_job'[c] = i
        \/ (due => disabled[i]) /\ pc'[c] = "sweep" /\ curr_job'[c] = curr_job[c]
    BY <1>5, <1>b, <1>d, <2>1 DEF FindNextJob, Goto, callVars
  <2>4. i \in SystemJob => ~disabled[i]
    BY DEF FrameCallsInv
  <2>5. /\ curr_time_tics[c] < amf_next_tics[c] /\ FrameStart(c) <= curr_time_tics[c]
        /\ FrameStart(c) \in Int
    BY <1>b, <1>c, <2>1 DEF FrameTimes, FrameStart
  <2>6. InSweep(c)' /\ pc'[c] \in {"sweep", "depend"} /\ ~ToBegin(c)'
    BY <2>3 DEF InSweep, ToBegin
  <2>7. CASE curr_index[c] = k
    <3>1. i = j
      BY <1>a, <2>7
    <3>2. next_tics'[j] = (IF due /\ j \notin SystemJob THEN NextCall(j) ELSE next_tics[j])
      BY <1>d, <2>2, <3>1
    <3>3. due => NextCall(j) \in Nat /\ NextCall(j) > curr_time_tics[c]
      BY <1>c, <2>5, <3>1 DEF NextCall
    <3>4. ProcessType[c] = "ASYNC" => disabled[j] \/ next_tics'[j] >= FrameStart(c)
      BY <1>c, <1>e, <2>1, <2>5, <3>2, <3>3
    <3>5. ProcessType[c] = "AMF" =>
            /\ next_tics'[j] >= curr_time_tics[c]
            /\ \/ pc'[c] # "sweep" /\ curr_job'[c] = j /\ j \in SystemJob
               \/ next_tics'[j] > curr_time_tics[c] /\ next_job_time'[c] <= next_tics'[j]
      <4>1. CASE due /\ j \in SystemJob
        BY <1>c, <1>e, <2>1, <2>3, <2>4, <3>1, <3>2, <4>1
      <4>2. CASE due /\ j \notin SystemJob
        BY <1>c, <2>2, <3>1, <3>2, <3>3, <4>2 DEF MinOf
      <4>3. CASE ~due
        BY <1>c, <1>e, <2>1, <2>2, <3>1, <3>2, <4>3 DEF MinOf, TestNextJobCallTime
      <4> QED
        BY <4>1, <4>2, <4>3
    <3> QED
      BY <2>1, <2>6, <3>4, <3>5
  <2>8. CASE curr_index[c] # k
    <3>1. i # j
      BY <1>a, <1>b, <2>1, <2>8, CursorJob DEF TypeOK, JobsOnce
    <3>2. next_tics'[j] = next_tics[j]
      BY <1>d, <2>2, <3>1
    <3>3. k < curr_index'[c] => k < curr_index[c]
      BY <1>d, <2>2, <2>8
    <3>4. i \in Job /\ next \in Nat
      BY <1>b, <2>1, JobAtCursor, NextCallIsTime DEF TypeOK, JobsOK
    <3>5. next_job_time'[c] <= next_job_time[c] /\ next_job_time'[c] \in Nat
      <4> HIDE DEF i, due, next
      <4> QED
        BY <1>c, <2>2, <3>4 DEF MinOf, TestNextJobCallTime
    <3> QED
      BY <1>c, <1>e, <2>1, <2>6, <3>2, <3>3, <3>5
  <2> QED
    BY <2>7, <2>8
<1>6. CASE AwaitDepends(c)
  <2>1. /\ UNCHANGED <<child_complete, curr_time_tics, disabled, next_tics, next_job_time, curr_job,
                       curr_index>>
        /\ pc[c] = "depend" /\ pc'[c] \in {"depend", "call"}
    BY <1>6, <1>b DEF AwaitDepends, Goto, childVars, jobVars, queueVars
  <2>2. InSweep(c) /\ ~child_complete[c]
    BY <2>1 DEF InSweep, InHand
  <2> QED
    BY <1>e, <2>1, <2>2 DEF ToBegin
<1>7. CASE ReturnFromJob(c)
  <2> DEFINE i == curr_job[c]
  <2>1. /\ UNCHANGED <<child_complete, curr_time_tics, disabled, curr_index, curr_job>>
        /\ pc[c] = "call" /\ pc'[c] = "sweep"
    BY <1>7, <1>b DEF ReturnFromJob, Goto, childVars, callVars
  <2>2. InSweep(c) /\ ~child_complete[c]
    BY <2>1 DEF InSweep, InHand
  <2>3. /\ curr_time_tics[c] < amf_next_tics[c] /\ FrameStart(c) <= curr_time_tics[c]
        /\ FrameStart(c) \in Int
    BY <1>b, <1>c, <2>2 DEF FrameTimes, FrameStart
  <2>4. CASE i \notin SystemJob
    <3>1. UNCHANGED <<next_tics, next_job_time>>
      BY <1>7, <2>4 DEF ReturnFromJob
    <3> QED
      BY <1>e, <2>1, <2>2, <2>4, <3>1 DEF ToBegin
  <2>5. CASE i \in SystemJob
    <3>1. PICK n \in EventTimesAfter(curr_time_tics[c]) :
            /\ next_tics' = [next_tics EXCEPT ![i] = n]
            /\ next_job_time' = [next_job_time EXCEPT ![c] =
                 TestNextJobCallTime(@, n, curr_time_tics[c])]
      BY <1>7, <1>d, <2>5 DEF ReturnFromJob
    <3>2. n \in Nat /\ n > curr_time_tics[c]
      <4>1. MaxTics > curr_time_tics[c]
        BY <1>c, <2>3
      <4>2. EventTimes \subseteq Nat
        BY ExecutiveAssumption DEF ExecutiveAssumption
      <4> QED
        BY <1>c, <4>1, <4>2 DEF EventTimesAfter
    <3>3. /\ next_job_time'[c] \in Nat
          /\ next_job_time'[c] <= next_job_time[c] /\ next_job_time'[c] <= n
      BY <1>c, <1>d, <1>b, <3>1, <3>2 DEF TestNextJobCallTime, MinOf
    <3>4. CASE i = j
      <4>1. next_tics'[j] = n
        BY <1>d, <3>1, <3>4
      <4> QED
        BY <1>c, <2>1, <2>2, <2>3, <3>2, <3>3, <4>1 DEF ToBegin
    <3>5. CASE i # j
      <4>1. next_tics'[j] = next_tics[j]
        BY <1>d, <3>1, <3>5
      <4> QED
        BY <1>c, <1>e, <2>1, <2>2, <3>3, <3>5, <4>1 DEF ToBegin
    <3> QED
      BY <3>4, <3>5
  <2> QED
    BY <2>4, <2>5
<1>8. CASE EndChildSweep(c)
  <2>1. /\ UNCHANGED <<child_complete, disabled, next_tics>> /\ pc[c] = "sweep" /\ AtEnd(c)
        /\ curr_time_tics'[c] = next_job_time[c]
    BY <1>8, <1>d DEF EndChildSweep, jobVars
  <2>2. \/ /\ next_job_time[c] < amf_next_tics[c] /\ pc'[c] = "sweep" /\ curr_index'[c] = 1
        \/ ~(next_job_time[c] < amf_next_tics[c]) /\ pc'[c] = "complete"
    BY <1>8, <1>b, <1>d, <2>1 DEF EndChildSweep, MoreOfFrame, Goto
  <2>3. InSweep(c) /\ ~child_complete[c] /\ k < curr_index[c] /\ ~(k < 1)
    <3>1. k < curr_index[c]
      BY <1>d, <2>1, QueuedJobs, Threads DEF AtEnd, QueueEnd
    <3> QED
      BY <1>d, <2>1, <3>1 DEF InSweep, InHand
  <2>4. ProcessType[c] = "AMF" => next_job_time[c] <= next_tics[j]
    BY <1>e, <2>1, <2>3
  <2>5. CASE pc'[c] = "sweep"
    BY <1>c, <1>e, <2>1, <2>2, <2>3, <2>4, <2>5 DEF ToBegin
  <2>6. CASE pc'[c] = "complete"
    BY <1>c, <1>e, <2>1, <2>2, <2>3, <2>4, <2>6 DEF ToBegin, InSweep
  <2> QED
    BY <2>2, <2>5, <2>6
<1> QED
  BY <1>1, <1>2, <1>3, <1>4, <1>5, <1>6, <1>7, <1>8, <1>b DEF ChildStep, GetNextJob

\* The master arms an AMF thread only when all its jobs have their next call at the time of the
\* last sync or later, and moves nothing of a thread that is within its jobs.
LEMMA MasterCall ==
  ASSUME JobsOnce, TypeOK, FrameCallsInv, MainStep, NEW c \in Child, HasFrames(c),
         InHand(c), Joined(c), FrameTimes(c), NEW k \in 1 .. Len(JobQueue[c])
  PROVE  FrameCall(c, k)'
<1>a. FrameCall(c, k) /\ CallsOwnJobs /\ JobQueue[c][k] \in JobsOf(c)
  BY DEF FrameCallsInv, JobsOf
<1>b. /\ next_tics'[JobQueue[c][k]] = next_tics[JobQueue[c][k]] /\ UNCHANGED disabled
      /\ curr_job'[c] = curr_job[c]
      /\ \/ curr_index'[c] = curr_index[c]
         \/ pc[0] = "mark" /\ isThreadReadyToRun(c)
  BY <1>a, MasterLeavesJobs
<1>c. curr_index'[c] = curr_index[c] \/ pc[c] \in {"wait", "waiting", "cancelled"}
  <2>1. pc[0] = "mark" /\ isThreadReadyToRun(c) => child_complete[c]
    BY DEF Joined, AmfDone, AmfDue, isThreadReadyToRun, HasFrames
  <2> QED
    BY <1>b, <2>1 DEF InHand
<1>d. next_job_time'[c] = next_job_time[c]
  BY FrameThread, MasterLeavesCalls
<1>0. /\ NumChild \in Nat /\ ii \in 0 .. NumChild + 1 /\ Child = 1 .. NumChild
      /\ amf_next_tics \in [Child -> Nat] /\ curr_time_tics \in [Child -> Nat]
      /\ child_complete \in [Child -> BOOLEAN]
      /\ ProcessType[c] \in {"ASYNC", "AMF"}
  BY TriggerAssumption DEF TypeOK, MasterOK, ChildrenOK, Child, HasFrames
<1>1. CASE MasterPass \/ FireThread
  <2>1. UNCHANGED childVars /\ pc'[c] = pc[c]
    BY <1>1, MasterGoes DEF MasterPass, FireThread
  <2> QED
    BY <1>a, <1>b, <1>c, <1>d, <2>1, FrameCallKept DEF childVars
<1>2. CASE ThreadSync
  <2>1. UNCHANGED <<child_complete, curr_time_tics>> /\ pc'[c] = pc[c]
    BY <1>2, MasterGoes DEF ThreadSync
  <2>2. CASE ii <= NumChild /\ AsyncBehind(ii) /\ ii = c
    <3>1. child_complete[c] /\ ProcessType[c] = "ASYNC"
      BY <2>2 DEF AsyncBehind
    <3>2. pc[c] \in {"wait", "waiting", "cancelled"}
      BY <3>1 DEF InHand
    <3> QED
      BY <2>1, <3>1, <3>2 DEF FrameCall, InSweep
  <2>3. CASE ~(ii <= NumChild /\ AsyncBehind(ii) /\ ii = c)
    <3>1. amf_next_tics'[c] = amf_next_tics[c]
      BY <1>0, <1>2, <2>3 DEF ThreadSync
    <3> QED
      BY <1>a, <1>b, <1>c, <1>d, <2>1, <3>1, FrameCallKept
  <2> QED
    BY <2>2, <2>3
<1>3. CASE ArmThread
  <2>1. pc[0] = "fire" /\ pc'[c] = pc[c]
    BY <1>3, MasterGoes DEF ArmThread
  <2>2. CASE ii <= NumChild /\ isThreadReadyToRun(ii) /\ ii = c
    <3>1. /\ curr_time_tics'[c] = time_tics /\ ~child_complete'[c]
      BY <1>0, <1>3, <2>2 DEF ArmThread
    <3>2. amf_next_tics[c] = time_tics
      BY <1>0, <2>2 DEF isThreadReadyToRun, HasFrames
    <3>3. child_complete[c]
      BY <1>0, <2>1, <2>2 DEF Joined, AmfDone, AmfDue, isThreadReadyToRun, HasFrames
    <3>4. pc[c] \in {"wait", "waiting", "cancelled"}
      BY <3>3 DEF InHand
    <3>5. ProcessType[c] # "ASYNC" => next_tics[JobQueue[c][k]] >= amf_next_tics[c]
      BY <1>a, <3>3 DEF FrameCall
    <3> QED
      BY <1>b, <2>1, <3>1, <3>2, <3>4, <3>5 DEF FrameCall, ToBegin, InSweep
  <2>3. CASE ~(ii <= NumChild /\ isThreadReadyToRun(ii) /\ ii = c)
    <3>1. /\ amf_next_tics'[c] = amf_next_tics[c] /\ curr_time_tics'[c] = curr_time_tics[c]
          /\ child_complete'[c] = child_complete[c]
      BY <1>0, <1>3, <2>3 DEF ArmThread
    <3> QED
      BY <1>a, <1>b, <1>c, <1>d, <2>1, <3>1, FrameCallKept
  <2> QED
    BY <2>2, <2>3
<1>4. CASE Shutdown /\ ii > NumChild
  <2>1. UNCHANGED childVars /\ pc'[c] = "cancelled"
    BY <1>0, <1>4, Threads DEF Shutdown
  <2> QED
    BY <1>a, <1>b, <1>c, <1>d, <2>1, FrameCallKept DEF childVars
<1> QED
  BY <1>1, <1>2, <1>3, <1>4, MasterPasses

\* A thread that selects a job takes it from its own queue.
LEMMA SelectsOwnJob ==
  ASSUME TypeOK, CallsOwnJobs, [Next]_vars
  PROVE  CallsOwnJobs'
<1> SUFFICES ASSUME NEW t \in Thread, pc'[t] \in {"depend", "call"}
             PROVE  curr_job'[t] \in JobsOf(t)
  BY DEF CallsOwnJobs
<1>0. curr_job \in [Thread -> Job] /\ pc \in [Thread -> MainPC \cup ChildPC]
  BY DEF TypeOK, QueuesOK, ControlOK
<1>1. ASSUME NEW u \in Thread, FindNextJob(u) \/ GetNextJob(u)
      PROVE  curr_job'[t] \in JobsOf(t)
  <2>1. JobQueue[u][curr_index[u]] \in JobsOf(u)
    BY <1>1, CursorJob DEF FindNextJob, GetNextJob, TypeOK
  <2>2. \/ /\ Goto(u, "depend")
           /\ curr_job' = [curr_job EXCEPT ![u] = JobQueue[u][curr_index[u]]]
        \/ UNCHANGED <<pc, curr_job>>
    BY <1>1 DEF FindNextJob, GetNextJob, callVars
  <2> QED
    BY <1>0, <2>1, <2>2 DEF CallsOwnJobs, Goto
<1>2. ASSUME NEW u \in Thread, AwaitDepends(u)
      PROVE  curr_job'[t] \in JobsOf(t)
  <2>1. UNCHANGED curr_job /\ pc[u] = "depend" /\ (UNCHANGED pc \/ Goto(u, "call"))
    BY <1>2 DEF AwaitDepends
  <2> QED
    BY <1>0, <2>1 DEF CallsOwnJobs, Goto
<1>3. ASSUME UNCHANGED curr_job, pc'[t] = pc[t]
      PROVE  curr_job'[t] \in JobsOf(t)
  BY <1>3 DEF CallsOwnJobs
<1>4. CASE UNCHANGED vars \/ CommandStep
  <2>1. UNCHANGED <<curr_job, pc>>
    BY <1>4, CommandKeeps DEF vars, callVars
  <2> QED
    BY <1>3, <2>1
<1>5. CASE MainStep /\ ~FindNextJob(0) /\ ~AwaitDepends(0)
  <2>1. UNCHANGED curr_job
    BY <1>5 DEF MainStep, AwaitChildren, TestFreezeCmd, EnterFreeze, FreezeLoop,
     ClearFreezeLoopCmd, LeaveFreeze, TopOfFrame, ThreadSync, MarkIncomplete, InputProcessorRun,
     ArmThread, FireThread, ReturnFromJob, ScheduledThreadSync, AdvanceSimTime,
     SchedFreezeToExecCommand, EndMainSweep, CheckCommand, ClearRunCmd, CheckTerminate,
     EndOfFrame, Shutdown, callVars
  <2>2. \/ UNCHANGED pc
        \/ \E l \in MainPC \ {"depend", "call"} : Goto(0, l)
        \/ \A u \in Thread : pc'[u] \in {"done", "cancelled"}
    <3>1. CASE Shutdown
      BY <3>1 DEF Shutdown
    <3> QED
      BY <1>5, <3>1 DEF MainStep, AwaitChildren, TestFreezeCmd, EnterFreeze, FreezeLoop,
       ClearFreezeLoopCmd, LeaveFreeze, TopOfFrame, ThreadSync, MarkIncomplete, InputProcessorRun,
       ArmThread, FireThread, ReturnFromJob, ScheduledThreadSync, AdvanceSimTime,
       SchedFreezeToExecCommand, EndMainSweep, CheckCommand, ClearRunCmd, CheckTerminate,
       EndOfFrame, MainPC
  <2>3. pc'[t] = pc[t]
    BY <1>0, <2>2 DEF Goto
  <2> QED
    BY <1>3, <2>1, <2>3
<1>6. ASSUME NEW d \in Child, ChildStep(d), ~FindNextJob(d), ~GetNextJob(d), ~AwaitDepends(d)
      PROVE  curr_job'[t] \in JobsOf(t)
  <2>1. UNCHANGED curr_job /\ (UNCHANGED pc \/ \E l \in ChildPC \ {"depend", "call"} : Goto(d, l))
    BY <1>6 DEF ChildStep, ChildStart, ChildWait, Dispatch, CatchUp, ReturnFromJob, EndChildSweep,
                ChildComplete, callVars, ChildPC
  <2>2. pc'[t] = pc[t]
    BY <1>0, <2>1 DEF Goto
  <2> QED
    BY <1>3, <2>1, <2>2
<1> QED
  BY <1>1, <1>2, <1>4, <1>5, <1>6, Threads DEF Next, Ended

\* The initial state.
LEMMA FrameCallsInit ==
  ASSUME Init
  PROVE  FrameCallsInv
<1>1. \A j \in SystemJob : ~disabled[j]
  <2>1. SystemJob \subseteq Job
    <3>1. JobsOf(0) \subseteq Job
      BY QueuedJobs, Threads DEF JobsOf
    <3>2. /\ {AdvanceJob, FreezeJob} \subseteq JobsOf(0) /\ InputJob \in Job
          /\ EventJob \subseteq Job
      BY ExecutiveAssumption DEF ExecutiveAssumption
    <3> QED
      BY <3>1, <3>2 DEF SystemJob
  <2> QED
    BY <2>1 DEF Init
<1>2. CallsOwnJobs
  BY Threads DEF Init, CallsOwnJobs
<1>3. ASSUME NEW c \in Child, HasFrames(c), NEW k \in 1 .. Len(JobQueue[c])
      PROVE  FrameCall(c, k)
  <2>1. pc[c] = "start" /\ amf_next_tics[c] = 0
    BY <1>3, Threads DEF Init
  <2>2. JobQueue[c][k] \in Job
    BY <1>3, QueuedJobs, Threads
  <2>3. next_tics[JobQueue[c][k]] \in Nat
    BY <2>2, InitTypes DEF TypeOK, JobsOK
  <2> QED
    BY <2>1, <2>3 DEF FrameCall, ToBegin, InSweep
<1> QED
  BY <1>1, <1>2, <1>3 DEF FrameCallsInv

\* Every step keeps what is known of the jobs.
LEMMA FrameCallsStep ==
  ASSUME FramesSteady, TypeOK, AllEnabled, ApartInv, FramesInv, FrameCallsInv, [Next]_vars
  PROVE  FrameCallsInv'
<1>0. CallsOwnJobs /\ FramesFit /\ JobsOnce
  BY DEF FrameCallsInv, FramesSteady
<1>a. UNCHANGED vars \/ CommandStep => UNCHANGED disabled
  BY DEF FramesSteady, CommandStep, Freeze, FreezeAt, Run, StopCmd, SetJobOnOff, SetThreadEnabled,
         SetJobCycle, Command, vars, jobVars
<1>1. \A j \in SystemJob : ~disabled'[j]
  <2>1. MainStep => UNCHANGED disabled
    BY DEF MainStep, AwaitChildren, TestFreezeCmd, EnterFreeze, FreezeLoop,
       ClearFreezeLoopCmd, LeaveFreeze, TopOfFrame, ThreadSync, MarkIncomplete, InputProcessorRun,
       ArmThread, FireThread, FindNextJob, AwaitDepends, ReturnFromJob, ScheduledThreadSync,
       AdvanceSimTime, SchedFreezeToExecCommand, EndMainSweep, CheckCommand, ClearRunCmd,
       CheckTerminate, EndOfFrame, Shutdown, jobVars
  <2>2. ASSUME NEW c \in Child, ChildStep(c) PROVE UNCHANGED disabled
    BY <2>2 DEF ChildStep, ChildStart, ChildWait, Dispatch, CatchUp, FindNextJob, AwaitDepends,
       ReturnFromJob, GetNextJob, EndChildSweep, ChildComplete, jobVars
  <2>3. UNCHANGED disabled
    BY <1>a, <2>1, <2>2 DEF Next, Ended
  <2> QED
    BY <2>3 DEF FrameCallsInv
<1>2. CallsOwnJobs'
  BY <1>0, SelectsOwnJob
<1>3. ASSUME NEW c \in Child, HasFrames(c), NEW k \in 1 .. Len(JobQueue[c])
      PROVE  FrameCall(c, k)'
  <2>0. /\ InHand(c) /\ Joined(c) /\ FrameTimes(c) /\ FrameCall(c, k)
        /\ JobQueue[c][k] \in JobsOf(c)
    BY <1>3, FrameThread DEF ApartInv, FramesInv, FrameCallsInv, JobsOf
  <2>1. CASE UNCHANGED vars \/ CommandStep
    <3>1. /\ UNCHANGED <<pc, curr_time_tics, child_complete, amf_next_tics, curr_index,
                         next_job_time, curr_job, disabled>>
      BY <1>a, <2>1, CommandKeeps DEF vars, queueVars, callVars, childVars
    <3>2. next_tics'[JobQueue[c][k]] = next_tics[JobQueue[c][k]]
      <4>1. JobQueue[c][k] \in Job /\ JobQueue[c][k] # FreezeJob
        BY <1>0, <1>3, <2>0, OwnJobs
      <4> QED
        BY <2>1, <4>1 DEF FramesSteady, CommandStep, Freeze, FreezeAt, Run, StopCmd, SetJobOnOff,
           SetThreadEnabled, SetJobCycle, Command, vars, jobVars, TypeOK, JobsOK
    <3> QED
      BY <1>3, <2>0, <3>1, <3>2, FrameCallKept
  <2>2. CASE MainStep
    BY <1>0, <1>3, <2>0, <2>2, MasterCall
  <2>3. ASSUME NEW d \in Child, ChildStep(d)
        PROVE  FrameCall(c, k)'
    <3>1. CASE d = c
      BY <1>0, <1>3, <2>0, <2>3, <3>1, ChildCall
    <3>2. CASE d # c
      <4>1. /\ pc'[c] = pc[c] /\ child_complete'[c] = child_complete[c]
            /\ amf_next_tics'[c] = amf_next_tics[c] /\ curr_time_tics'[c] = curr_time_tics[c]
            /\ next_job_time'[c] = next_job_time[c] /\ curr_index'[c] = curr_index[c]
        BY <1>3, <2>3, <3>2, ChildAlone
      <4>2. /\ next_tics'[JobQueue[c][k]] = next_tics[JobQueue[c][k]] /\ UNCHANGED disabled
            /\ curr_job'[c] = curr_job[c]
        BY <1>0, <1>3, <2>0, <2>3, <3>2, ChildLeavesJobs
      <4> QED
        BY <1>3, <2>0, <4>1, <4>2, FrameCallKept
    <3> QED
      BY <3>1, <3>2
  <2> QED
    BY <2>1, <2>2, <2>3 DEF Next, Ended
<1> QED
  BY <1>1, <1>2, <1>3 DEF FrameCallsInv, HasFrames

\* A thread with a cycle leaves no job behind: when it sweeps its queue, no enabled job has a call
\* time before its frame.  An ASYNC thread that missed frames has caught up, and an AMF thread,
\* which the master awaits, ends a frame only when each job has its next call after it.
THEOREM FrameJobsAreCaughtUp == ASSUME FramesSteady PROVE Spec => []FrameJobsCaughtUp
<1>0. StaticThreads /\ ~SpuriousWakeups /\ FramesFit
  BY DEF FramesSteady, StaticThreads
<1>1. Init => FrameCallsInv
  BY FrameCallsInit
<1>2. /\ TypeOK /\ SyncInv /\ ApartInv /\ FramesInv /\ FrameCallsInv /\ [Next]_vars
      => FrameCallsInv'
  BY FrameCallsStep DEF SyncInv
<1>3. TypeOK /\ FramesInv /\ FrameCallsInv => FrameJobsCaughtUp
  <2> SUFFICES ASSUME TypeOK, FramesInv, FrameCallsInv, NEW c \in Child, HasFrames(c), InSweep(c),
                      NEW k \in 1 .. Len(JobQueue[c]), ~disabled[JobQueue[c][k]]
               PROVE  next_tics[JobQueue[c][k]] >= amf_next_tics[c] - AmfCycle[c]
    BY DEF FrameJobsCaughtUp, JobsOf, InSweep
  <2>1. FrameCall(c, k) /\ FrameTimes(c)
    BY DEF FrameCallsInv, FramesInv
  <2>2. next_tics[JobQueue[c][k]] \in Nat
    BY QueuedJobs, Threads DEF TypeOK, JobsOK
  <2>3. /\ amf_next_tics[c] \in Nat /\ AmfCycle[c] \in Nat /\ curr_time_tics[c] \in Nat
    BY FrameNumbers
  <2>4. CASE ProcessType[c] = "ASYNC"
    BY <2>1, <2>4 DEF FrameCall, FrameStart
  <2>5. CASE ProcessType[c] # "ASYNC"
    <3>1. next_tics[JobQueue[c][k]] >= curr_time_tics[c]
      BY <2>1, <2>5 DEF FrameCall
    <3>2. curr_time_tics[c] >= amf_next_tics[c] - AmfCycle[c]
      BY <2>1, <2>3 DEF FrameTimes, FrameStart
    <3> QED
      BY <2>2, <2>3, <3>1, <3>2
  <2> QED
    BY <2>4, <2>5
<1>4. Spec => []SyncInv
  BY <1>0, SyncInvariant
<1>5. Spec => []ApartInv /\ []FramesInv
  BY <1>0, ApartInvariant, FramesInvariant
<1> QED
  BY <1>1, <1>2, <1>3, <1>4, <1>5, TypeCorrect, PTL DEF Spec

--------------------------------------------------------------------------------
(***************************************************************************)
(* The schedule: multiples.                                                *)
(***************************************************************************)
\* What division gives.
LEMMA Quotient ==
  ASSUME NEW a \in Nat, NEW c \in Nat \ {0}
  PROVE  a \div c \in Nat /\ a % c \in 0 .. c - 1 /\ a = c * (a \div c) + (a % c)
BY SMT

\* A number that leaves no remainder is a multiple,
LEMMA Multiple ==
  ASSUME NEW a \in Nat, NEW c \in Nat \ {0}, a % c = 0
  PROVE  \E q \in Nat : a = c * q
<1>1. a \div c \in Nat /\ a = c * (a \div c) + (a % c)
  BY Quotient
<1>2. c * (a \div c) \in Nat
  BY <1>1, SMT
<1> QED
  BY <1>1, <1>2

\* and a multiple leaves none.
LEMMA MultipleOf ==
  ASSUME NEW a \in Nat, NEW c \in Nat \ {0}, NEW q \in Nat, a = c * q
  PROVE  a % c = 0
BY SMT

\* Multiples are a step apart at least.
LEMMA Steps ==
  ASSUME NEW c \in Nat \ {0}, NEW p \in Nat, NEW q \in Nat
  PROVE  c * p \in Nat /\ c * q \in Nat /\ (p > q => c * p >= c * q + c)
<1>1. c * p \in Nat /\ c * q \in Nat
  BY SMT
<1>2. ASSUME p > q
      PROVE  c * p >= c * q + c
  <2>1. PICK d \in Nat : p = q + 1 + d
    <3>1. p - q - 1 \in Nat /\ p = q + 1 + (p - q - 1)
      BY <1>2
    <3> QED
      BY <3>1
  <2>2. c * p = c * q + c + c * d /\ c * d \in Nat
    BY <2>1, SMT
  <2> QED
    BY <1>1, <2>2
<1> QED
  BY <1>1, <1>2

\* After a multiple of c the next one is c further.
LEMMA NextMultiple ==
  ASSUME NEW a \in Nat, NEW c \in Nat \ {0}, a % c = 0
  PROVE  /\ (a + c) % c = 0
         /\ \A b \in Nat : b % c = 0 /\ b > a => b >= a + c
<1>1. PICK q \in Nat : a = c * q
  BY Multiple
<1>2. (a + c) % c = 0
  <2>1. PICK b \in Nat : b = a + c
    OBVIOUS
  <2>2. b = c * (q + 1) /\ q + 1 \in Nat
    BY <1>1, <2>1, SMT
  <2>3. b % c = 0
    BY <2>2, MultipleOf
  <2> QED
    BY <2>1, <2>3
<1>3. ASSUME NEW b \in Nat, b % c = 0, b > a
      PROVE  b >= a + c
  <2>1. PICK p \in Nat : b = c * p
    BY <1>3, Multiple
  <2>2. p < q => c * q >= c * p + c
    BY Steps
  <2>3. p > q => c * p >= c * q + c
    BY Steps
  <2>4. c * p \in Nat /\ c * q \in Nat
    BY Steps
  <2>5. p < q \/ p = q \/ p > q
    OBVIOUS
  <2> QED
    BY <1>1, <1>3, <2>1, <2>2, <2>3, <2>4, <2>5
<1> QED
  BY <1>2, <1>3

--------------------------------------------------------------------------------
(***************************************************************************)
(* The jobs and their queues.                                              *)
(***************************************************************************)
\* The constants.
LEMMA Constants ==
  /\ Cycle \in [Job -> Nat \ {0}] /\ Stop \in [Job -> Nat] /\ Start \in [Job -> Nat]
  /\ TerminateTime \in Nat /\ MaxTics \in Nat /\ TerminateTime < MaxTics /\ SoftwareFrame \in Nat \ {0}
  /\ FreezeJob \in SystemJob /\ InputJob \in SystemJob /\ AdvanceJob \in SystemJob /\ EventJob \subseteq SystemJob
  /\ UserJob \subseteq Job /\ UserJob \cap SystemJob = {} /\ IntegLoopJob \subseteq UserJob
  /\ \A j \in UserJob : FirstCall(j) \in Nat
<1>1. /\ Cycle \in [Job -> Nat \ {0}] /\ Stop \in [Job -> Nat] /\ Start \in [Job -> Nat]
      /\ TerminateTime \in Nat /\ MaxTics \in Nat /\ TerminateTime < MaxTics /\ SoftwareFrame \in Nat \ {0}
      /\ IntegLoopJob \subseteq UserJob
  BY ExecutiveAssumption DEF ExecutiveAssumption
<1>2. \A j \in UserJob : FirstCall(j) \in Nat
  BY <1>1 DEF FirstCall, UserJob
<1> QED
  BY <1>1, <1>2 DEF SystemJob, UserJob

\* The jobs of the executive are not those of the user.
LEMMA SystemJobs ==
  /\ FreezeJob \in Job /\ FreezeJob \in SystemJob /\ FreezeJob # InputJob /\ FreezeJob # AdvanceJob
  /\ FreezeJob \notin UserJob /\ AdvanceJob \in Job /\ AdvanceJob \in SystemJob /\ AdvanceJob \notin UserJob
<1>1. {AdvanceJob, FreezeJob} \subseteq JobsOf(0) /\ AdvanceJob # FreezeJob /\ FreezeJob # InputJob
  BY ExecutiveAssumption DEF ExecutiveAssumption
<1>2. FreezeJob \in Job /\ AdvanceJob \in Job
  BY <1>1, QueuedJobs, Threads DEF JobsOf
<1> QED
  BY <1>1, <1>2 DEF SystemJob, UserJob

\* Where a job is, it is alone.
LEMMA OnePlace ==
  ASSUME JobsOnce, NEW t \in Thread, NEW u \in Thread,
         NEW k \in 1 .. Len(JobQueue[t]), NEW l \in 1 .. Len(JobQueue[u]),
         JobQueue[t][k] = JobQueue[u][l]
  PROVE  t = u /\ k = l
BY DEF JobsOnce

\* The job of a queue is one of the jobs of the thread.
LEMMA InJobs ==
  ASSUME NEW t \in Thread, NEW k \in 1 .. Len(JobQueue[t])
  PROVE  JobQueue[t][k] \in JobsOf(t) /\ JobQueue[t][k] \in Job
BY QueuedJobs DEF JobsOf

\* The cursor points into the queue until it is at the end.
LEMMA CursorInQueue ==
  ASSUME TypeOK, NEW t \in Thread, ~AtEnd(t)
  PROVE  curr_index[t] \in 1 .. Len(JobQueue[t])
<1>1. curr_index[t] \in Nat \ {0} /\ Len(JobQueue[t]) \in Nat
  BY QueuedJobs DEF TypeOK, QueuesOK
<1> QED
  BY <1>1 DEF AtEnd, QueueEnd

\* A job of a thread that runs one is the one before its cursor.
LEMMA SelectedHere ==
  ASSUME TypeOK, JobsOnce, CursorBehind, NEW t \in Thread, NEW k \in 1 .. Len(JobQueue[t])
  PROVE  Selected(JobQueue[t][k]) <=>
           pc[t] \in {"depend", "call"} /\ curr_job[t] = JobQueue[t][k] /\ k = curr_index[t] - 1
<1>1. ASSUME NEW u \in Thread, pc[u] \in {"depend", "call"}, curr_job[u] = JobQueue[t][k]
      PROVE  u = t /\ k = curr_index[u] - 1
  <2>1. curr_index[u] > 1 /\ JobQueue[u][curr_index[u] - 1] = curr_job[u]
    BY <1>1 DEF CursorBehind
  <2>2. curr_index[u] - 1 \in 1 .. Len(JobQueue[u])
    BY <2>1, QueuedJobs DEF TypeOK, QueuesOK
  <2> QED
    BY <1>1, <2>1, <2>2, OnePlace
<1>2. ASSUME Selected(JobQueue[t][k])
      PROVE  pc[t] \in {"depend", "call"} /\ curr_job[t] = JobQueue[t][k] /\ k = curr_index[t] - 1
  <2>1. PICK u \in Thread : pc[u] \in {"depend", "call"} /\ curr_job[u] = JobQueue[t][k]
    BY <1>2 DEF Selected
  <2> QED
    BY <1>1, <2>1
<1> QED
  BY <1>2 DEF Selected

\* Where the job is that advances the time, and what that says of the pass.
LEMMA AdvancePlace ==
  ASSUME TypeOK, JobsOnce, ClassOrder
  PROVE  \E p \in 1 .. Len(JobQueue[0]) :
           /\ JobQueue[0][p] = AdvanceJob
           /\ \A k \in 1 .. Len(JobQueue[0]) : (IsTail(JobQueue[0][k]) <=> k > p)
                                              /\ (JobQueue[0][k] = AdvanceJob <=> k = p)
           /\ AdvanceAhead <=> p >= curr_index[0] \/ (pc[0] \in {"depend", "call"} /\ curr_job[0] = AdvanceJob)
<1>1. PICK p \in 1 .. Len(JobQueue[0]) : JobQueue[0][p] = AdvanceJob
  BY AdvanceFacts
<1>2. \A k \in 1 .. Len(JobQueue[0]) : IsTail(JobQueue[0][k]) <=> k > p
  BY <1>1 DEF ClassOrder
<1>3. \A k \in 1 .. Len(JobQueue[0]) : JobQueue[0][k] = AdvanceJob <=> k = p
  BY <1>1, Threads, OnePlace
<1>4. curr_index[0] \in Nat \ {0} /\ Len(JobQueue[0]) \in Nat
  BY Threads, QueuedJobs DEF TypeOK, QueuesOK
<1>5. (\E k \in curr_index[0] .. Len(JobQueue[0]) : JobQueue[0][k] = AdvanceJob) <=> p >= curr_index[0]
  BY <1>1, <1>3, <1>4
<1> QED
  BY <1>1, <1>2, <1>3, <1>5 DEF AdvanceAhead

--------------------------------------------------------------------------------
(***************************************************************************)
(* What a step leaves alone.                                               *)
(***************************************************************************)
\* The types the proofs use all the time.
LEMMA Typed ==
  ASSUME TypeOK
  PROVE  /\ time_tics \in Nat /\ time_last_pass_tics \in Nat /\ next_frame_check_tics \in Nat
         /\ frame_count \in Nat /\ cmds \in Nat /\ ii \in Nat
         /\ \A j \in Job : next_tics[j] \in Nat /\ last_call[j] \in Int
         /\ \A t \in Thread : next_job_time[t] \in Nat /\ curr_index[t] \in Nat \ {0}
         /\ \A c \in Child : amf_next_tics[c] \in Nat
         /\ next_tics \in [Job -> Nat] /\ last_call \in [Job -> Int] /\ disabled \in [Job -> BOOLEAN]
         /\ next_job_time \in [Thread -> Nat] /\ curr_index \in [Thread -> Nat]
         /\ curr_job \in [Thread -> Job] /\ pc \in [Thread -> MainPC \cup ChildPC]
         /\ child_complete \in [Child -> BOOLEAN] /\ amf_next_tics \in [Child -> Nat]
         /\ freeze_times \subseteq Nat
BY DEF TypeOK, ClockOK, JobsOK, QueuesOK, ChildrenOK, MasterOK, ControlOK, ModeOK

\* A step that the call time of a job does not notice, nor its queue if it was swept.
LEMMA JobKept ==
  ASSUME TypeOK, TypeOK', NEW t \in Thread, NEW k \in 1 .. Len(JobQueue[t]), JobAhead(t, k),
         next_tics'[JobQueue[t][k]] = next_tics[JobQueue[t][k]], time_tics' = time_tics,
         Swept(t, k)' => Swept(t, k) /\ next_job_time'[t] <= next_job_time[t],
         SetsItsTime(JobQueue[t][k]) => SetsItsTime(JobQueue[t][k])'
  PROVE  JobAhead(t, k)'
<1>1. PICK j \in Job : j = JobQueue[t][k]
  BY InJobs
<1>2. CASE j = AdvanceJob
  BY <1>1, <1>2 DEF JobAhead
<1>3. CASE j # AdvanceJob
  <2>1. /\ next_tics'[j] = next_tics[j] /\ next_tics[j] \in Nat /\ time_tics \in Nat
        /\ next_job_time[t] \in Nat /\ next_job_time'[t] \in Nat
    BY <1>1, Typed DEF TypeOK, QueuesOK
  <2>2. next_tics'[j] >= time_tics'
    BY <1>1, <1>3, <2>1 DEF JobAhead
  <2>3. Swept(t, k)' => SetsItsTime(j)' \/ next_tics'[j] > time_tics'
    <3>1. Swept(t, k) => SetsItsTime(j) \/ next_tics[j] > time_tics
      BY <1>1, <1>3 DEF JobAhead
    <3> QED
      BY <1>1, <2>1, <3>1
  <2>4. Swept(t, k)' /\ ~(t = 0 /\ IsTail(j)) => SetsItsTime(j)' \/ next_job_time'[t] <= next_tics'[j]
    <3>1. Swept(t, k) /\ ~(t = 0 /\ IsTail(j)) => SetsItsTime(j) \/ next_job_time[t] <= next_tics[j]
      BY <1>1, <1>3 DEF JobAhead
    <3>2. Swept(t, k)' /\ next_job_time[t] <= next_tics[j] => next_job_time'[t] <= next_tics'[j]
      BY <2>1
    <3> QED
      BY <1>1, <3>1, <3>2
  <2> QED
    BY <1>1, <2>2, <2>3, <2>4 DEF JobAhead
<1> QED
  BY <1>2, <1>3

\* A step that does not change call times.
LEMMA CallsKept ==
  ASSUME TypeOK, TypeOK', CallsAhead, UNCHANGED <<time_tics, next_tics>>,
         \A t \in Thread : InStep(t) => \A k \in 1 .. Len(JobQueue[t]) :
            /\ Swept(t, k)' => Swept(t, k) /\ next_job_time'[t] <= next_job_time[t]
            /\ SetsItsTime(JobQueue[t][k]) => SetsItsTime(JobQueue[t][k])'
  PROVE  CallsAhead'
<1> SUFFICES ASSUME NEW t \in Thread, InStep(t), NEW k \in 1 .. Len(JobQueue[t])
             PROVE  JobAhead(t, k)'
  BY DEF CallsAhead, InStep
<1>1. JobAhead(t, k)
  BY DEF CallsAhead
<1> QED
  BY <1>1, JobKept

\* A step that does not concern a job keeps its history.
LEMMA HistoryKept ==
  ASSUME NEW j, JobHistory(j), time_tics' = time_tics,
         next_tics'[j] = next_tics[j], last_call'[j] = last_call[j], Selected(j)' <=> Selected(j)
  PROVE  JobHistory(j)'
<1>1. \A n : Due(j, n)' <=> Due(j, n)
  BY DEF Due, Schedule!DueAt
<1>2. Handled(j)' = Handled(j)
  BY DEF Handled
<1> QED
  BY <1>1, <1>2 DEF JobHistory

\* The parts of the invariant about calls.
CallsInv == CursorBehind /\ CallsAhead /\ QueueAhead /\ JobsStatic /\ FreezeDue /\ History

\* A step that neither takes a job from a queue nor gives it a call time.
LEMMA CallsStill ==
  ASSUME TypeOK, TypeOK', CallsInv,
         UNCHANGED <<time_tics, next_tics, cycle_tics, disabled, last_call, curr_job, freeze_times>>,
         \A t \in Thread : pc'[t] \in {"depend", "call"} <=> pc[t] \in {"depend", "call"},
         \A t \in Thread : pc[t] \in {"depend", "call"} => curr_index'[t] = curr_index[t],
         \A t \in Thread : InStep(t) => \A k \in 1 .. Len(JobQueue[t]) :
            Swept(t, k)' => Swept(t, k) /\ next_job_time'[t] <= next_job_time[t],
         QueueAhead', cmds' = 0 => cmds = 0
  PROVE  CallsInv'
<1>1. \A j : Selected(j)' <=> Selected(j)
  BY DEF Selected
<1>2. CursorBehind'
  BY DEF CallsInv, CursorBehind
<1>3. CallsAhead'
  <2>1. \A j : SetsItsTime(j) => SetsItsTime(j)'
    BY <1>1 DEF SetsItsTime
  <2> QED
    BY <2>1, CallsKept DEF CallsInv
<1>4. JobsStatic' /\ FreezeDue'
  BY <1>1 DEF CallsInv, JobsStatic, FreezeDue
<1>5. History'
  <2> SUFFICES ASSUME Undisturbed'
               PROVE  (\A j \in Job : ~disabled'[j]) /\ \A j \in SyncJob : JobHistory(j)'
    BY DEF History, SyncJob
  <2>1. Undisturbed
    BY DEF Undisturbed, StopsLater
  <2>2. \A j \in SyncJob : JobHistory(j)
    BY <2>1 DEF CallsInv, History
  <2> QED
    BY <1>1, <2>1, <2>2, HistoryKept DEF CallsInv, History
<1> QED
  BY <1>2, <1>3, <1>4, <1>5 DEF CallsInv

\* A step of the master that neither touches a job nor enters or leaves the sweep.
LEMMA CallsUnmoved ==
  ASSUME TypeOK, TypeOK', CallsInv,
         UNCHANGED <<time_tics, next_tics, next_job_time, cycle_tics, disabled, last_call,
                     curr_index, curr_job, freeze_times>>,
         \A c \in Child : pc'[c] = pc[c],
         \A c \in Child : ProcessType[c] = "SCHEDULED" /\ child_complete'[c] /\ StartedInPass(c)'
                          => child_complete[c] /\ StartedInPass(c),
         pc'[0] = pc[0] \/ (~InSweep(0) /\ ~InSweep(0)'),
         cmds' = 0 => cmds = 0
  PROVE  CallsInv'
<1>1. \A t \in Thread : pc'[t] \in {"depend", "call"} <=> pc[t] \in {"depend", "call"}
  BY Threads DEF InSweep
<1>2. \A t \in Thread : (InSweep(t)' <=> InSweep(t)) /\ (t # 0 => pc'[t] = pc[t])
  BY Threads DEF InSweep
<1>3. InSweep(0) => (AdvanceAhead' <=> AdvanceAhead)
  BY DEF AdvanceAhead
<1>4. \A t \in Thread : InStep(t) => \A k : Swept(t, k)' => Swept(t, k)
  BY <1>2, <1>3, Threads DEF Swept, InStep
<1>5. \A t \in Thread : next_job_time'[t] <= next_job_time[t]
  BY Typed
<1>6. QueueAhead'
  BY <1>2, Threads DEF CallsInv, QueueAhead, AtEnd
<1> QED
  BY <1>1, <1>4, <1>5, <1>6, CallsStill

\* The parts of it about the time.
TimeInv == FrameInv /\ AmfAhead

\* The parts of the invariant, as the lemmas on the steps take them.
LEMMA Parts == ScheduleInv <=> CallsInv /\ TimeInv /\ Started /\ LastPass
BY DEF ScheduleInv, CallsInv, TimeInv

AtExit == pc[0] \in {"shutdown", "done"}

\* A step within one of the three stretches of a pass, or to the end.
LEMMA TimeUnmoved ==
  ASSUME TimeInv, UNCHANGED <<clockVars, amf_next_tics>>,
         AtExit' \/ (~AtExit /\ ~AtExit' /\ (BeforeTop' <=> BeforeTop) /\ (AfterAdvance' <=> AfterAdvance)),
         pc'[0] = "eof" => ~TerminateReached,
         \A c \in Child : StartedInPass(c)' \/ Armed(c)' => StartedInPass(c) \/ Armed(c)
  PROVE  TimeInv'
<1>1. AmfAhead'
  BY DEF TimeInv, AmfAhead, clockVars
<1>2. /\ time_last_pass_tics' = time_last_pass_tics /\ time_tics' = time_tics
      /\ next_frame_check_tics' = next_frame_check_tics /\ frame_count' = frame_count
      /\ AtFrameStart' = AtFrameStart /\ TerminateReached' = TerminateReached
  BY DEF clockVars, AtFrameStart, TerminateReached
<1>3. AtExit' => ~BeforeTop' /\ ~AfterAdvance' /\ pc'[0] # "eof"
  BY DEF AtExit, BeforeTop, AfterAdvance, InSweep
<1>4. FrameInv'
  BY <1>2, <1>3 DEF TimeInv, FrameInv, AtExit
<1> QED
  BY <1>1, <1>4 DEF TimeInv

\* A step that leaves the calls and the commands alone, within one stretch of a pass.
LEMMA LastPassKept ==
  ASSUME LastPass, UNCHANGED <<clockVars, next_tics, cmds, exec_command>>,
         AfterAdvance' => AfterAdvance, AtExit' => AtExit,
         pc'[0] # pc[0] => ~AtExit
  PROVE  LastPass'
BY DEF LastPass, AtExit, TerminateReached, clockVars, SyncJob

--------------------------------------------------------------------------------
(***************************************************************************)
(* The master outside the sweep.                                           *)
(***************************************************************************)
\* In a freeze no job is looked at and the time stands.
LEMMA FreezeSchedule ==
  ASSUME TypeOK, TypeOK', SyncInv, ScheduleInv,
         AwaitChildren \/ TestFreezeCmd \/ EnterFreeze \/ FreezeLoop \/ ClearFreezeLoopCmd \/ LeaveFreeze
  PROVE  ScheduleInv'
<1>1. /\ UNCHANGED <<clockVars, time_tics, next_tics, next_job_time, cycle_tics, disabled, last_call, curr_index,
                     curr_job, child_complete, freeze_times, cmds, amf_next_tics>>
      /\ \A c \in Child : pc'[c] = pc[c]
      /\ pc[0] \in {"init", "loop", "clear", "freeze", "resume", "refreeze", "unfreeze"}
      /\ pc'[0] \in {"init", "loop", "clear", "freeze", "resume", "refreeze", "unfreeze", "top", "shutdown"}
  <2>1. ASSUME NEW l \in {"loop", "clear", "freeze", "resume", "refreeze", "unfreeze", "top", "shutdown"}, Goto(0, l)
        PROVE  pc'[0] = l /\ \A c \in Child : pc'[c] = pc[c]
    BY <2>1, MasterMoves DEF TypeOK, MainPC
  <2> QED
    BY <2>1 DEF AwaitChildren, TestFreezeCmd, EnterFreeze, FreezeLoop, ClearFreezeLoopCmd, LeaveFreeze,
                clockVars, jobVars, queueVars, callVars, childVars, modeVars
<1>2. \A c \in Child : ~StartedInPass(c)' /\ ~Armed(c)'
  BY <1>1 DEF StartedInPass, InSweep, Armed
<1>3. CallsInv'
  BY <1>1, <1>2, CallsUnmoved, Parts DEF InSweep
<1>4. TimeInv'
  BY <1>1, <1>2, TimeUnmoved, Parts DEF AtExit, BeforeTop, AfterAdvance, InSweep
<1>5. Started'
  <2>1. CASE AwaitChildren
    <3>1. \/ ii <= NumChild /\ child_complete[ii] /\ ii' = ii + 1 /\ pc'[0] = "init"
          \/ ii > NumChild
      BY <1>1, <2>1 DEF AwaitChildren
    <3>2. NumChild \in Nat /\ ii \in Nat
      BY TriggerAssumption, Typed
    <3>3. \A c \in Child : c \in 1 .. NumChild /\ (child_complete[c] => pc[c] # "start")
      BY DEF SyncInv, Handshake, InHand, Child
    <3>4. \A c \in Child : /\ pc[c] = "start" => c >= ii
                           /\ pc[c] = "catchup" => ProcessType[c] = "ASYNC"
      BY DEF ScheduleInv, Started
    <3> QED
      BY <1>1, <3>1, <3>2, <3>3, <3>4 DEF Started
  <2>2. CASE ~AwaitChildren
    <3>1. pc[0] # "init"
      BY <2>2 DEF TestFreezeCmd, EnterFreeze, FreezeLoop, ClearFreezeLoopCmd, LeaveFreeze
    <3> QED
      BY <1>1, <3>1 DEF ScheduleInv, Started
  <2> QED
    BY <2>1, <2>2
<1>6. LastPass'
  <2>1. ~AfterAdvance'
    BY <1>1 DEF AfterAdvance, InSweep
  <2>2. cmds' = 0 => exec_command \notin {"ExitCmd", "RunCmd"}
    BY <1>1, Parts DEF LastPass
  <2>3. exec_command' \in {exec_command, "NoCmd"}
    BY DEF AwaitChildren, TestFreezeCmd, EnterFreeze, FreezeLoop, ClearFreezeLoopCmd, LeaveFreeze, modeVars
  <2>4. exec_command # "ExitCmd" => pc'[0] # "shutdown"
    <3>1. \/ \E l \in {"loop", "clear", "freeze", "resume", "refreeze", "unfreeze", "top"} : Goto(0, l)
          \/ pc' = pc \/ exec_command = "ExitCmd"
      BY DEF AwaitChildren, TestFreezeCmd, EnterFreeze, FreezeLoop, ClearFreezeLoopCmd, LeaveFreeze
    <3> QED
      BY <1>1, <3>1, MasterMoves DEF TypeOK, MainPC
  <2> QED
    BY <1>1, <2>1, <2>2, <2>3, <2>4 DEF LastPass
<1> QED
  BY <1>3, <1>4, <1>5, <1>6, Parts, Zenon DEF ScheduleInv, CallsInv, TimeInv

\* The master goes to a label, in any of its actions.
LEMMA MasterAt ==
  ASSUME TypeOK, NEW l \in MainPC, Goto(0, l)
  PROVE  pc'[0] = l /\ \A c \in Child : pc'[c] = pc[c]
BY MasterMoves DEF TypeOK

\* The frames begun are counted when a frame begins.
LEMMA TopOfFrameSchedule ==
  ASSUME TypeOK, TypeOK', ScheduleInv, TopOfFrame
  PROVE  ScheduleInv'
<1>1. /\ UNCHANGED <<time_tics, next_tics, next_job_time, cycle_tics, disabled, last_call, curr_index,
                     curr_job, child_complete, freeze_times, cmds, amf_next_tics, exec_command,
                     time_last_pass_tics, next_frame_check_tics>>
      /\ frame_count' = IF AtFrameStart THEN frame_count + 1 ELSE frame_count
      /\ pc[0] = "top"
  BY DEF TopOfFrame, jobVars, queueVars, callVars, childVars, modeVars
<1>2. pc'[0] \in {"sync", "input"} /\ \A c \in Child : pc'[c] = pc[c]
  BY MasterAt DEF TopOfFrame, MainPC
<1>3. \A c \in Child : ~StartedInPass(c)' /\ ~Armed(c)'
  BY <1>2 DEF StartedInPass, InSweep, Armed
<1>4. CallsInv'
  BY <1>1, <1>2, <1>3, CallsUnmoved, Parts DEF InSweep
<1>5. AmfAhead'
  BY <1>1, <1>3 DEF ScheduleInv, AmfAhead
<1>6. FrameInv'
  <2>1. frame_count' * SoftwareFrame = next_frame_check_tics
    <3>1. PICK n \in Nat : n = frame_count * SoftwareFrame
      BY Typed, Constants, SMT
    <3>2. (frame_count + 1) * SoftwareFrame = n + SoftwareFrame
      BY <3>1, Typed, Constants, SMT
    <3>3. n = IF AtFrameStart THEN next_frame_check_tics - SoftwareFrame ELSE next_frame_check_tics
      BY <1>1, <3>1 DEF ScheduleInv, FrameInv, BeforeTop
    <3>4. next_frame_check_tics \in Nat /\ SoftwareFrame \in Nat
      BY Typed, Constants
    <3>5. CASE AtFrameStart
      BY <1>1, <3>2, <3>3, <3>4, <3>5
    <3>6. CASE ~AtFrameStart
      BY <1>1, <3>1, <3>3, <3>6
    <3> QED
      BY <3>5, <3>6
  <2>2. /\ time_last_pass_tics <= time_tics /\ time_tics <= TerminateTime
        /\ time_tics < next_frame_check_tics /\ time_tics <= next_frame_check_tics
        /\ next_frame_check_tics <= time_tics + SoftwareFrame
    BY <1>1 DEF ScheduleInv, FrameInv, AfterAdvance, InSweep
  <2>3. ~BeforeTop' /\ ~AfterAdvance' /\ pc'[0] # "eof"
    BY <1>2 DEF BeforeTop, AfterAdvance, InSweep
  <2> QED
    BY <1>1, <2>1, <2>2, <2>3 DEF FrameInv
<1>7. Started' /\ LastPass'
  BY <1>1, <1>2 DEF ScheduleInv, Started, LastPass, AfterAdvance, InSweep
<1> QED
  BY <1>4, <1>5, <1>6, <1>7 DEF ScheduleInv, CallsInv

\* A thread that is ready when the jobs are marked is out of its jobs.
LEMMA ReadyIsIdle ==
  ASSUME SyncInv, pc[0] = "mark", NEW c \in Child, isThreadReadyToRun(c)
  PROVE  child_complete[c] /\ pc[c] \in {"wait", "waiting", "cancelled"}
<1>1. child_complete[c]
  BY ExecutiveAssumption DEF SyncInv, Phases, ScheduledDone, AmfDone, AmfDue, isThreadReadyToRun,
                             ExecutiveAssumption, ProcessKind
<1> QED
  BY <1>1 DEF SyncInv, Handshake, InHand

\* Synchronizing the threads and marking the jobs leaves the calls as they are.
LEMMA ThreadSyncSchedule ==
  ASSUME TypeOK, TypeOK', SyncInv, ScheduleInv, ThreadSync \/ MarkIncomplete
  PROVE  ScheduleInv'
<1>1. /\ UNCHANGED <<clockVars, time_tics, next_tics, next_job_time, cycle_tics, disabled, last_call,
                     curr_job, child_complete, freeze_times, cmds, exec_command, time_last_pass_tics>>
      /\ pc[0] \in {"sync", "mark"}
  <2>1. CASE ThreadSync
    BY <2>1 DEF ThreadSync, clockVars, jobVars, queueVars, callVars, modeVars
  <2>2. CASE MarkIncomplete
    BY <2>2 DEF MarkIncomplete, clockVars, callVars, modeVars, childVars
  <2> QED
    BY <2>1, <2>2
<1>2. pc'[0] \in {"sync", "mark", "input"} /\ \A c \in Child : pc'[c] = pc[c]
  BY MasterAt DEF ThreadSync, MarkIncomplete, MainPC
<1>3. \A c \in Child : ~StartedInPass(c)' /\ ~Armed(c)' /\ ~StartedInPass(c)
  BY <1>1, <1>2 DEF StartedInPass, InSweep, Armed
<1>4. \A t \in Thread : /\ pc[t] \in {"sweep", "depend", "call", "complete"} => curr_index'[t] = curr_index[t]
                        /\ InStep(t) /\ t # 0 => ~InSweep(t) /\ pc[t] # "complete"
  <2>1. ASSUME NEW t \in Thread, InStep(t), t # 0
        PROVE  ~InSweep(t) /\ pc[t] # "complete"
    BY <1>1, <2>1, Threads DEF SyncInv, Phases, ScheduledDone, Handshake, InHand, InStep, InSweep
  <2>2. ASSUME NEW t \in Thread, pc[t] \in {"sweep", "depend", "call", "complete"}
        PROVE  curr_index'[t] = curr_index[t]
    <3>1. CASE ThreadSync
      BY <3>1 DEF ThreadSync, queueVars
    <3>2. CASE MarkIncomplete
      <4>1. ii # t \/ ~(ii = 0 \/ isThreadReadyToRun(ii))
        BY <2>2, <3>2, ReadyIsIdle, Threads DEF MarkIncomplete
      <4>2. curr_index' \in {curr_index, [curr_index EXCEPT ![ii] = QueueEnd(ii)]}
        BY <3>2 DEF MarkIncomplete
      <4>3. curr_index \in [Thread -> Nat]
        BY Typed
      <4> QED
        BY <3>2, <4>1, <4>2, <4>3 DEF MarkIncomplete
    <3> QED
      BY <3>1, <3>2
  <2> QED
    BY <2>1, <2>2
<1>5. \A t \in Thread : pc'[t] \in {"depend", "call"} <=> pc[t] \in {"depend", "call"}
  BY <1>1, <1>2, Threads
<1>6. \A j : Selected(j)' <=> Selected(j)
  BY <1>1, <1>5 DEF Selected
<1>7. CursorBehind'
  BY <1>1, <1>4, <1>5 DEF ScheduleInv, CursorBehind
<1>8. CallsAhead'
  <2>1. \A t \in Thread : InStep(t) => \A k : Swept(t, k)' => Swept(t, k)
    <3>1. ~InSweep(0) /\ ~InSweep(0)'
      BY <1>1, <1>2 DEF InSweep
    <3>2. \A t \in Thread : InStep(t) /\ t # 0 => ~InSweep(t)' /\ pc'[t] # "complete" /\ ~StartedInPass(t)'
      BY <1>2, <1>3, <1>4, Threads DEF InSweep
    <3> QED
      BY <3>1, <3>2 DEF Swept
  <2>2. \A j : SetsItsTime(j) => SetsItsTime(j)'
    BY <1>6 DEF SetsItsTime
  <2>3. \A t \in Thread : next_job_time'[t] <= next_job_time[t]
    BY <1>1, Typed
  <2> QED
    BY <1>1, <2>1, <2>2, <2>3, CallsKept DEF ScheduleInv
<1>9. QueueAhead'
  <2>1. \A c \in Child : ProcessType[c] = "SCHEDULED" => ~InSweep(c)' /\ pc'[c] # "complete"
    BY <1>2, <1>4, Threads DEF InStep, InSweep
  <2> QED
    BY <1>1, <1>3, <2>1 DEF ScheduleInv, QueueAhead
<1>10. JobsStatic' /\ FreezeDue' /\ Started'
  BY <1>1, <1>2, <1>6 DEF ScheduleInv, JobsStatic, FreezeDue, Started
<1>11. History'
  <2> SUFFICES ASSUME Undisturbed'
               PROVE  (\A j \in Job : ~disabled'[j]) /\ \A j \in SyncJob : JobHistory(j)'
    BY DEF History, SyncJob
  <2>1. Undisturbed
    BY <1>1 DEF Undisturbed, StopsLater
  <2>2. (\A j \in Job : ~disabled[j]) /\ \A j \in SyncJob : JobHistory(j)
    BY <2>1 DEF ScheduleInv, History
  <2> QED
    BY <1>1, <1>6, <2>2, HistoryKept
<1>12. AmfAhead'
  <2>1. \A c \in Child : ProcessType[c] = "AMF" => amf_next_tics'[c] = amf_next_tics[c]
    <3>1. CASE ThreadSync
      BY <3>1, Typed DEF ThreadSync, AsyncBehind
    <3>2. CASE MarkIncomplete
      BY <3>2 DEF MarkIncomplete, childVars
    <3> QED
      BY <3>1, <3>2
  <2> QED
    BY <1>1, <1>3, <2>1 DEF ScheduleInv, AmfAhead
<1>13. FrameInv' /\ LastPass'
  <2>1. ~BeforeTop /\ ~BeforeTop' /\ ~AfterAdvance /\ ~AfterAdvance' /\ pc'[0] # "eof" /\ pc'[0] \notin {"shutdown", "done"}
    BY <1>1, <1>2 DEF BeforeTop, AfterAdvance, InSweep
  <2>2. /\ next_frame_check_tics' = next_frame_check_tics /\ frame_count' = frame_count
    BY <1>1 DEF clockVars
  <2> QED
    BY <1>1, <2>1, <2>2 DEF ScheduleInv, FrameInv, LastPass, SyncJob
<1> QED
  BY <1>7, <1>8, <1>9, <1>10, <1>11, <1>12, <1>13 DEF ScheduleInv

\* The input processor gives its next call time, and the master looks at it again.
LEMMA InputSchedule ==
  ASSUME TypeOK, TypeOK', ScheduleInv, InputProcessorRun
  PROVE  ScheduleInv'
<1>1. /\ UNCHANGED <<clockVars, time_tics, cycle_tics, disabled, curr_index, curr_job, child_complete,
                     freeze_times, cmds, exec_command, amf_next_tics>>
      /\ pc[0] = "input" /\ pc'[0] = "fire" /\ ii' = 1 /\ \A c \in Child : pc'[c] = pc[c]
  <2>1. pc'[0] = "fire" /\ \A c \in Child : pc'[c] = pc[c]
    BY MasterAt DEF InputProcessorRun, MainPC
  <2> QED
    BY <2>1 DEF InputProcessorRun, clockVars, childVars, callVars, modeVars
<1>2. /\ \A j \in Job : j # InputJob => next_tics'[j] = next_tics[j] /\ last_call'[j] = last_call[j]
      /\ next_job_time'[0] > time_tics /\ next_job_time'[0] <= next_job_time[0]
      /\ \A c \in Child : next_job_time'[c] = next_job_time[c]
  <2>1. next_job_time[0] \in Nat /\ next_job_time[0] > time_tics /\ time_tics \in Nat
    BY Typed, Threads DEF ScheduleInv, QueueAhead
  <2>2. CASE next_tics[InputJob] = time_tics /\ ~disabled[InputJob]
    <3>1. PICK n \in EventTimesAfter(time_tics) :
             /\ next_tics' = [next_tics EXCEPT ![InputJob] = n]
             /\ next_job_time' = [next_job_time EXCEPT ![0] =
                  IF MultiThread THEN TestNextJobCallTime(@, n, time_tics) ELSE @]
             /\ last_call' = [last_call EXCEPT ![InputJob] = time_tics]
      BY <2>2 DEF InputProcessorRun
    <3>2. n \in Nat
      BY ExecutiveAssumption DEF EventTimesAfter, ExecutiveAssumption
    <3>3. TestNextJobCallTime(next_job_time[0], n, time_tics) > time_tics
          /\ TestNextJobCallTime(next_job_time[0], n, time_tics) <= next_job_time[0]
      BY <2>1, <3>2 DEF TestNextJobCallTime, MinOf
    <3>4. next_job_time'[0] \in {next_job_time[0], TestNextJobCallTime(next_job_time[0], n, time_tics)}
      BY <3>1, Typed, Threads
    <3>5. \A c \in Child : next_job_time'[c] = next_job_time[c]
      BY <3>1, Typed, Threads
    <3> QED
      BY <2>1, <3>1, <3>3, <3>4, <3>5, Typed
  <2>3. CASE ~(next_tics[InputJob] = time_tics /\ ~disabled[InputJob])
    BY <2>1, <2>3 DEF InputProcessorRun
  <2> QED
    BY <2>2, <2>3
<1>3. \A c \in Child : ~StartedInPass(c)' /\ ~Armed(c)' /\ ~StartedInPass(c)
  BY <1>1 DEF StartedInPass, InSweep, Armed, Child
<1>4. \A t \in Thread : pc'[t] \in {"depend", "call"} <=> pc[t] \in {"depend", "call"}
  BY <1>1, Threads
<1>5. \A j : Selected(j)' <=> Selected(j)
  BY <1>1, <1>4 DEF Selected
<1>6. CursorBehind' /\ JobsStatic' /\ Started'
  BY <1>1, <1>4 DEF ScheduleInv, CursorBehind, JobsStatic, Started
<1>7. \A t \in Thread : InputJob \notin JobsOf(t)
  BY ExecutiveAssumption, Threads DEF ExecutiveAssumption
<1>8. CallsAhead'
  <2> SUFFICES ASSUME NEW t \in Thread, InStep(t), NEW k \in 1 .. Len(JobQueue[t])
               PROVE  JobAhead(t, k)'
    BY DEF CallsAhead, InStep
  <2>1. Swept(t, k)' => Swept(t, k)
    BY <1>1, <1>3, Threads DEF Swept, InSweep
  <2>2. next_tics'[JobQueue[t][k]] = next_tics[JobQueue[t][k]]
    BY <1>2, <1>7, InJobs
  <2>3. next_job_time'[t] <= next_job_time[t]
    <3>1. next_job_time[t] \in Nat
      BY Typed
    <3>2. CASE t = 0
      BY <1>2, <3>2
    <3>3. CASE t # 0
      BY <1>2, <3>1, <3>3, Threads
    <3> QED
      BY <3>2, <3>3
  <2>4. SetsItsTime(JobQueue[t][k]) => SetsItsTime(JobQueue[t][k])'
    BY <1>5 DEF SetsItsTime
  <2> QED
    BY <1>1, <2>1, <2>2, <2>3, <2>4, JobKept DEF ScheduleInv, CallsAhead
<1>9. QueueAhead'
  BY <1>1, <1>2, <1>3 DEF ScheduleInv, QueueAhead, InSweep, AtEnd
<1>10. FreezeDue'
  <2>1. FreezeJob # InputJob /\ FreezeJob \in Job
    <3>1. FreezeJob \in JobsOf(0) /\ FreezeJob # InputJob
      BY ExecutiveAssumption DEF ExecutiveAssumption
    <3> QED
      BY <3>1, QueuedJobs, Threads DEF JobsOf
  <2> QED
    BY <1>1, <1>2, <1>5, <2>1 DEF ScheduleInv, FreezeDue
<1>11. \A j \in SyncJob : next_tics'[j] = next_tics[j] /\ last_call'[j] = last_call[j]
  BY <1>2, Constants DEF SyncJob
<1>12. History'
  <2> SUFFICES ASSUME Undisturbed'
               PROVE  (\A j \in Job : ~disabled'[j]) /\ \A j \in SyncJob : JobHistory(j)'
    BY DEF History, SyncJob
  <2>1. Undisturbed
    BY <1>1 DEF Undisturbed, StopsLater
  <2>2. (\A j \in Job : ~disabled[j]) /\ \A j \in SyncJob : JobHistory(j)
    BY <2>1 DEF ScheduleInv, History
  <2> QED
    BY <1>1, <1>5, <1>11, <2>2, HistoryKept
<1>13. TimeInv'
  BY <1>1, <1>3, TimeUnmoved, Parts DEF AtExit, BeforeTop, AfterAdvance, InSweep
<1>14. LastPass'
  BY <1>1, <1>11 DEF ScheduleInv, LastPass, SyncJob, AfterAdvance, InSweep
<1> QED
  BY <1>6, <1>8, <1>9, <1>10, <1>12, <1>13, <1>14 DEF ScheduleInv, TimeInv

\* A thread that is ready while the threads are started is out of its jobs.
LEMMA StartIsIdle ==
  ASSUME SyncInv, pc[0] = "fire", ii \in Child, isThreadReadyToRun(ii)
  PROVE  child_complete[ii] /\ pc[ii] \in {"wait", "waiting", "cancelled"}
<1>1. child_complete[ii]
  BY ExecutiveAssumption DEF SyncInv, Phases, ScheduledDone, AmfDone, AmfDue, isThreadReadyToRun,
                             ExecutiveAssumption, ProcessKind, Child
<1> QED
  BY <1>1 DEF SyncInv, Handshake, InHand

\* The master starts the threads that are ready: what they have looked at in the last pass is
\* behind them.
LEMMA StartSchedule ==
  ASSUME StaticThreads, JobsOnce, ClassOrder, TypeOK, TypeOK', SyncInv, ScheduleInv, ArmThread \/ FireThread
  PROVE  ScheduleInv'
<1>1. /\ UNCHANGED <<clockVars, time_tics, next_tics, next_job_time, cycle_tics, disabled, last_call,
                     curr_job, freeze_times, cmds, exec_command>>
      /\ pc[0] \in {"fire", "firing"} /\ pc'[0] \in {"fire", "firing", "sweep"}
      /\ \A c \in Child : pc'[c] = pc[c] /\ curr_index'[c] = curr_index[c]
      /\ curr_index' = curr_index \/ curr_index'[0] = 1
  <2>1. CASE ArmThread
    <3>1. pc'[0] \in {"fire", "firing", "sweep"} /\ \A c \in Child : pc'[c] = pc[c]
      BY <2>1, MasterAt DEF ArmThread, MainPC
    <3>2. curr_index' \in {curr_index, [curr_index EXCEPT ![0] = 1]}
      BY <2>1 DEF ArmThread
    <3>3. (\A c \in Child : curr_index'[c] = curr_index[c]) /\ (curr_index' = curr_index \/ curr_index'[0] = 1)
      BY <3>2, Typed, Threads
    <3> QED
      BY <2>1, <3>1, <3>3 DEF ArmThread, clockVars, modeVars, jobVars, callVars
  <2>2. CASE FireThread
    <3>1. pc'[0] = "fire" /\ \A c \in Child : pc'[c] = pc[c]
      BY <2>2, MasterAt DEF FireThread, MainPC
    <3> QED
      BY <2>2, <3>1 DEF FireThread, clockVars, modeVars, jobVars, queueVars, callVars
  <2> QED
    BY <2>1, <2>2
<1>2. ii \in Nat /\ ii > 0 /\ NumChild \in Nat /\ Child = 1 .. NumChild
  BY <1>1, TriggerAssumption DEF TypeOK, MasterOK, Child
<1>3. \A c \in Child : /\ child_complete'[c] => child_complete[c]
                       /\ \/ amf_next_tics'[c] = amf_next_tics[c]
                          \/ /\ c = ii /\ isThreadReadyToRun(c)
                             /\ amf_next_tics'[c] = amf_next_tics[c] + AmfCycle[c]
  <2>1. \/ /\ ii <= NumChild /\ isThreadReadyToRun(ii)
           /\ child_complete' = [child_complete EXCEPT ![ii] = FALSE]
           /\ amf_next_tics' = [amf_next_tics EXCEPT ![ii] = @ + AmfCycle[ii]]
        \/ UNCHANGED <<child_complete, amf_next_tics>>
    BY DEF ArmThread, FireThread, childVars
  <2>2. CASE UNCHANGED <<child_complete, amf_next_tics>>
    BY <2>2
  <2>3. CASE /\ ii <= NumChild /\ isThreadReadyToRun(ii)
             /\ child_complete' = [child_complete EXCEPT ![ii] = FALSE]
             /\ amf_next_tics' = [amf_next_tics EXCEPT ![ii] = @ + AmfCycle[ii]]
    <3> SUFFICES ASSUME NEW c \in Child
                 PROVE  /\ child_complete'[c] => child_complete[c]
                        /\ \/ amf_next_tics'[c] = amf_next_tics[c]
                           \/ (c = ii /\ amf_next_tics'[c] = amf_next_tics[c] + AmfCycle[c])
      BY <2>3
    <3>1. CASE c = ii
      BY <2>3, <3>1, Typed
    <3>2. CASE c # ii
      BY <2>3, <3>2, Typed
    <3> QED
      BY <3>1, <3>2
  <2> QED
    BY <2>1, <2>2, <2>3
<1>4. pc'[0] = "sweep" => curr_index'[0] = 1 /\ AdvanceAhead'
  <2>1. ASSUME pc'[0] = "sweep"
        PROVE  curr_index'[0] = 1
    BY <2>1, MasterAt, Typed, Threads DEF ArmThread, FireThread, MainPC
  <2>2. PICK p \in 1 .. Len(JobQueue[0]) : JobQueue[0][p] = AdvanceJob
    BY AdvanceFacts
  <2> QED
    BY <2>1, <2>2 DEF AdvanceAhead
<1>5. \A c \in Child : StartedInPass(c)' =>
         \/ StartedInPass(c)
         \/ c = ii /\ ArmThread /\ ~isThreadReadyToRun(c)
         \/ c = ii /\ FireThread /\ Armed(c)
  <2> SUFFICES ASSUME NEW c \in Child, StartedInPass(c)', ~StartedInPass(c)
               PROVE  \/ c = ii /\ ArmThread /\ ~isThreadReadyToRun(c)
                      \/ c = ii /\ FireThread /\ Armed(c)
    OBVIOUS
  <2>1. ~(c < ii)
    BY <1>1 DEF StartedInPass
  <2>2. CASE ArmThread
    <3>1. CASE pc'[0] = "sweep"
      <4>1. ii > NumChild
        BY <2>2, <3>1, MasterAt DEF ArmThread, MainPC
      <4> QED
        BY <1>2, <2>1, <4>1
    <3>2. CASE pc'[0] # "sweep"
      <4>1. c < ii'
        BY <1>1, <3>2 DEF StartedInPass, InSweep
      <4>2. ii' = ii \/ (ii' = ii + 1 /\ ~isThreadReadyToRun(ii))
        BY <2>2 DEF ArmThread
      <4> QED
        BY <1>2, <2>1, <2>2, <4>1, <4>2
    <3> QED
      BY <3>1, <3>2
  <2>3. CASE FireThread
    <3>1. ii' = ii + 1 /\ pc[0] = "firing" /\ pc'[0] = "fire"
      BY <2>3, MasterAt DEF FireThread, MainPC
    <3>2. c < ii'
      BY <3>1 DEF StartedInPass, InSweep
    <3>3. c = ii
      BY <1>2, <2>1, <3>1, <3>2
    <3> QED
      BY <2>3, <3>1, <3>3 DEF Armed
  <2> QED
    BY <2>2, <2>3
<1>6. \A c \in Child : ProcessType[c] = "SCHEDULED" /\ child_complete'[c] /\ StartedInPass(c)'
                       => child_complete[c] /\ StartedInPass(c)
  BY <1>3, <1>5 DEF isThreadReadyToRun, SyncInv, AllEnabled, Handshake, InHand
<1>7. \A t \in Thread : InStep(t) => \A k \in 1 .. Len(JobQueue[t]) : Swept(t, k)' => Swept(t, k)
  <2> SUFFICES ASSUME NEW t \in Thread, InStep(t), NEW k \in 1 .. Len(JobQueue[t]), Swept(t, k)'
               PROVE  Swept(t, k)
    OBVIOUS
  <2>1. CASE t = 0
    <3>1. ~InSweep(0)
      BY <1>1 DEF InSweep
    <3>2. pc'[0] = "sweep" => ~(k < curr_index'[0])
      BY <1>4
    <3>3. InSweep(0)' => pc'[0] = "sweep"
      BY <1>1 DEF InSweep
    <3> QED
      BY <2>1, <3>1, <3>2, <3>3 DEF Swept
  <2>2. CASE t # 0
    BY <1>1, <1>6, <2>2, Threads DEF Swept, InSweep, InStep
  <2> QED
    BY <2>1, <2>2
<1>8. QueueAhead'
  BY <1>1, <1>6 DEF ScheduleInv, QueueAhead, InSweep, AtEnd
<1>9. CallsInv'
  <2>1. \A t \in Thread : pc'[t] \in {"depend", "call"} <=> pc[t] \in {"depend", "call"}
    BY <1>1, Threads
  <2>2. \A t \in Thread : pc[t] \in {"depend", "call"} => curr_index'[t] = curr_index[t]
    BY <1>1, Threads
  <2>3. \A t \in Thread : next_job_time'[t] <= next_job_time[t]
    BY <1>1, Typed
  <2> QED
    BY <1>1, <1>7, <1>8, <2>1, <2>2, <2>3, CallsStill, Parts
<1>10. AmfAhead'
  <2> SUFFICES ASSUME NEW c \in Child, ProcessType[c] = "AMF"
               PROVE  /\ time_tics' <= amf_next_tics'[c]
                      /\ StartedInPass(c)' \/ Armed(c)' => time_tics' < amf_next_tics'[c]
    BY DEF AmfAhead
  <2>1. /\ time_tics <= amf_next_tics[c] /\ (StartedInPass(c) \/ Armed(c) => time_tics < amf_next_tics[c])
    BY DEF ScheduleInv, AmfAhead
  <2>2. time_tics \in Nat /\ amf_next_tics[c] \in Nat /\ AmfCycle[c] \in Nat \ {0}
    BY Typed, ExecutiveAssumption DEF ExecutiveAssumption
  <2>3. CASE amf_next_tics'[c] # amf_next_tics[c]
    BY <1>1, <1>3, <2>1, <2>2, <2>3
  <2>4. CASE amf_next_tics'[c] = amf_next_tics[c]
    <3>1. c = ii /\ ArmThread /\ ~isThreadReadyToRun(c) => time_tics < amf_next_tics[c]
      <4>1. ASSUME ~isThreadReadyToRun(c)
            PROVE  amf_next_tics[c] # time_tics
        BY <4>1 DEF isThreadReadyToRun, SyncInv, AllEnabled
      <4> QED
        BY <2>1, <2>2, <4>1
    <3>2. Armed(c)' => Armed(c)
      <4>1. CASE FireThread
        BY <4>1, MasterAt DEF FireThread, Armed, MainPC
      <4>2. CASE ArmThread
        <5>1. ASSUME Armed(c)'
              PROVE  FALSE
          <6>1. pc'[0] = "firing" /\ ii' = c
            BY <5>1 DEF Armed
          <6>2. Goto(0, "firing") \/ Goto(0, "sweep") \/ pc' = pc
            BY <4>2 DEF ArmThread
          <6>3. pc[0] = "fire"
            BY <4>2 DEF ArmThread
          <6>4. Goto(0, "firing")
            BY <6>1, <6>2, <6>3, MasterAt DEF MainPC
          <6>5. amf_next_tics' = [amf_next_tics EXCEPT ![ii] = @ + AmfCycle[ii]] /\ ii' = ii
            <7>1. ~Goto(0, "sweep")
              BY <6>1, MasterAt DEF MainPC
            <7>2. pc' # pc
              BY <6>1, <6>3
            <7> QED
              BY <4>2, <7>1, <7>2 DEF ArmThread
          <6>6. amf_next_tics'[c] = amf_next_tics[c] + AmfCycle[c]
            BY <6>1, <6>5, Typed
          <6> QED
            BY <2>2, <2>4, <6>6
        <5> QED
          BY <5>1
      <4> QED
        BY <4>1, <4>2
    <3> QED
      BY <1>1, <1>5, <2>1, <2>4, <3>1, <3>2
  <2> QED
    BY <2>3, <2>4
<1>11. FrameInv'
  <2>1. ~BeforeTop /\ ~BeforeTop' /\ ~AfterAdvance /\ ~AfterAdvance' /\ pc'[0] # "eof" /\ pc'[0] \notin {"shutdown", "done"}
    BY <1>1, <1>4 DEF BeforeTop, AfterAdvance, InSweep
  <2> QED
    BY <1>1, <2>1 DEF ScheduleInv, FrameInv, clockVars
<1>12. Started' /\ LastPass'
  BY <1>1, <1>4 DEF ScheduleInv, Started, LastPass, AfterAdvance, InSweep, SyncJob
<1> QED
  BY <1>9, <1>10, <1>11, <1>12, Parts, Zenon DEF ScheduleInv, CallsInv

--------------------------------------------------------------------------------
(***************************************************************************)
(* The sweep of a queue by a thread in step with the master.               *)
(***************************************************************************)
\* Such a thread has the time of the master.
LEMMA InStepTime ==
  ASSUME SyncInv, NEW t \in Thread, InStep(t), InSweep(t)
  PROVE  Now(t) = time_tics /\ (t # 0 => ~child_complete[t])
<1>1. CASE t = 0
  BY <1>1 DEF Now
<1>2. CASE t # 0
  BY <1>2, Threads DEF Now, InStep, InSweep, SyncInv, Handshake, InHand, CurrentTime
<1> QED
  BY <1>1, <1>2

\* The calls of the jobs, when the step is about job j.
LEMMA OneJobMoves ==
  ASSUME TypeOK, TypeOK', CallsAhead, NEW j, time_tics' = time_tics,
         \A i \in Job : i # j => next_tics'[i] = next_tics[i],
         \A t \in Thread : InStep(t) => \A k \in 1 .. Len(JobQueue[t]) :
            IF JobQueue[t][k] = j THEN JobAhead(t, k)'
            ELSE /\ Swept(t, k)' => Swept(t, k) /\ next_job_time'[t] <= next_job_time[t]
                 /\ SetsItsTime(JobQueue[t][k]) => SetsItsTime(JobQueue[t][k])'
  PROVE  CallsAhead'
<1> SUFFICES ASSUME NEW t \in Thread, InStep(t), NEW k \in 1 .. Len(JobQueue[t])
             PROVE  JobAhead(t, k)'
  BY DEF CallsAhead, InStep
<1>1. JobAhead(t, k) /\ JobQueue[t][k] \in Job
  BY InJobs DEF CallsAhead
<1>2. CASE JobQueue[t][k] = j
  BY <1>2
<1>3. CASE JobQueue[t][k] # j
  BY <1>1, <1>3, JobKept
<1> QED
  BY <1>2, <1>3

\* A step on one job leaves the history of the others.
LEMMA OneJobHistory ==
  ASSUME History, NEW j, UNCHANGED <<time_tics, disabled, cmds>>,
         \A i \in SyncJob : i # j => /\ next_tics'[i] = next_tics[i] /\ last_call'[i] = last_call[i]
                                     /\ Selected(i)' <=> Selected(i),
         Undisturbed /\ j \in SyncJob => JobHistory(j)'
  PROVE  History'
<1> SUFFICES ASSUME Undisturbed'
             PROVE  (\A i \in Job : ~disabled'[i]) /\ \A i \in SyncJob : JobHistory(i)'
  BY DEF History, SyncJob
<1>1. Undisturbed
  BY DEF Undisturbed, StopsLater
<1>2. (\A i \in Job : ~disabled[i]) /\ \A i \in SyncJob : JobHistory(i)
  BY <1>1 DEF History
<1>3. ASSUME NEW i \in SyncJob
      PROVE  JobHistory(i)'
  BY <1>1, <1>2, HistoryKept
<1> QED
  BY <1>2, <1>3

\* A job that is due has its call time moved to the next time of its schedule.
LEMMA NextDue ==
  ASSUME TypeOK, TypeOK', JobsStatic, NEW j \in SyncJob, JobHistory(j), ~Selected(j), Selected(j)',
         next_tics[j] = time_tics, time_tics <= TerminateTime,
         next_tics'[j] = NextCall(j), UNCHANGED <<time_tics, last_call>>
  PROVE  JobHistory(j)'
<1>1. /\ j \in Job /\ j \in UserJob /\ Cycle[j] \in Nat \ {0} /\ cycle_tics[j] = Cycle[j] /\ Stop[j] \in Nat
      /\ FirstCall(j) \in Nat /\ time_tics \in Nat /\ MaxTics \in Nat /\ TerminateTime \in Nat
      /\ TerminateTime < MaxTics /\ last_call[j] \in Int
  BY Constants, Typed DEF SyncJob, JobsStatic
<1>2. \A n : Due(j, n) <=> n >= FirstCall(j) /\ n <= Stop[j] /\ (n - FirstCall(j)) % Cycle[j] = 0
  BY DEF Due, Schedule!DueAt
<1>3. \A n : Due(j, n)' <=> Due(j, n)
  BY DEF Due, Schedule!DueAt
<1>4. /\ last_call[j] <= time_tics /\ last_call[j] < time_tics
      /\ Due(j, time_tics)
      /\ \A n \in 0 .. TerminateTime : Due(j, n) => n <= last_call[j] \/ n >= time_tics
  BY <1>1 DEF JobHistory, Handled
<1>5. PICK a \in Nat : a = time_tics - FirstCall(j) /\ a % Cycle[j] = 0
  BY <1>1, <1>2, <1>4
<1>6. /\ (a + Cycle[j]) % Cycle[j] = 0
      /\ \A b \in Nat : b % Cycle[j] = 0 /\ b > a => b >= a + Cycle[j]
  BY <1>1, <1>5, NextMultiple
<1>7. next_tics'[j] = IF time_tics + Cycle[j] > Stop[j] THEN MaxTics ELSE time_tics + Cycle[j]
  BY <1>1 DEF NextCall
<1>8. time_tics < next_tics'[j] /\ last_call[j] < next_tics'[j]
  BY <1>1, <1>4, <1>7
<1>9. Due(j, next_tics'[j]) \/ next_tics'[j] >= MaxTics
  <2>1. CASE time_tics + Cycle[j] > Stop[j]
    BY <1>1, <1>7, <2>1
  <2>2. CASE time_tics + Cycle[j] <= Stop[j]
    <3>1. next_tics'[j] = time_tics + Cycle[j] /\ next_tics'[j] - FirstCall(j) = a + Cycle[j]
      BY <1>1, <1>5, <1>7, <2>2
    <3>2. next_tics'[j] >= FirstCall(j) /\ next_tics'[j] <= Stop[j]
      BY <1>1, <1>5, <2>2, <3>1
    <3> QED
      BY <1>2, <1>6, <3>1, <3>2
  <2> QED
    BY <1>1, <2>1, <2>2
<1>10. ASSUME NEW n \in 0 .. TerminateTime, Due(j, n), n > time_tics
       PROVE  n >= next_tics'[j]
  <2>1. n - FirstCall(j) \in Nat /\ (n - FirstCall(j)) % Cycle[j] = 0 /\ n <= Stop[j] /\ n \in Nat
    BY <1>1, <1>2, <1>10
  <2>2. n - FirstCall(j) >= a + Cycle[j]
    <3>1. n - FirstCall(j) > a
      BY <1>1, <1>5, <1>10, <2>1
    <3> QED
      BY <1>6, <2>1, <3>1
  <2>3. n >= time_tics + Cycle[j]
    BY <1>1, <1>5, <2>1, <2>2
  <2> QED
    BY <1>1, <1>7, <2>1, <2>3
<1>11. Handled(j)' = time_tics
  BY DEF Handled
<1>12. \A n \in 0 .. TerminateTime : Due(j, n)' => n <= Handled(j)' \/ n >= next_tics'[j]
  BY <1>1, <1>3, <1>10, <1>11
<1>13. Due(j, next_tics[j])' \/ next_tics'[j] >= MaxTics
  BY <1>9 DEF Due, Schedule!DueAt
<1>14. Due(j, time_tics)'
  BY <1>4 DEF Due, Schedule!DueAt
<1> QED
  BY <1>4, <1>8, <1>12, <1>13, <1>14 DEF JobHistory

\* The time after a sweep step that keeps its place before or after the advance.
LEMMA SweepTime ==
  ASSUME TimeInv, UNCHANGED <<clockVars, amf_next_tics>>,
         pc'[0] = pc[0] \/ (InSweep(0) /\ InSweep(0)'),
         pc'[0] = pc[0] => ii' = ii \/ InSweep(0),
         InSweep(0) => (AdvanceAhead' <=> AdvanceAhead)
  PROVE  TimeInv'
<1>1. \A c \in Child : StartedInPass(c)' \/ Armed(c)' => StartedInPass(c) \/ Armed(c)
  BY DEF StartedInPass, Armed, InSweep
<1>2. AtExit' \/ (~AtExit /\ ~AtExit' /\ (BeforeTop' <=> BeforeTop) /\ (AfterAdvance' <=> AfterAdvance))
  BY DEF AtExit, BeforeTop, AfterAdvance, InSweep
<1>3. pc'[0] = "eof" => ~TerminateReached
  BY DEF TimeInv, FrameInv, InSweep
<1> QED
  BY <1>1, <1>2, <1>3, TimeUnmoved

\* Threads that are not in the sweep stay where they are, and so does the place of the master
\* before or after the advance.
LEMMA SweepPlaces ==
  ASSUME TypeOK, TypeOK', NEW t \in Thread, InSweep(t), InSweep(t)',
         \A u \in Thread : u # t => pc'[u] = pc[u] /\ curr_index'[u] = curr_index[u],
         child_complete' = child_complete, t # 0 => ii' = ii /\ curr_job'[0] = curr_job[0],
         t = 0 => (AdvanceAhead' <=> AdvanceAhead)
  PROVE  /\ \A c \in Child : StartedInPass(c)' <=> StartedInPass(c)
         /\ InSweep(0)' <=> InSweep(0)
         /\ InSweep(0) => (AdvanceAhead' <=> AdvanceAhead)
         /\ \A u \in Thread, k \in Nat : u # t \/ curr_index'[t] = curr_index[t] => (Swept(u, k)' <=> Swept(u, k))
<1>1. AdvanceAhead' <=> AdvanceAhead
  BY Threads DEF AdvanceAhead
<1>2. InSweep(0)' <=> InSweep(0)
  BY Threads DEF InSweep
<1>3. \A c \in Child : StartedInPass(c)' <=> StartedInPass(c)
  BY <1>1, Threads DEF StartedInPass, InSweep
<1>4. \A u \in Thread : (InSweep(u)' <=> InSweep(u)) /\ (pc'[u] = "complete" <=> pc[u] = "complete")
  BY DEF InSweep
<1>5. \A u \in Thread, k \in Nat : u # t \/ curr_index'[t] = curr_index[t] => (Swept(u, k)' <=> Swept(u, k))
  BY <1>1, <1>3, <1>4, Threads DEF Swept
<1> QED
  BY <1>1, <1>2, <1>3, <1>5

\* The end of a sweep step.
LEMMA SweepStep ==
  ASSUME TypeOK, TypeOK', SyncInv, ScheduleInv, NEW t \in Thread, InStep(t), InSweep(t), InSweep(t)',
         UNCHANGED <<clockVars, time_tics, amf_next_tics, cycle_tics, disabled, child_complete, cmds>>,
         \A u \in Thread : u # t => pc'[u] = pc[u] /\ curr_index'[u] = curr_index[u]
                                    /\ next_job_time'[u] = next_job_time[u],
         t # 0 => ii' = ii /\ curr_job'[0] = curr_job[0],
         t = 0 => (AdvanceAhead' <=> AdvanceAhead),
         next_job_time'[t] > time_tics,
         \A j \in SyncJob : next_tics[j] > time_tics => next_tics'[j] = next_tics[j],
         exec_command' \in {exec_command, "FreezeCmd"},
         CursorBehind', CallsAhead', FreezeDue', History'
  PROVE  ScheduleInv'
<1>1. /\ \A c \in Child : StartedInPass(c)' <=> StartedInPass(c)
      /\ InSweep(0)' <=> InSweep(0)
      /\ InSweep(0) => (AdvanceAhead' <=> AdvanceAhead)
  BY SweepPlaces
<1>2. pc'[0] = pc[0] \/ (InSweep(0) /\ InSweep(0)')
  BY Threads
<1>3. TimeInv'
  <2>1. pc'[0] = pc[0] => ii' = ii \/ InSweep(0)
    OBVIOUS
  <2> QED
    BY <1>1, <1>2, <2>1, SweepTime, Parts
<1>4. QueueAhead'
  <2>1. next_job_time'[0] > time_tics'
    BY Threads DEF ScheduleInv, QueueAhead
  <2>2. ASSUME NEW c \in Child, ProcessType[c] = "SCHEDULED"
        PROVE  /\ InSweep(c)' \/ pc'[c] = "complete" \/ (child_complete'[c] /\ StartedInPass(c)') =>
                    next_job_time'[c] > time_tics'
               /\ pc'[c] = "complete" \/ (child_complete'[c] /\ StartedInPass(c)') => AtEnd(c)'
    <3>1. CASE c = t
      <4>1. ~child_complete'[c] /\ pc'[c] # "complete"
        BY <3>1, InStepTime, Threads DEF InSweep
      <4> QED
        BY <3>1, <4>1
    <3>2. CASE c # t
      <4>1. pc'[c] = pc[c] /\ curr_index'[c] = curr_index[c] /\ next_job_time'[c] = next_job_time[c]
        BY <3>2, Threads
      <4> QED
        BY <1>1, <2>2, <4>1 DEF ScheduleInv, QueueAhead, InSweep, AtEnd
    <3> QED
      BY <3>1, <3>2
  <2> QED
    BY <2>1, <2>2 DEF QueueAhead
<1>5. Started' /\ JobsStatic'
  <2>1. \A c \in Child : pc'[c] = "start" => pc[c] = "start" /\ pc[0] = "init" /\ c >= ii
    BY Threads DEF ScheduleInv, Started, InSweep
  <2>2. pc[0] = "init" => pc'[0] = "init" /\ ii' = ii
    BY Threads DEF InSweep
  <2>3. \A c \in Child : pc'[c] = "catchup" => pc[c] = "catchup"
    BY Threads DEF InSweep
  <2> QED
    BY <2>1, <2>2, <2>3 DEF ScheduleInv, Started, JobsStatic
<1>6. LastPass'
  <2>1. (AfterAdvance' <=> AfterAdvance) /\ (TerminateReached' <=> TerminateReached)
    BY <1>1, <1>2 DEF AfterAdvance, TerminateReached, clockVars, InSweep
  <2>2. (pc'[0] \in {"shutdown", "done"} <=> pc[0] \in {"shutdown", "done"})
    BY <1>2 DEF InSweep
  <2>3. AfterAdvance' /\ TerminateReached' => \A j \in SyncJob : next_tics'[j] > time_tics'
    BY <2>1 DEF ScheduleInv, LastPass
  <2>4. cmds' = 0 => (exec_command' \in {"ExitCmd", "RunCmd"} => pc'[0] \in {"shutdown", "done"})
    BY <2>2 DEF ScheduleInv, LastPass
  <2>5. cmds' = 0 => (pc'[0] \in {"shutdown", "done"} => time_tics' = TerminateTime /\ \A j \in SyncJob : next_tics'[j] > time_tics')
    BY <2>2 DEF ScheduleInv, LastPass
  <2> QED
    BY <2>3, <2>4, <2>5 DEF LastPass, SyncJob
<1> QED
  BY <1>3, <1>4, <1>5, <1>6 DEF ScheduleInv, TimeInv

\* A job is looked at: if it is due it is taken and gets its next call time.
LEMMA FindSchedule ==
  ASSUME JobsOnce, ClassOrder, TypeOK, TypeOK', SyncInv, ScheduleInv,
         NEW t \in Thread, InStep(t), FindNextJob(t)
  PROVE  ScheduleInv'
<1>a. pc[t] = "sweep" /\ curr_index[t] \in 1 .. Len(JobQueue[t]) /\ Len(JobQueue[t]) \in Nat
  <2>1. pc[t] = "sweep" /\ ~AtEnd(t)
    BY DEF FindNextJob
  <2> QED
    BY <2>1, QueuedJobs DEF TypeOK, QueuesOK, AtEnd, QueueEnd
<1>b. PICK k \in 1 .. Len(JobQueue[t]), j \in Job : k = curr_index[t] /\ j = JobQueue[t][k]
  BY <1>a, InJobs
<1> DEFINE due == next_tics[j] = time_tics
           next == IF due /\ j \notin SystemJob THEN NextCall(j) ELSE next_tics[j]
<1>1. /\ pc[t] = "sweep" /\ InSweep(t) /\ Now(t) = time_tics
      /\ j \in JobsOf(t) /\ k \in Nat /\ Len(JobQueue[t]) \in Nat
  BY <1>a, <1>b, InJobs, InStepTime DEF InSweep
<1>2. /\ UNCHANGED <<clockVars, time_tics, amf_next_tics, cycle_tics, disabled, child_complete, cmds, ii,
                     exec_command, last_call, freeze_times>>
      /\ next_tics' = [next_tics EXCEPT ![j] = next]
      /\ next_job_time' = [next_job_time EXCEPT ![t] =
             IF due THEN IF j \in SystemJob THEN @ ELSE MinOf(@, next)
                    ELSE TestNextJobCallTime(@, next, time_tics)]
      /\ curr_index' = [curr_index EXCEPT ![t] = k + 1]
      /\ \/ due /\ ~disabled[j] /\ Goto(t, "depend") /\ curr_job' = [curr_job EXCEPT ![t] = j]
         \/ ~(due /\ ~disabled[j]) /\ UNCHANGED <<pc, curr_job>>
  BY <1>1, <1>b DEF FindNextJob, clockVars, modeVars, childVars, callVars
<1>3. /\ next_tics'[j] = next /\ \A i \in Job : i # j => next_tics'[i] = next_tics[i]
      /\ curr_index'[t] = k + 1
      /\ next_tics[j] \in Nat /\ time_tics \in Nat /\ time_tics <= TerminateTime /\ next \in Nat
      /\ next_job_time[t] \in Nat
  <2>1. next \in Nat
    BY <1>1, Typed, NextCallIsTime DEF TypeOK
  <2> QED
    BY <1>1, <1>2, <2>1, Typed DEF ScheduleInv, FrameInv
<1>4. /\ due /\ ~disabled[j] => pc'[t] = "depend" /\ curr_job'[t] = j
      /\ ~(due /\ ~disabled[j]) => pc'[t] = "sweep" /\ curr_job'[t] = curr_job[t]
      /\ \A u \in Thread : u # t => /\ pc'[u] = pc[u] /\ curr_job'[u] = curr_job[u]
                                    /\ curr_index'[u] = curr_index[u] /\ next_job_time'[u] = next_job_time[u]
  <2>1. CASE due /\ ~disabled[j] /\ Goto(t, "depend") /\ curr_job' = [curr_job EXCEPT ![t] = j]
    BY <1>2, <2>1, Typed DEF Goto
  <2>2. CASE ~(due /\ ~disabled[j]) /\ UNCHANGED <<pc, curr_job>>
    BY <1>1, <1>2, <2>2, Typed
  <2> QED
    BY <1>2, <2>1, <2>2
<1>5. next = NextCall(j) => next > time_tics \/ ~due
  <2>1. cycle_tics[j] \in Nat \ {0}
    BY DEF TypeOK, JobsOK
  <2>2. MaxTics > time_tics
    BY <1>3, Constants
  <2>3. due => next_tics[j] + cycle_tics[j] > time_tics
    BY <1>3, <2>1
  <2>4. due => NextCall(j) > time_tics
    BY <2>2, <2>3 DEF NextCall
  <2> QED
    BY <2>4
<1>6. next_tics[j] > time_tics => next = next_tics[j]
  BY <1>3
<1>7. j # AdvanceJob => next_tics[j] >= time_tics
  BY <1>b DEF ScheduleInv, CallsAhead, JobAhead
<1>8. \A u \in Thread, l \in Nat : l \in 1 .. Len(JobQueue[u]) /\ JobQueue[u][l] = j => u = t /\ l = k
  BY <1>b, OnePlace
<1>9. t = 0 => (AdvanceAhead' <=> AdvanceAhead)
  <2> SUFFICES ASSUME t = 0
               PROVE  AdvanceAhead' <=> AdvanceAhead
    OBVIOUS
  <2>1. PICK p \in 1 .. Len(JobQueue[0]) :
           /\ JobQueue[0][p] = AdvanceJob
           /\ \A l \in 1 .. Len(JobQueue[0]) : JobQueue[0][l] = AdvanceJob <=> l = p
           /\ AdvanceAhead <=> p >= curr_index[0] \/ (pc[0] \in {"depend", "call"} /\ curr_job[0] = AdvanceJob)
    BY AdvancePlace
  <2>2. AdvanceAhead <=> p >= k
    BY <1>1, <1>b, <2>1
  <2>3. AdvanceAhead' <=> p >= k + 1 \/ (pc'[0] \in {"depend", "call"} /\ curr_job'[0] = AdvanceJob)
    <3>1. (\E l \in curr_index'[0] .. Len(JobQueue[0]) : JobQueue[0][l] = AdvanceJob) <=> p >= k + 1
      BY <1>1, <1>3, <2>1
    <3> QED
      BY <3>1 DEF AdvanceAhead
  <2>4. p = k <=> j = AdvanceJob
    BY <1>b, <2>1
  <2>5. j = AdvanceJob => due /\ ~disabled[j]
    BY <1>1 DEF SyncInv, AdvanceJobDue
  <2>6. pc'[0] \in {"depend", "call"} => curr_job'[0] = j
    BY <1>4
  <2>7. j = AdvanceJob => pc'[0] = "depend" /\ curr_job'[0] = AdvanceJob
    BY <1>4, <2>5
  <2>8. p > k <=> p >= k + 1
    BY <1>1
  <2>9. p >= k <=> p > k \/ p = k
    BY <1>1
  <2> QED
    BY <2>2, <2>3, <2>4, <2>6, <2>7, <2>8, <2>9
<1>10. InSweep(t)'
  BY <1>4 DEF InSweep
<1>11. \A u \in Thread, l \in Nat : u # t => (Swept(u, l)' <=> Swept(u, l))
  BY <1>1, <1>2, <1>4, <1>9, <1>10, SweepPlaces, Threads
<1>12. \A i : /\ Selected(i) => Selected(i)'
              /\ Selected(i)' /\ i # j => Selected(i)
  BY <1>1, <1>4 DEF Selected
<1>13. due /\ ~disabled[j] => Selected(j)'
  BY <1>4 DEF Selected
<1>14. ~Selected(j)
  <2>1. ~Selected(JobQueue[t][k])
    BY <1>1, SelectedHere DEF ScheduleInv
  <2> QED
    BY <1>b, <2>1
<1>15. Selected(j)' => due /\ ~disabled[j]
  <2> SUFFICES ASSUME Selected(j)'
               PROVE  due /\ ~disabled[j]
    OBVIOUS
  <2>1. PICK u \in Thread : pc'[u] \in {"depend", "call"} /\ curr_job'[u] = j
    BY DEF Selected
  <2>2. u = t
    BY <1>4, <1>14, <2>1 DEF Selected
  <2> QED
    BY <1>4, <2>1, <2>2
<1>16. /\ next_job_time'[t] <= next_job_time[t]
       /\ next > time_tics /\ j # AdvanceJob => next_job_time'[t] <= next \/ (due /\ j \in SystemJob)
       /\ next_job_time[t] > time_tics => next_job_time'[t] > time_tics
  <2>1. next_job_time'[t] = IF due THEN IF j \in SystemJob THEN next_job_time[t] ELSE MinOf(next_job_time[t], next)
                                   ELSE TestNextJobCallTime(next_job_time[t], next, time_tics)
    BY <1>2, Typed
  <2>2. CASE due /\ j \in SystemJob
    BY <1>3, <2>1, <2>2
  <2>3. CASE due /\ j \notin SystemJob
    BY <1>3, <1>5, <2>1, <2>3 DEF MinOf
  <2>4. CASE ~due
    BY <1>3, <2>1, <2>4 DEF MinOf, TestNextJobCallTime
  <2> QED
    BY <2>2, <2>3, <2>4
<1>17. next_job_time[t] > time_tics
  BY <1>1, Threads DEF ScheduleInv, QueueAhead, InStep
<1>18. CursorBehind'
  <2> SUFFICES ASSUME NEW u \in Thread, pc'[u] \in {"depend", "call"}
               PROVE  curr_index'[u] > 1 /\ JobQueue[u][curr_index'[u] - 1] = curr_job'[u]
    BY DEF CursorBehind
  <2>1. CASE u = t
    BY <1>1, <1>3, <1>4, <1>b, <2>1
  <2>2. CASE u # t
    BY <1>4, <2>2 DEF ScheduleInv, CursorBehind
  <2> QED
    BY <2>1, <2>2
<1>19. JobAhead(t, k)'
  <2> SUFFICES ASSUME j # AdvanceJob
               PROVE  /\ next >= time_tics
                      /\ Swept(t, k)' => SetsItsTime(j)' \/ next > time_tics
                      /\ Swept(t, k)' /\ ~(t = 0 /\ IsTail(j)) => SetsItsTime(j)' \/ next_job_time'[t] <= next
    BY <1>2, <1>3, <1>b DEF JobAhead
  <2>1. CASE due /\ j \in SystemJob
    <3>1. SetsItsTime(j)'
      BY <1>13, <2>1 DEF SetsItsTime, ScheduleInv, JobsStatic
    <3> QED
      BY <1>3, <2>1, <3>1
  <2>2. CASE ~(due /\ j \in SystemJob)
    <3>1. next > time_tics
      BY <1>3, <1>5, <1>7, <2>2
    <3> QED
      BY <1>3, <1>16, <2>2, <3>1
  <2> QED
    BY <2>1, <2>2
<1>20. CallsAhead'
  <2>1. ASSUME NEW u \in Thread, InStep(u), NEW l \in 1 .. Len(JobQueue[u]), JobQueue[u][l] # j
        PROVE  /\ Swept(u, l)' => Swept(u, l) /\ next_job_time'[u] <= next_job_time[u]
               /\ SetsItsTime(JobQueue[u][l]) => SetsItsTime(JobQueue[u][l])'
    <3>1. SetsItsTime(JobQueue[u][l]) => SetsItsTime(JobQueue[u][l])'
      BY <1>12 DEF SetsItsTime
    <3>2. CASE u # t
      <4>1. next_job_time'[u] = next_job_time[u] /\ next_job_time[u] \in Nat
        BY <1>4, <3>2, Typed
      <4> QED
        BY <1>11, <3>1, <3>2, <4>1
    <3>3. CASE u = t
      <4>1. l # k
        BY <1>b, <2>1, <3>3
      <4>2. l < k + 1 <=> l < k
        BY <1>1, <4>1
      <4>3. Swept(t, l)' => Swept(t, l)
        <5>1. CASE t = 0
          BY <1>1, <1>3, <1>9, <1>10, <4>2, <1>b, <5>1 DEF Swept
        <5>2. CASE t # 0
          BY <1>1, <1>2, <1>3, <1>10, <4>2, <1>b, <5>2, InStepTime DEF Swept
        <5> QED
          BY <5>1, <5>2
      <4> QED
        BY <1>16, <3>1, <3>3, <4>3
    <3> QED
      BY <3>2, <3>3
  <2>2. ASSUME NEW u \in Thread, InStep(u), NEW l \in 1 .. Len(JobQueue[u])
        PROVE  IF JobQueue[u][l] = j THEN JobAhead(u, l)'
               ELSE /\ Swept(u, l)' => Swept(u, l) /\ next_job_time'[u] <= next_job_time[u]
                    /\ SetsItsTime(JobQueue[u][l]) => SetsItsTime(JobQueue[u][l])'
    <3>1. CASE JobQueue[u][l] = j
      <4>1. u = t /\ l = k
        BY <1>8, <3>1
      <4> QED
        BY <1>19, <3>1, <4>1
    <3>2. CASE JobQueue[u][l] # j
      BY <2>1, <2>2, <3>2
    <3> QED
      BY <3>1, <3>2
  <2> QED
    BY <1>2, <1>3, <2>2, OneJobMoves DEF ScheduleInv
<1>21. FreezeDue'
  <2>1. next_tics'[FreezeJob] = next_tics[FreezeJob]
    <3>1. FreezeJob \in Job /\ FreezeJob \in SystemJob
      BY SystemJobs
    <3>2. CASE FreezeJob = j
      BY <1>3, <3>1, <3>2
    <3>3. CASE FreezeJob # j
      BY <1>3, <3>1, <3>3
    <3> QED
      BY <3>2, <3>3
  <2>2. FreezeOnFrameBoundary => ~Selected(FreezeJob)'
    <3> SUFFICES ASSUME FreezeOnFrameBoundary, Selected(FreezeJob)'
                 PROVE  FALSE
      OBVIOUS
    <3>1. next_tics[FreezeJob] = MaxTics /\ ~Selected(FreezeJob)
      BY DEF ScheduleInv, FreezeDue
    <3>2. FreezeJob = j
      BY <1>12, <3>1
    <3> QED
      BY <1>3, <1>15, <3>1, <3>2, Constants
  <2> QED
    BY <1>2, <2>1, <2>2 DEF ScheduleInv, FreezeDue
<1>22. History'
  <2>1. ASSUME Undisturbed, j \in SyncJob
        PROVE  JobHistory(j)'
    <3>1. JobHistory(j) /\ ~disabled[j]
      BY <1>1, <2>1 DEF ScheduleInv, History
    <3>2. CASE due
      <4>1. j \notin SystemJob
        BY <2>1 DEF SyncJob, UserJob
      <4> QED
        BY <1>2, <1>3, <1>13, <1>14, <2>1, <3>1, <3>2, <4>1, NextDue DEF ScheduleInv
    <3>3. CASE ~due
      BY <1>2, <1>3, <1>14, <1>15, <3>1, <3>3, HistoryKept
    <3> QED
      BY <3>2, <3>3
  <2>2. \A i \in SyncJob : i # j => /\ next_tics'[i] = next_tics[i] /\ last_call'[i] = last_call[i]
                                    /\ Selected(i)' <=> Selected(i)
    BY <1>2, <1>3, <1>12, Constants DEF SyncJob
  <2> QED
    BY <1>2, <2>1, <2>2, OneJobHistory DEF ScheduleInv
<1>23. \A i \in SyncJob : next_tics[i] > time_tics => next_tics'[i] = next_tics[i]
  BY <1>3, <1>6, Constants DEF SyncJob
<1>24. next_job_time'[t] > time_tics
  BY <1>16, <1>17
<1>25. /\ \A u \in Thread : u # t => pc'[u] = pc[u] /\ curr_index'[u] = curr_index[u]
                                    /\ next_job_time'[u] = next_job_time[u]
       /\ t # 0 => ii' = ii /\ curr_job'[0] = curr_job[0]
  BY <1>2, <1>4, Threads
<1>26. exec_command' \in {exec_command, "FreezeCmd"}
  BY <1>2
<1> QED
  BY <1>1, <1>2, <1>9, <1>10, <1>18, <1>20, <1>21, <1>22, <1>23, <1>24, <1>25, <1>26, SweepStep

\* The job that a thread runs is the one before its cursor, and no other thread runs it.
LEMMA RunningJob ==
  ASSUME TypeOK, JobsOnce, CursorBehind, NEW t \in Thread, pc[t] \in {"depend", "call"}
  PROVE  /\ curr_job[t] \in JobsOf(t) /\ curr_job[t] \in Job
         /\ \A u \in Thread, l \in Nat : l \in 1 .. Len(JobQueue[u]) /\ JobQueue[u][l] = curr_job[t] =>
              u = t /\ l = curr_index[t] - 1
         /\ \A u \in Thread : pc[u] \in {"depend", "call"} /\ curr_job[u] = curr_job[t] => u = t
<1>1. ASSUME NEW u \in Thread, pc[u] \in {"depend", "call"}
      PROVE  /\ curr_index[u] - 1 \in 1 .. Len(JobQueue[u])
             /\ JobQueue[u][curr_index[u] - 1] = curr_job[u]
  BY <1>1, QueuedJobs DEF TypeOK, QueuesOK, CursorBehind
<1>2. \A u \in Thread, l \in Nat : l \in 1 .. Len(JobQueue[u]) /\ JobQueue[u][l] = curr_job[t] =>
         u = t /\ l = curr_index[t] - 1
  BY <1>1, OnePlace
<1>3. ASSUME NEW u \in Thread, pc[u] \in {"depend", "call"}, curr_job[u] = curr_job[t]
      PROVE  u = t
  BY <1>1, <1>3, OnePlace
<1> QED
  BY <1>1, <1>2, <1>3, InJobs

\* A job that ends, or is about to start.
LEMMA CallStep ==
  ASSUME JobsOnce, ClassOrder, TypeOK, TypeOK', SyncInv, ScheduleInv,
         NEW t \in Thread, InStep(t), pc[t] \in {"depend", "call"}, pc'[t] \in {"sweep", "depend", "call"},
         UNCHANGED <<clockVars, time_tics, amf_next_tics, cycle_tics, disabled, child_complete, cmds, curr_index,
                     curr_job>>,
         \A u \in Thread : u # t => pc'[u] = pc[u] /\ next_job_time'[u] = next_job_time[u],
         t # 0 => ii' = ii,
         exec_command' \in {exec_command, "FreezeCmd"},
         NEW j \in Job, j = curr_job[t],
         \A i \in Job : i # j => next_tics'[i] = next_tics[i] /\ last_call'[i] = last_call[i],
         pc'[t] = "sweep" => j # AdvanceJob,
         pc'[t] # "sweep" => UNCHANGED <<next_tics, last_call, next_job_time>>,
         pc'[t] = "sweep" => last_call'[j] = time_tics,
         IF j \in SystemJob /\ pc'[t] = "sweep"
         THEN next_tics'[j] > time_tics
              /\ next_job_time'[t] = TestNextJobCallTime(next_job_time[t], next_tics'[j], time_tics)
         ELSE next_tics'[j] = next_tics[j] /\ next_job_time'[t] = next_job_time[t],
         FreezeDue'
  PROVE  ScheduleInv'
<1>1. /\ InSweep(t) /\ InSweep(t)' /\ j \in JobsOf(t)
      /\ \A u \in Thread, l \in Nat : l \in 1 .. Len(JobQueue[u]) /\ JobQueue[u][l] = j =>
            u = t /\ l = curr_index[t] - 1
      /\ \A u \in Thread : pc[u] \in {"depend", "call"} /\ curr_job[u] = j => u = t
  BY RunningJob DEF ScheduleInv, InSweep
<1>2. t = 0 => (AdvanceAhead' <=> AdvanceAhead)
  BY DEF AdvanceAhead
<1>3. \A u \in Thread, l \in Nat : Swept(u, l)' <=> Swept(u, l)
  BY <1>1, <1>2, SweepPlaces, Threads
<1>4. CursorBehind'
  BY DEF ScheduleInv, CursorBehind
<1>5. \A i : i # j => (Selected(i)' <=> Selected(i))
  BY DEF Selected
<1>6. Selected(j) /\ (pc'[t] = "sweep" => ~Selected(j)') /\ (pc'[t] # "sweep" => Selected(j)')
  BY <1>1 DEF Selected
<1>7. /\ time_tics \in Nat /\ next_job_time[t] \in Nat /\ next_tics[j] \in Nat /\ next_tics'[j] \in Nat
      /\ \A u \in Thread : next_job_time[u] \in Nat
      /\ next_job_time[t] > time_tics
  <2>1. next_job_time[t] > time_tics
    BY <1>1, Threads DEF ScheduleInv, QueueAhead, InStep
  <2> QED
    BY <2>1, Typed DEF TypeOK, JobsOK
<1>8. /\ next_job_time'[t] > time_tics /\ next_job_time'[t] <= next_job_time[t]
      /\ j \in SystemJob /\ pc'[t] = "sweep" => next_job_time'[t] <= next_tics'[j]
  BY <1>7 DEF TestNextJobCallTime, MinOf
<1>9. \A u \in Thread : next_job_time'[u] <= next_job_time[u]
  BY <1>7, <1>8
<1>10. ASSUME NEW u \in Thread, InStep(u), NEW l \in 1 .. Len(JobQueue[u]), JobQueue[u][l] = j
       PROVE  JobAhead(u, l)'
  <2>1. JobAhead(u, l)
    BY <1>10 DEF ScheduleInv, CallsAhead
  <2>2. CASE j \in SystemJob /\ pc'[t] = "sweep"
    <3>1. u = t
      BY <1>1, <1>10
    <3>2. next_tics'[j] > time_tics /\ next_tics'[j] >= time_tics /\ next_job_time'[u] <= next_tics'[j]
      BY <1>7, <1>8, <2>2, <3>1
    <3> QED
      BY <1>10, <3>2 DEF JobAhead
  <2>3. CASE ~(j \in SystemJob /\ pc'[t] = "sweep")
    <3>1. SetsItsTime(j) => SetsItsTime(j)'
      BY <1>6, <2>3 DEF SetsItsTime
    <3> QED
      BY <1>3, <1>9, <1>10, <2>1, <2>3, <3>1, JobKept
  <2> QED
    BY <2>2, <2>3
<1>11. CallsAhead'
  <2>1. \A i : i # j /\ SetsItsTime(i) => SetsItsTime(i)'
    BY <1>5 DEF SetsItsTime
  <2>2. ASSUME NEW u \in Thread, InStep(u), NEW l \in 1 .. Len(JobQueue[u])
        PROVE  IF JobQueue[u][l] = j THEN JobAhead(u, l)'
               ELSE /\ Swept(u, l)' => Swept(u, l) /\ next_job_time'[u] <= next_job_time[u]
                    /\ SetsItsTime(JobQueue[u][l]) => SetsItsTime(JobQueue[u][l])'
    BY <1>3, <1>9, <1>10, <2>1, <2>2
  <2>3. \A u \in Thread : InStep(u) => \A l \in 1 .. Len(JobQueue[u]) :
           IF JobQueue[u][l] = j THEN JobAhead(u, l)'
           ELSE /\ Swept(u, l)' => Swept(u, l) /\ next_job_time'[u] <= next_job_time[u]
                /\ SetsItsTime(JobQueue[u][l]) => SetsItsTime(JobQueue[u][l])'
    BY <2>2
  <2>4. CallsAhead /\ time_tics' = time_tics /\ \A i \in Job : i # j => next_tics'[i] = next_tics[i]
    BY DEF ScheduleInv
  <2> QED
    BY <2>3, <2>4, OneJobMoves, SMTT(30)
<1>12. \A i \in SyncJob : next_tics'[i] = next_tics[i]
  <2>1. j \in SyncJob => j \notin SystemJob
    BY DEF SyncJob, UserJob
  <2> QED
    BY <2>1, Constants DEF SyncJob
<1>13. History'
  <2>1. ASSUME Undisturbed, j \in SyncJob
        PROVE  JobHistory(j)'
    <3>1. JobHistory(j)
      BY <2>1 DEF ScheduleInv, History
    <3>2. CASE pc'[t] = "sweep"
      <4>1. /\ last_call'[j] = time_tics /\ ~Selected(j)' /\ next_tics'[j] = next_tics[j]
            /\ Due(j, time_tics) /\ time_tics < next_tics[j] /\ Handled(j) = time_tics
        BY <1>6, <1>12, <2>1, <3>1, <3>2 DEF JobHistory, Handled
      <4>2. Handled(j)' = time_tics
        BY <4>1 DEF Handled
      <4>3. \A n : Due(j, n)' <=> Due(j, n)
        BY DEF Due, Schedule!DueAt
      <4>4. last_call'[j] <= time_tics' /\ last_call'[j] < next_tics'[j]
        BY <1>7, <4>1
      <4>5. \A n \in 0 .. TerminateTime : Due(j, n)' => n <= Handled(j)' \/ n >= next_tics'[j]
        BY <3>1, <4>1, <4>2, <4>3 DEF JobHistory
      <4>6. Due(j, next_tics[j])' \/ next_tics'[j] >= MaxTics
        BY <3>1, <4>1 DEF JobHistory, Due, Schedule!DueAt
      <4> QED
        BY <4>1, <4>4, <4>5, <4>6 DEF JobHistory
    <3>3. CASE pc'[t] # "sweep"
      BY <1>6, <3>1, <3>3, HistoryKept
    <3> QED
      BY <3>2, <3>3
  <2>2. \A i \in SyncJob : i # j => /\ next_tics'[i] = next_tics[i] /\ last_call'[i] = last_call[i]
                                    /\ Selected(i)' <=> Selected(i)
    BY <1>5, Constants DEF SyncJob
  <2> QED
    BY <2>1, <2>2, OneJobHistory DEF ScheduleInv
<1> QED
  BY <1>1, <1>2, <1>4, <1>8, <1>11, <1>12, <1>13, SweepStep

\* A job waits for those it depends on, and ends.
LEMMA CallSchedule ==
  ASSUME JobsOnce, ClassOrder, TypeOK, TypeOK', SyncInv, ScheduleInv,
         NEW t \in Thread, InStep(t), AwaitDepends(t) \/ ReturnFromJob(t)
  PROVE  ScheduleInv'
<1>1. PICK j \in Job : j = curr_job[t]
  BY Typed
<1>2. pc[t] \in {"depend", "call"}
  BY DEF AwaitDepends, ReturnFromJob
<1>3. Now(t) = time_tics
  BY <1>2, InStepTime DEF InSweep
<1>4. CASE AwaitDepends(t)
  <2>1. /\ UNCHANGED <<clockVars, time_tics, amf_next_tics, cycle_tics, disabled, child_complete, cmds,
                       curr_index, curr_job, next_tics, last_call, next_job_time, exec_command, freeze_times>>
        /\ t # 0 => ii' = ii
    BY <1>4 DEF AwaitDepends, clockVars, modeVars, jobVars, queueVars, childVars
  <2>2. pc'[t] \in {"depend", "call"} /\ \A u \in Thread : u # t => pc'[u] = pc[u]
    <3>1. pc' = pc \/ pc' = [pc EXCEPT ![t] = "call"]
      BY <1>4 DEF AwaitDepends, Goto
    <3> QED
      BY <1>2, <3>1, Typed
  <2>3. \A i : Selected(i)' <=> Selected(i)
    BY <1>2, <2>1, <2>2 DEF Selected
  <2>4. FreezeDue'
    BY <2>1, <2>3 DEF ScheduleInv, FreezeDue
  <2> QED
    BY <1>1, <1>2, <2>1, <2>2, <2>4, CallStep
<1>5. CASE ReturnFromJob(t)
  <2>1. /\ UNCHANGED <<clockVars, time_tics, amf_next_tics, cycle_tics, disabled, child_complete, cmds,
                       curr_index, curr_job, exec_command, freeze_times, ii>>
        /\ last_call' = [last_call EXCEPT ![j] = time_tics]
        /\ j \notin {AdvanceJob, FreezeJob}
        /\ \/ j \notin SystemJob /\ UNCHANGED <<next_tics, next_job_time>>
           \/ /\ j \in SystemJob
              /\ \E n \in EventTimesAfter(time_tics) :
                   /\ next_tics' = [next_tics EXCEPT ![j] = n]
                   /\ next_job_time' = [next_job_time EXCEPT ![t] = TestNextJobCallTime(@, n, time_tics)]
    BY <1>1, <1>3, <1>5 DEF ReturnFromJob, clockVars, modeVars, callVars, childVars
  <2>2. pc'[t] = "sweep" /\ \A u \in Thread : u # t => pc'[u] = pc[u]
    BY <1>5, Typed DEF ReturnFromJob, Goto
  <2>3. last_call'[j] = time_tics /\ \A i \in Job : i # j => last_call'[i] = last_call[i]
    BY <2>1, Typed
  <2>4. time_tics \in Nat /\ time_tics < MaxTics /\ MaxTics \in Nat
    BY Constants, Typed DEF ScheduleInv, FrameInv
  <2>5. /\ \A u \in Thread : u # t => next_job_time'[u] = next_job_time[u]
        /\ \A i \in Job : i # j => next_tics'[i] = next_tics[i]
        /\ IF j \in SystemJob
           THEN next_tics'[j] > time_tics
                /\ next_job_time'[t] = TestNextJobCallTime(next_job_time[t], next_tics'[j], time_tics)
           ELSE next_tics'[j] = next_tics[j] /\ next_job_time'[t] = next_job_time[t]
    <3>1. CASE j \notin SystemJob
      BY <2>1, <3>1
    <3>2. CASE j \in SystemJob
      <4>1. PICK n \in EventTimesAfter(time_tics) :
               /\ next_tics' = [next_tics EXCEPT ![j] = n]
               /\ next_job_time' = [next_job_time EXCEPT ![t] = TestNextJobCallTime(@, n, time_tics)]
        BY <2>1, <3>2
      <4>2. n > time_tics
        BY <2>4 DEF EventTimesAfter
      <4>3. next_tics'[j] = n /\ next_job_time'[t] = TestNextJobCallTime(next_job_time[t], n, time_tics)
        BY <4>1, Typed
      <4> QED
        BY <3>2, <4>1, <4>2, <4>3, Typed
    <3> QED
      BY <3>1, <3>2
  <2>6. FreezeDue'
    <3>1. next_tics'[FreezeJob] = next_tics[FreezeJob]
      BY <2>1, <2>5, SystemJobs
    <3>2. Selected(FreezeJob)' => Selected(FreezeJob)
      BY <2>1, <2>2 DEF Selected
    <3> QED
      BY <2>1, <3>1, <3>2 DEF ScheduleInv, FreezeDue
  <2>7. /\ t # 0 => ii' = ii
        /\ exec_command' \in {exec_command, "FreezeCmd"}
        /\ j # AdvanceJob
    BY <2>1
  <2> QED
    BY <1>1, <1>2, <2>1, <2>2, <2>3, <2>5, <2>6, <2>7, CallStep
<1> QED
  BY <1>4, <1>5

\* The freeze job, and the wait of the job that advances the time.
LEMMA FreezeJobSchedule ==
  ASSUME JobsOnce, ClassOrder, TypeOK, TypeOK', SyncInv, ScheduleInv,
         ScheduledThreadSync \/ SchedFreezeToExecCommand
  PROVE  ScheduleInv'
<1>1. 0 \in Thread /\ InStep(0)
  BY Threads DEF InStep
<1>2. CASE ScheduledThreadSync
  <2>1. /\ UNCHANGED <<clockVars, time_tics, amf_next_tics, cycle_tics, disabled, child_complete, cmds,
                       curr_index, curr_job, next_tics, last_call, next_job_time, exec_command, freeze_times, pc>>
        /\ pc[0] = "call"
    BY <1>2 DEF ScheduledThreadSync, clockVars, modeVars, jobVars, queueVars, callVars, childVars
  <2>2. FreezeDue'
    BY <2>1 DEF ScheduleInv, FreezeDue, Selected
  <2>3. curr_job[0] \in Job
    BY <1>1, Typed
  <2> QED
    BY <1>1, <2>1, <2>2, <2>3, CallStep
<1>3. CASE SchedFreezeToExecCommand
  <2>1. /\ UNCHANGED <<clockVars, time_tics, amf_next_tics, cycle_tics, disabled, child_complete, cmds,
                       curr_index, curr_job>>
        /\ pc[0] = "call" /\ curr_job[0] = FreezeJob
        /\ last_call' = [last_call EXCEPT ![FreezeJob] = time_tics]
    BY <1>3 DEF SchedFreezeToExecCommand, clockVars, callVars, childVars
  <2>2. ~FreezeOnFrameBoundary
    BY <1>1, <2>1 DEF ScheduleInv, FreezeDue, Selected
  <2>3. /\ exec_command' \in {exec_command, "FreezeCmd"}
        /\ freeze_times' = FreezeTimesLeft
        /\ next_tics' = [next_tics EXCEPT ![FreezeJob] = SchedFreezeNext]
        /\ next_job_time' = [next_job_time EXCEPT ![0] = TestNextJobCallTime(@, SchedFreezeNext, time_tics)]
    BY <1>3, <2>2 DEF SchedFreezeToExecCommand
  <2>4. pc'[0] = "sweep" /\ \A u \in Thread : u # 0 => pc'[u] = pc[u]
    BY <1>1, <1>3, Typed DEF SchedFreezeToExecCommand, Goto
  <2>5. SchedFreezeNext > time_tics /\ \A n \in FreezeTimesLeft : SchedFreezeNext <= n
    <3>1. FreezeTimesLeft \subseteq Nat /\ \A n \in FreezeTimesLeft : n > time_tics
      BY Typed DEF FreezeTimesLeft
    <3>2. time_tics < MaxTics
      BY Constants, Typed DEF ScheduleInv, FrameInv
    <3> QED
      BY <3>1, <3>2, LeastOf DEF SchedFreezeNext
  <2>6. PICK n \in Nat : n = SchedFreezeNext
    BY NextFreezeIsTime DEF TypeOK
  <2>7. /\ next_tics'[FreezeJob] = n /\ \A i \in Job : i # FreezeJob => next_tics'[i] = next_tics[i]
        /\ next_job_time'[0] = TestNextJobCallTime(next_job_time[0], n, time_tics)
        /\ \A u \in Thread : u # 0 => next_job_time'[u] = next_job_time[u]
        /\ last_call'[FreezeJob] = time_tics /\ \A i \in Job : i # FreezeJob => last_call'[i] = last_call[i]
    BY <1>1, <2>1, <2>3, <2>6, Typed, SystemJobs
  <2>8. FreezeDue'
    BY <2>2, <2>3, <2>5, <2>6, <2>7 DEF FreezeDue
  <2>9. /\ FreezeJob \in Job /\ FreezeJob = curr_job[0] /\ FreezeJob \in SystemJob /\ FreezeJob # AdvanceJob
        /\ next_tics'[FreezeJob] > time_tics
        /\ next_job_time'[0] = TestNextJobCallTime(next_job_time[0], next_tics'[FreezeJob], time_tics)
    BY <2>1, <2>5, <2>6, <2>7, SystemJobs
  <2> QED
    BY <1>1, <2>1, <2>3, <2>4, <2>7, <2>8, <2>9, CallStep
<1> QED
  BY <1>2, <1>3

--------------------------------------------------------------------------------
(***************************************************************************)
(* The time moves on.                                                      *)
(***************************************************************************)
\* When the time is about to move on, the scheduled threads have completed their sweeps.
LEMMA ChildrenDone ==
  ASSUME TypeOK, SyncInv, pc[0] = "call", curr_job[0] = AdvanceJob, ii > NumChild,
         NEW c \in Child, ProcessType[c] = "SCHEDULED"
  PROVE  child_complete[c] /\ pc[c] \in {"wait", "waiting", "cancelled"} /\ StartedInPass(c)
<1>1. NumChild \in Nat /\ ii \in Nat /\ c \in 1 .. NumChild
  BY TriggerAssumption, Typed DEF Child
<1>2. c < ii
  BY <1>1
<1>3. child_complete[c]
  BY <1>2 DEF SyncInv, Phases, ScheduledDone
<1> QED
  BY <1>3 DEF SyncInv, Handshake, InHand, StartedInPass, InSweep, AdvanceAhead

\* All calls that are left are ahead of the time, and NextTime is not after any of them.
LEMMA AllAhead ==
  ASSUME JobsOnce, ClassOrder, TypeOK, SyncInv, ScheduleInv,
         pc[0] = "call", curr_job[0] = AdvanceJob, ii > NumChild
  PROVE  /\ \A t \in Thread : InStep(t) => \A k \in 1 .. Len(JobQueue[t]) :
              LET j == JobQueue[t][k] IN
                j # AdvanceJob => ~Selected(j) /\ next_tics[j] > time_tics /\ NextTime <= next_tics[j]
         /\ time_tics <= NextTime /\ NextTime <= TerminateTime /\ NextTime <= next_frame_check_tics
         /\ NextTime = time_tics => TerminateTime = time_tics
         /\ \A c \in Child : ProcessType[c] = "AMF" => NextTime <= amf_next_tics[c]
         /\ NextTime \in Nat
<1> DEFINE Calls == {n \in {NextJobCallTime(0), ip_next_job_time} : n > time_tics}
           Scheduled == {NextJobCallTime(c) : c \in {d \in Child : enabled[d] /\ ProcessType[d] = "SCHEDULED"}}
           All == {next_frame_check_tics, TerminateTime} \cup Calls \cup Scheduled \cup SyncTimes
<1>1. NextTime \in All /\ \A n \in All : NextTime <= n
  <2>1. Calls \subseteq Nat
    BY NextJobCallTimeIsTime, Threads DEF TypeOK, MasterOK
  <2>2. Scheduled \subseteq Nat
    BY NextJobCallTimeIsTime, Threads DEF TypeOK
  <2>3. SyncTimes \subseteq Nat
    BY Typed DEF SyncTimes
  <2>4. next_frame_check_tics \in Nat /\ TerminateTime \in Nat
    BY Typed, Constants
  <2>5. All \in SUBSET Nat /\ All # {}
    BY <2>1, <2>2, <2>3, <2>4
  <2>6. NextTime = Least(All)
    BY DEF NextTime
  <2> HIDE DEF All
  <2> QED
    BY <2>5, <2>6, LeastOf
<1>2. PICK p \in 1 .. Len(JobQueue[0]) :
         /\ JobQueue[0][p] = AdvanceJob
         /\ \A k \in 1 .. Len(JobQueue[0]) : /\ IsTail(JobQueue[0][k]) <=> k > p
                                             /\ JobQueue[0][k] = AdvanceJob <=> k = p
  BY AdvancePlace
<1>3. /\ 0 \in Thread /\ time_tics \in Nat /\ Len(JobQueue[0]) \in Nat /\ AdvanceAhead /\ InSweep(0)
      /\ curr_index[0] = p + 1
  <2>1. curr_index[0] > 1 /\ JobQueue[0][curr_index[0] - 1] = AdvanceJob
    BY Threads DEF ScheduleInv, CursorBehind
  <2>2. curr_index[0] - 1 \in 1 .. Len(JobQueue[0])
    BY <2>1, Threads, QueuedJobs DEF TypeOK, QueuesOK
  <2>3. curr_index[0] - 1 = p
    BY <1>2, <2>1, <2>2
  <2>4. curr_index[0] \in Nat /\ time_tics \in Nat /\ Len(JobQueue[0]) \in Nat
    BY Threads, QueuedJobs, Typed
  <2>5. curr_index[0] = p + 1
    BY <2>3, <2>4
  <2> QED
    BY <2>4, <2>5, Threads DEF AdvanceAhead, InSweep
<1>4. \A t \in Thread, k \in Nat : InStep(t) /\ k \in 1 .. Len(JobQueue[t]) =>
         /\ JobAhead(t, k)
         /\ JobQueue[t][k] # AdvanceJob => ~Selected(JobQueue[t][k])
  <2> SUFFICES ASSUME NEW t \in Thread, InStep(t), NEW k \in 1 .. Len(JobQueue[t]), JobQueue[t][k] # AdvanceJob
               PROVE  ~Selected(JobQueue[t][k])
    BY DEF ScheduleInv, CallsAhead
  <2>1. CASE t = 0
    BY <2>1, SelectedHere DEF ScheduleInv
  <2>2. CASE t # 0
    BY <2>2, SelectedHere, ChildrenDone, Threads DEF ScheduleInv, InStep
  <2> QED
    BY <2>1, <2>2
<1>5. ASSUME NEW k \in 1 .. Len(JobQueue[0]), k > p
      PROVE  next_tics[JobQueue[0][k]] > time_tics
  <2>1. Swept(0, k) /\ JobQueue[0][k] # AdvanceJob /\ ~SetsItsTime(JobQueue[0][k])
    BY <1>2, <1>3, <1>4, <1>5, Threads DEF Swept, InStep, SetsItsTime
  <2> QED
    BY <1>3, <1>4, <2>1 DEF JobAhead, InStep
<1>6. /\ NextJobCallTime(0) > time_tics /\ NextJobCallTime(0) <= next_job_time[0]
      /\ \A k \in p + 1 .. Len(JobQueue[0]) : NextJobCallTime(0) <= next_tics[JobQueue[0][k]]
  <2> DEFINE S == {next_job_time[0]} \cup {next_tics[JobQueue[0][k]] : k \in curr_index[0] .. Len(JobQueue[0])}
  <2>1. \A k \in curr_index[0] .. Len(JobQueue[0]) : k \in 1 .. Len(JobQueue[0]) /\ k > p
    BY <1>3
  <2>2. next_job_time[0] > time_tics /\ next_job_time[0] \in Nat
    BY Typed, Threads DEF ScheduleInv, QueueAhead
  <2>3. S \in SUBSET Nat /\ S # {} /\ \A n \in S : n > time_tics
    <3>1. \A k \in curr_index[0] .. Len(JobQueue[0]) :
            next_tics[JobQueue[0][k]] \in Nat /\ next_tics[JobQueue[0][k]] > time_tics
      BY <1>3, <1>5, <2>1, InJobs, Typed
    <3> QED
      BY <2>2, <3>1
  <2>4. NextJobCallTime(0) = Least(S)
    BY DEF NextJobCallTime
  <2>5. NextJobCallTime(0) \in S /\ \A n \in S : NextJobCallTime(0) <= n
    <3> HIDE DEF S
    <3> QED
      BY <2>3, <2>4, LeastOf
  <2> QED
    BY <1>3, <2>3, <2>5
<1>7. NextTime <= NextJobCallTime(0)
  BY <1>1, <1>6
<1>8. ASSUME NEW c \in Child, ProcessType[c] = "SCHEDULED"
      PROVE  /\ NextJobCallTime(c) = next_job_time[c] /\ next_job_time[c] > time_tics
             /\ \A k \in Nat : Swept(c, k)
             /\ NextTime <= next_job_time[c]
  <2>1. child_complete[c] /\ StartedInPass(c)
    BY <1>8, ChildrenDone
  <2>2. next_job_time[c] > time_tics /\ AtEnd(c) /\ next_job_time[c] \in Nat
    BY <1>8, <2>1, Typed, Threads DEF ScheduleInv, QueueAhead
  <2>3. curr_index[c] .. Len(JobQueue[c]) = {}
    <3>1. curr_index[c] \in Nat /\ Len(JobQueue[c]) \in Nat
      BY QueuedJobs, Threads, Typed
    <3> QED
      BY <2>2, <3>1 DEF AtEnd, QueueEnd
  <2>4. NextJobCallTime(c) = Least({next_job_time[c]})
    BY <2>3 DEF NextJobCallTime
  <2>5. Least({next_job_time[c]}) = next_job_time[c]
    <3>1. {next_job_time[c]} \in SUBSET Nat /\ {next_job_time[c]} # {}
      BY <2>2
    <3>2. Least({next_job_time[c]}) \in {next_job_time[c]}
      BY <3>1, LeastOf, Zenon
    <3> QED
      BY <3>2
  <2>6. NextJobCallTime(c) \in Scheduled
    BY <1>8 DEF SyncInv, AllEnabled
  <2>7. NextTime <= NextJobCallTime(c)
    BY <1>1, <2>6
  <2>8. \A k \in Nat : Swept(c, k)
    BY <2>1, Threads DEF Swept
  <2> QED
    BY <2>2, <2>4, <2>5, <2>7, <2>8
<1>9. ASSUME NEW t \in Thread, InStep(t), NEW k \in 1 .. Len(JobQueue[t]), NEW j \in Job, j = JobQueue[t][k],
             j # AdvanceJob
      PROVE  ~Selected(j) /\ next_tics[j] > time_tics /\ NextTime <= next_tics[j]
  <2>1. ~Selected(j) /\ ~SetsItsTime(j) /\ next_tics[j] \in Nat /\ NextTime \in Nat
    <3>1. ~Selected(j)
      BY <1>4, <1>9
    <3>2. next_tics[j] \in Nat /\ NextTime \in Nat
      BY Typed, NextTimeIsTime DEF TypeOK
    <3> QED
      BY <3>1, <3>2 DEF SetsItsTime
  <2>2. CASE t # 0
    <3>1. Swept(t, k) /\ NextTime <= next_job_time[t] /\ next_job_time[t] \in Nat
      <4>1. t \in Child /\ ProcessType[t] = "SCHEDULED"
        BY <1>9, <2>2, Threads DEF InStep
      <4>2. Swept(t, k) /\ NextTime <= next_job_time[t]
        BY <1>8, <4>1
      <4> QED
        BY <4>2, Typed
    <3>2. next_tics[j] > time_tics /\ next_job_time[t] <= next_tics[j]
      BY <1>4, <1>9, <2>1, <2>2, <3>1 DEF JobAhead
    <3> QED
      BY <2>1, <3>1, <3>2
  <2>3. CASE t = 0 /\ k > p
    <3>1. NextJobCallTime(0) <= next_tics[j] /\ NextJobCallTime(0) \in Nat
      BY <1>3, <1>6, <1>9, <2>3, NextJobCallTimeIsTime DEF TypeOK
    <3> QED
      BY <1>5, <1>7, <1>9, <2>1, <2>3, <3>1
  <2>4. CASE t = 0 /\ ~(k > p)
    <3>1. k < p + 1 /\ ~IsTail(j)
      BY <1>2, <1>9, <2>4
    <3>2. Swept(0, k)
      BY <1>3, <1>9, <2>4, <3>1 DEF Swept
    <3>3. next_tics[j] > time_tics /\ next_job_time[0] <= next_tics[j]
      BY <1>4, <1>9, <2>1, <2>4, <3>1, <3>2 DEF JobAhead
    <3>4. NextJobCallTime(0) \in Nat /\ next_job_time[0] \in Nat
      BY <1>3, NextJobCallTimeIsTime, Typed DEF TypeOK
    <3> QED
      BY <1>6, <1>7, <2>1, <3>3, <3>4
  <2> QED
    BY <2>2, <2>3, <2>4
<1>10. next_frame_check_tics > time_tics /\ time_tics <= TerminateTime
  <2>1. ~AfterAdvance
    BY <1>3 DEF AfterAdvance
  <2> QED
    BY <2>1, Typed DEF ScheduleInv, FrameInv
<1>11. ASSUME NEW c \in Child, ProcessType[c] = "AMF"
       PROVE  amf_next_tics[c] > time_tics /\ amf_next_tics[c] \in SyncTimes
  <2>1. StartedInPass(c)
    BY <1>3 DEF StartedInPass
  <2>2. enabled[c] /\ AmfCycle[c] > 0
    BY <1>11, ExecutiveAssumption DEF SyncInv, AllEnabled, ExecutiveAssumption
  <2> QED
    BY <1>11, <2>1, <2>2, Typed DEF ScheduleInv, AmfAhead, SyncTimes
<1>12. \A n \in All : n > time_tics \/ n = TerminateTime
  <2>1. \A n \in Scheduled : n > time_tics
    BY <1>8
  <2>2. \A n \in SyncTimes : n > time_tics
    BY <1>11 DEF SyncTimes
  <2> QED
    BY <1>10, <2>1, <2>2
<1>13. NextTime \in Nat
  BY NextTimeIsTime DEF TypeOK
<1>14. \A t \in Thread : InStep(t) => \A k \in 1 .. Len(JobQueue[t]) :
          LET j == JobQueue[t][k] IN
            j # AdvanceJob => ~Selected(j) /\ next_tics[j] > time_tics /\ NextTime <= next_tics[j]
  BY <1>9, InJobs
<1>15. time_tics <= NextTime /\ (NextTime = time_tics => TerminateTime = time_tics)
  BY <1>1, <1>3, <1>10, <1>12, <1>13, Constants
<1>16. NextTime <= TerminateTime /\ NextTime <= next_frame_check_tics
  BY <1>1
<1>17. \A c \in Child : ProcessType[c] = "AMF" => NextTime <= amf_next_tics[c]
  BY <1>1, <1>11
<1> QED
  BY <1>13, <1>14, <1>15, <1>16, <1>17

\* The time moves on to the next call, the next sync time or the next end of a frame.
LEMMA AdvanceSchedule ==
  ASSUME JobsOnce, ClassOrder, TypeOK, TypeOK', SyncInv, ScheduleInv, AdvanceSimTime
  PROVE  ScheduleInv'
<1>1. /\ pc[0] = "call" /\ curr_job[0] = AdvanceJob /\ ii > NumChild
      /\ time_last_pass_tics' = time_tics /\ time_tics' = NextTime
      /\ next_tics' = [next_tics EXCEPT ![AdvanceJob] = time_tics']
      /\ last_call' = [last_call EXCEPT ![AdvanceJob] = time_tics]
      /\ UNCHANGED <<next_frame_check_tics, frame_count, cycle_tics, disabled, curr_index, curr_job,
                     child_complete, amf_next_tics, freeze_times, exec_command, cmds, ii>>
  BY DEF AdvanceSimTime, modeVars, callVars, childVars
<1>2. pc'[0] = "sweep" /\ \A c \in Child : pc'[c] = pc[c]
  BY MasterAt DEF AdvanceSimTime, MainPC
<1>3. next_job_time'[0] = time_tics' + SoftwareFrame
  <2>1. next_job_time' = [t \in Thread |->
          CASE t = 0 -> time_tics' + SoftwareFrame
            [] t # 0 /\ enabled[t] /\ ProcessType[t] = "SCHEDULED" -> NextJobCallTime(t)
            [] OTHER -> next_job_time[t]]
    BY DEF AdvanceSimTime
  <2> QED
    BY <2>1, Threads
<1>4. PICK n \in Nat : n = NextTime
  BY AllAhead, <1>1
<1>5. /\ time_tics' = n /\ time_tics \in Nat /\ time_tics <= n /\ n <= TerminateTime /\ n <= next_frame_check_tics
      /\ n = time_tics => TerminateTime = time_tics
      /\ \A c \in Child : ProcessType[c] = "AMF" => n <= amf_next_tics[c]
      /\ \A t \in Thread : InStep(t) => \A k \in 1 .. Len(JobQueue[t]) :
           JobQueue[t][k] # AdvanceJob => /\ ~Selected(JobQueue[t][k])
                                          /\ next_tics[JobQueue[t][k]] > time_tics
                                          /\ n <= next_tics[JobQueue[t][k]]
  BY <1>1, <1>4, AllAhead, Typed
<1>6. \A i \in Job : i # AdvanceJob => next_tics'[i] = next_tics[i] /\ last_call'[i] = last_call[i]
  BY <1>1, Typed
<1>7. \A c \in Child : ProcessType[c] = "SCHEDULED" =>
         child_complete[c] /\ pc[c] \in {"wait", "waiting", "cancelled"} /\ StartedInPass(c)
  BY <1>1, ChildrenDone
<1>p. PICK p \in 1 .. Len(JobQueue[0]) :
         /\ JobQueue[0][p] = AdvanceJob
         /\ \A k \in 1 .. Len(JobQueue[0]) : /\ IsTail(JobQueue[0][k]) <=> k > p
                                             /\ JobQueue[0][k] = AdvanceJob <=> k = p
  BY AdvancePlace
<1>q. curr_index[0] = p + 1 /\ curr_index'[0] = p + 1 /\ Len(JobQueue[0]) \in Nat
  <2>1. curr_index[0] - 1 \in 1 .. Len(JobQueue[0]) /\ JobQueue[0][curr_index[0] - 1] = AdvanceJob
    BY <1>1, QueuedJobs, Threads DEF ScheduleInv, CursorBehind, TypeOK, QueuesOK
  <2>2. curr_index[0] - 1 = p
    BY <1>p, <2>1
  <2>3. curr_index[0] \in Nat /\ Len(JobQueue[0]) \in Nat /\ curr_index'[0] = curr_index[0]
    BY <1>1, Threads, QueuedJobs, Typed
  <2> QED
    BY <2>2, <2>3
<1>8. InSweep(0)' /\ ~AdvanceAhead'
  <2>1. \A k \in curr_index'[0] .. Len(JobQueue[0]) : JobQueue[0][k] # AdvanceJob
    BY <1>p, <1>q
  <2> QED
    BY <1>2, <2>1 DEF InSweep, AdvanceAhead
<1>9. \A c \in Child : ~StartedInPass(c)' /\ ~Armed(c)'
  BY <1>2, <1>8 DEF StartedInPass, Armed
<1>10. \A t \in Thread, k \in Nat : InStep(t) /\ k \in 1 .. Len(JobQueue[t]) => ~Swept(t, k)'
  <2> SUFFICES ASSUME NEW t \in Thread, InStep(t), NEW k \in 1 .. Len(JobQueue[t])
               PROVE  ~Swept(t, k)'
    OBVIOUS
  <2>1. CASE t = 0
    BY <1>8, <1>p, <1>q, <2>1 DEF Swept
  <2>2. CASE t # 0
    <3>1. pc'[t] \in {"wait", "waiting", "cancelled"}
      BY <1>2, <1>7, <2>2, Threads DEF InStep
    <3> QED
      BY <1>9, <2>2, <3>1, Threads DEF Swept, InSweep
  <2> QED
    BY <2>1, <2>2
<1>11. CursorBehind'
  BY <1>1, <1>2, Threads DEF ScheduleInv, CursorBehind
<1>12. CallsAhead'
  <2> SUFFICES ASSUME NEW t \in Thread, InStep(t), NEW k \in 1 .. Len(JobQueue[t]), JobQueue[t][k] # AdvanceJob
               PROVE  next_tics'[JobQueue[t][k]] >= time_tics'
    BY <1>10 DEF CallsAhead, JobAhead, InStep
  <2>1. next_tics'[JobQueue[t][k]] = next_tics[JobQueue[t][k]] /\ next_tics[JobQueue[t][k]] \in Nat
    BY <1>6, InJobs, Typed
  <2> QED
    BY <1>5, <2>1
<1>13. QueueAhead'
  <2>1. next_job_time'[0] > time_tics'
    BY <1>3, <1>5, Constants
  <2>2. \A c \in Child : ProcessType[c] = "SCHEDULED" => ~InSweep(c)' /\ pc'[c] # "complete" /\ ~StartedInPass(c)'
    BY <1>2, <1>7, <1>9 DEF InSweep
  <2> QED
    BY <2>1, <2>2 DEF QueueAhead
<1>14. JobsStatic' /\ FreezeDue' /\ Started'
  <2>1. next_tics'[FreezeJob] = next_tics[FreezeJob]
    BY <1>6, SystemJobs
  <2>2. Selected(FreezeJob)' => Selected(FreezeJob)
    BY <1>1, <1>2, Threads DEF Selected
  <2>3. \A c \in Child : pc'[c] # "start" /\ (pc'[c] = "catchup" => ProcessType[c] = "ASYNC")
    BY <1>1, <1>2 DEF ScheduleInv, Started
  <2> QED
    BY <1>1, <2>1, <2>2, <2>3 DEF ScheduleInv, JobsStatic, FreezeDue, Started
<1>15. AmfAhead'
  BY <1>1, <1>5, <1>9 DEF AmfAhead
<1>16. FrameInv'
  <2>1. /\ time_tics < next_frame_check_tics /\ next_frame_check_tics <= time_tics + SoftwareFrame
        /\ frame_count * SoftwareFrame = next_frame_check_tics
        /\ next_frame_check_tics \in Nat /\ SoftwareFrame \in Nat \ {0}
    <3>1. ~AfterAdvance /\ ~BeforeTop
      BY <1>1 DEF AfterAdvance, BeforeTop, AdvanceAhead
    <3> QED
      BY <1>1, <3>1, Constants, Typed DEF ScheduleInv, FrameInv
  <2>2. AfterAdvance' /\ ~BeforeTop' /\ pc'[0] # "eof"
    BY <1>2, <1>8 DEF AfterAdvance, BeforeTop
  <2>3. next_frame_check_tics <= n + SoftwareFrame
    BY <1>5, <2>1
  <2>4. TerminateReached' \/ ~AtFrameStart'
    <3>1. CASE n = time_tics
      BY <1>1, <1>5, <3>1, Constants DEF TerminateReached
    <3>2. CASE n # time_tics
      <4>1. n # next_frame_check_tics - SoftwareFrame
        BY <1>5, <2>1, <3>2
      <4> QED
        BY <1>1, <1>5, <4>1 DEF AtFrameStart
    <3> QED
      BY <3>1, <3>2
  <2> QED
    BY <1>1, <1>5, <2>1, <2>2, <2>3, <2>4 DEF FrameInv
<1>17. ASSUME NEW j \in SyncJob
       PROVE  /\ j \in Job /\ next_tics'[j] = next_tics[j] /\ last_call'[j] = last_call[j]
              /\ ~Selected(j) /\ ~Selected(j)' /\ next_tics[j] > time_tics
  <2>1. j \in UserJob /\ j \in Job /\ j # AdvanceJob
    BY Constants, SystemJobs DEF SyncJob
  <2>2. PICK t \in Thread : InStep(t) /\ \E k \in 1 .. Len(JobQueue[t]) : JobQueue[t][k] = j
    BY DEF SyncJob, JobsOf
  <2>3. ~Selected(j) /\ next_tics[j] > time_tics
    BY <1>5, <2>1, <2>2
  <2>4. ~Selected(j)'
    BY <1>1, <1>2, <2>3, Threads DEF Selected
  <2> QED
    BY <1>6, <2>1, <2>3, <2>4
<1>18. History'
  <2> SUFFICES ASSUME Undisturbed'
               PROVE  (\A j \in Job : ~disabled'[j]) /\ \A j \in SyncJob : JobHistory(j)'
    BY DEF History, SyncJob
  <2>1. Undisturbed
    BY <1>1 DEF Undisturbed, StopsLater
  <2>2. (\A j \in Job : ~disabled[j]) /\ \A j \in SyncJob : JobHistory(j)
    BY <2>1 DEF ScheduleInv, History
  <2>3. ASSUME NEW j \in SyncJob
        PROVE  JobHistory(j)'
    <3>1. /\ last_call[j] <= time_tics /\ last_call[j] < next_tics[j] /\ last_call[j] \in Int
          /\ Due(j, next_tics[j]) \/ next_tics[j] >= MaxTics
          /\ \A m \in 0 .. TerminateTime : Due(j, m) => m <= last_call[j] \/ m >= next_tics[j]
      BY <1>17, <2>2, Typed DEF JobHistory, Handled
    <3>2. \A m : Due(j, m)' <=> Due(j, m)
      BY DEF Due, Schedule!DueAt
    <3>3. Handled(j)' = last_call[j]
      BY <1>17 DEF Handled
    <3>4. last_call'[j] <= time_tics' /\ last_call'[j] < next_tics'[j]
      BY <1>5, <1>17, <3>1
    <3>5. Due(j, next_tics[j])' \/ next_tics'[j] >= MaxTics
      BY <1>17, <3>1 DEF Due, Schedule!DueAt
    <3>6. \A m \in 0 .. TerminateTime : Due(j, m)' => m <= Handled(j)' \/ m >= next_tics'[j]
      BY <1>17, <3>1, <3>2, <3>3
    <3> QED
      BY <1>17, <3>4, <3>5, <3>6 DEF JobHistory
  <2> QED
    BY <1>1, <2>2, <2>3
<1>19. LastPass'
  <2>1. TerminateReached' => n = time_tics
    BY <1>1, <1>5, Constants DEF TerminateReached
  <2>2. TerminateReached' => \A j \in SyncJob : next_tics'[j] > time_tics'
    BY <1>5, <1>17, <2>1
  <2>3. cmds' = 0 => exec_command' \notin {"ExitCmd", "RunCmd"}
    BY <1>1 DEF ScheduleInv, LastPass
  <2> QED
    BY <1>2, <2>2, <2>3 DEF LastPass, SyncJob
<1> QED
  BY <1>11, <1>12, <1>13, <1>14, <1>15, <1>16, <1>18, <1>19 DEF ScheduleInv

--------------------------------------------------------------------------------
(***************************************************************************)
(* The end of a pass.                                                      *)
(***************************************************************************)
\* The master leaves the sweep, and tests the commands.
LEMMA CheckSchedule ==
  ASSUME JobsOnce, ClassOrder, TypeOK, TypeOK', ScheduleInv,
         EndMainSweep \/ CheckCommand \/ ClearRunCmd
  PROVE  ScheduleInv'
<1>1. /\ UNCHANGED <<clockVars, time_tics, next_tics, next_job_time, cycle_tics, disabled, last_call, curr_index,
                     curr_job, child_complete, freeze_times, cmds, amf_next_tics>>
      /\ \A c \in Child : pc'[c] = pc[c]
      /\ AfterAdvance
      /\ pc[0] \in {"sweep", "check", "clearrun"}
      /\ pc'[0] \in {"check", "clearrun", "term", "shutdown"}
      /\ pc[0] = "sweep" => AtEnd(0)
      /\ pc'[0] = "shutdown" => exec_command = "ExitCmd"
      /\ exec_command' \in {exec_command, "NoCmd"}
  <2>1. CASE EndMainSweep
    <3>1. pc[0] = "sweep" /\ AtEnd(0) /\ ~AdvanceAhead
      <4>1. pc[0] = "sweep" /\ AtEnd(0)
        BY <2>1 DEF EndMainSweep
      <4>2. \A k \in 1 .. Len(JobQueue[0]) : ~(k >= curr_index[0])
        BY <4>1, Threads, QueuedJobs, Typed DEF AtEnd, QueueEnd
      <4> QED
        BY <4>1, <4>2, AdvancePlace
    <3>2. pc'[0] = "check" /\ \A c \in Child : pc'[c] = pc[c]
      BY <2>1, MasterAt DEF EndMainSweep, MainPC
    <3> QED
      BY <2>1, <3>1, <3>2 DEF EndMainSweep, AfterAdvance, InSweep, clockVars, jobVars, queueVars, callVars, childVars, modeVars
  <2>2. CASE CheckCommand
    <3>1. \/ exec_command = "ExitCmd" /\ Goto(0, "shutdown")
          \/ \E l \in {"clearrun", "term"} : Goto(0, l)
      BY <2>2 DEF CheckCommand
    <3>2. /\ pc'[0] \in {"clearrun", "term", "shutdown"} /\ \A c \in Child : pc'[c] = pc[c]
          /\ pc'[0] = "shutdown" => exec_command = "ExitCmd"
      BY <3>1, MasterAt DEF MainPC
    <3> QED
      BY <2>2, <3>2 DEF CheckCommand, AfterAdvance, clockVars, jobVars, queueVars, callVars, childVars, modeVars
  <2>3. CASE ClearRunCmd
    <3>1. pc'[0] = "term" /\ \A c \in Child : pc'[c] = pc[c]
      BY <2>3, MasterAt DEF ClearRunCmd, MainPC
    <3> QED
      BY <2>3, <3>1 DEF ClearRunCmd, AfterAdvance, clockVars, jobVars, queueVars, callVars, childVars
  <2> QED
    BY <2>1, <2>2, <2>3
<1>2. \A c \in Child : ~StartedInPass(c)' /\ ~Armed(c)'
  BY <1>1 DEF StartedInPass, InSweep, Armed
<1>3. QueueAhead'
  BY <1>1, <1>2 DEF ScheduleInv, QueueAhead, InSweep, AtEnd
<1>4. CallsInv'
  <2>1. CASE pc[0] = "sweep"
    <3>1. \A t \in Thread : pc'[t] \in {"depend", "call"} <=> pc[t] \in {"depend", "call"}
      BY <1>1, <2>1, Threads
    <3>2. ASSUME NEW t \in Thread, InStep(t), NEW k \in 1 .. Len(JobQueue[t]), Swept(t, k)'
          PROVE  Swept(t, k)
      <4>1. CASE t = 0
        <5>1. k < curr_index[0] /\ ~InSweep(0)'
          BY <1>1, <2>1, <4>1, Threads, QueuedJobs, Typed DEF AtEnd, QueueEnd, InSweep
        <5> QED
          BY <3>2, <4>1, <5>1 DEF Swept
      <4>2. CASE t # 0
        BY <1>1, <1>2, <3>2, <4>2, Threads DEF Swept, InSweep
      <4> QED
        BY <4>1, <4>2
    <3>3. \A t \in Thread : next_job_time'[t] <= next_job_time[t] /\ curr_index'[t] = curr_index[t]
      BY <1>1, Typed
    <3> QED
      BY <1>1, <1>3, <3>1, <3>2, <3>3, CallsStill, Parts
  <2>2. CASE pc[0] # "sweep"
    BY <1>1, <1>2, <2>2, CallsUnmoved, Parts DEF InSweep
  <2> QED
    BY <2>1, <2>2
<1>5. TimeInv'
  <2>1. AtExit' \/ (~AtExit /\ ~AtExit' /\ (BeforeTop' <=> BeforeTop) /\ (AfterAdvance' <=> AfterAdvance))
    BY <1>1 DEF AtExit, BeforeTop, AfterAdvance, InSweep
  <2> QED
    BY <1>1, <1>2, <2>1, TimeUnmoved, Parts
<1>6. Started'
  BY <1>1 DEF ScheduleInv, Started
<1>7. LastPass'
  <2>1. TerminateReached' <=> TerminateReached
    BY <1>1 DEF TerminateReached, clockVars
  <2>2. cmds = 0 => exec_command \notin {"ExitCmd", "RunCmd"}
    BY <1>1 DEF ScheduleInv, LastPass
  <2>3. AfterAdvance' /\ TerminateReached' => \A j \in SyncJob : next_tics'[j] > time_tics'
    BY <1>1, <2>1 DEF ScheduleInv, LastPass
  <2>4. cmds' = 0 => exec_command' \notin {"ExitCmd", "RunCmd"} /\ pc'[0] \notin {"shutdown", "done"}
    BY <1>1, <2>2
  <2> QED
    BY <2>3, <2>4 DEF LastPass, SyncJob
<1> QED
  BY <1>4, <1>5, <1>6, <1>7, Parts, Zenon DEF ScheduleInv, CallsInv, TimeInv

\* A run ends at the terminate time.
LEMMA TerminateSchedule ==
  ASSUME TypeOK, TypeOK', ScheduleInv, CheckTerminate
  PROVE  ScheduleInv'
<1>1. /\ UNCHANGED <<time_last_pass_tics, next_frame_check_tics, frame_count, next_tics, next_job_time, cycle_tics,
                     disabled, last_call, curr_index, curr_job, child_complete, freeze_times, cmds,
                     amf_next_tics>>
      /\ pc[0] = "term" /\ AfterAdvance
  BY DEF CheckTerminate, jobVars, queueVars, callVars, childVars, AfterAdvance
<1>2. time_tics' = time_tics /\ (TerminateReached => time_tics = TerminateTime)
  <2>1. time_last_pass_tics <= time_tics /\ time_tics <= TerminateTime
    BY DEF ScheduleInv, FrameInv
  <2>2. TerminateReached => time_last_pass_tics = time_tics /\ time_tics = TerminateTime
    BY <2>1, Typed, Constants DEF TerminateReached
  <2> QED
    BY <2>2 DEF CheckTerminate
<1>3. /\ \A c \in Child : pc'[c] = pc[c]
      /\ \/ pc'[0] = "shutdown" /\ TerminateReached
         \/ pc'[0] = "eof" /\ ~TerminateReached /\ exec_command' = exec_command
  <2>1. CASE TerminateReached /\ Goto(0, "shutdown")
    BY <2>1, MasterAt DEF MainPC
  <2>2. CASE ~TerminateReached /\ Goto(0, "eof") /\ exec_command' = exec_command
    BY <2>2, MasterAt DEF MainPC
  <2> QED
    BY <2>1, <2>2 DEF CheckTerminate
<1>4. \A c \in Child : ~StartedInPass(c)' /\ ~Armed(c)'
  BY <1>3 DEF StartedInPass, InSweep, Armed
<1>5. CallsInv'
  BY <1>1, <1>2, <1>3, <1>4, CallsUnmoved, Parts DEF InSweep
<1>6. TimeInv'
  <2>1. AtExit' \/ (~AtExit /\ ~AtExit' /\ (BeforeTop' <=> BeforeTop) /\ (AfterAdvance' <=> AfterAdvance))
    BY <1>1, <1>3 DEF AtExit, BeforeTop, AfterAdvance, InSweep
  <2>2. pc'[0] = "eof" => ~TerminateReached
    BY <1>3
  <2> QED
    BY <1>1, <1>2, <1>4, <2>1, <2>2, TimeUnmoved, Parts DEF clockVars
<1>7. Started'
  BY <1>1, <1>3 DEF ScheduleInv, Started
<1>8. LastPass'
  <2>1. TerminateReached' <=> TerminateReached
    BY <1>1 DEF TerminateReached
  <2>2. CASE TerminateReached
    <3>1. \A j \in SyncJob : next_tics'[j] > time_tics'
      BY <1>1, <1>2, <2>2 DEF ScheduleInv, LastPass
    <3>2. time_tics' = TerminateTime /\ pc'[0] = "shutdown"
      BY <1>2, <1>3, <2>2
    <3> QED
      BY <3>1, <3>2 DEF LastPass, SyncJob
  <2>3. CASE ~TerminateReached
    <3>1. pc'[0] = "eof" /\ exec_command' = exec_command
      BY <1>3, <2>3
    <3> QED
      BY <1>1, <2>1, <2>3, <3>1 DEF ScheduleInv, LastPass
  <2> QED
    BY <2>2, <2>3
<1> QED
  BY <1>5, <1>6, <1>7, <1>8, Parts, Zenon DEF ScheduleInv, CallsInv, TimeInv

\* The freeze job gets a call time, and no other job.
LEMMA FreezeJobMoves ==
  ASSUME TypeOK, TypeOK', JobsOnce, ClassOrder, CallsInv,
         UNCHANGED <<time_tics, next_job_time, cycle_tics, last_call, curr_index, curr_job,
                     child_complete, disabled>>,
         \A t \in Thread : pc'[t] \in {"depend", "call"} <=> pc[t] \in {"depend", "call"},
         \A t \in Thread, k \in Nat : Swept(t, k)' => Swept(t, k),
         \A i \in Job : i # FreezeJob => next_tics'[i] = next_tics[i],
         next_tics'[FreezeJob] >= time_tics,
         next_tics[FreezeJob] > time_tics => next_tics'[FreezeJob] > time_tics,
         QueueAhead', FreezeDue', cmds' = 0 => cmds = 0
  PROVE  CallsInv'
<1>1. \A i : Selected(i)' <=> Selected(i)
  BY DEF Selected
<1>2. CursorBehind'
  BY DEF CallsInv, CursorBehind
<1>3. CallsAhead'
  <2>1. \A i : SetsItsTime(i) => SetsItsTime(i)'
    BY <1>1 DEF SetsItsTime
  <2>2. ASSUME NEW t \in Thread, NEW k \in 1 .. Len(JobQueue[t]), JobQueue[t][k] = FreezeJob
        PROVE  JobAhead(t, k)'
    <3>1. t = 0
      <4>1. FreezeJob \in JobsOf(t)
        BY <2>2, InJobs
      <4> QED
        BY <4>1, ExecutiveAssumption, Threads DEF ExecutiveAssumption
    <3>2. IsTail(FreezeJob) /\ time_tics' = time_tics
      BY DEF IsTail
    <3>3. JobAhead(t, k)
      BY <3>1, Threads DEF CallsInv, CallsAhead, InStep
    <3>4. Swept(t, k)' => SetsItsTime(FreezeJob)' \/ next_tics'[FreezeJob] > time_tics
      <4>1. Swept(t, k)' => Swept(t, k)
        BY QueuedJobs
      <4>2. Swept(t, k) => SetsItsTime(FreezeJob) \/ next_tics[FreezeJob] > time_tics
        BY <2>2, <3>3, SystemJobs DEF JobAhead
      <4> QED
        BY <2>1, <4>1, <4>2
    <3> QED
      BY <2>2, <3>1, <3>2, <3>4 DEF JobAhead
  <2>3. \A t \in Thread : next_job_time'[t] <= next_job_time[t]
    BY Typed
  <2>4. \A t \in Thread : \A k \in 1 .. Len(JobQueue[t]) : Swept(t, k)' => Swept(t, k)
    BY QueuedJobs
  <2> QED
    BY <2>2, <2>1, <2>3, <2>4, OneJobMoves DEF CallsInv
<1>4. JobsStatic'
  BY DEF CallsInv, JobsStatic
<1>5. History'
  <2> SUFFICES ASSUME Undisturbed'
               PROVE  (\A j \in Job : ~disabled'[j]) /\ \A j \in SyncJob : JobHistory(j)'
    BY DEF History, SyncJob
  <2>1. Undisturbed
    BY DEF Undisturbed, StopsLater
  <2>2. (\A j \in Job : ~disabled[j]) /\ \A j \in SyncJob : JobHistory(j)
    BY <2>1 DEF CallsInv, History
  <2>3. \A j \in SyncJob : next_tics'[j] = next_tics[j]
    BY Constants, SystemJobs DEF SyncJob
  <2> QED
    BY <1>1, <2>2, <2>3, HistoryKept
<1> QED
  BY <1>2, <1>3, <1>4, <1>5 DEF CallsInv

\* The end of frame jobs: the next frame, and the freeze that was asked for.
LEMMA EndOfFrameSchedule ==
  ASSUME JobsOnce, ClassOrder, TypeOK, TypeOK', ScheduleInv, EndOfFrame
  PROVE  ScheduleInv'
<1>1. /\ UNCHANGED <<time_tics, time_last_pass_tics, frame_count, next_job_time, cycle_tics, last_call,
                     curr_index, curr_job, child_complete, disabled, amf_next_tics, cmds>>
      /\ pc[0] = "eof" /\ AfterAdvance
      /\ exec_command' \in {exec_command, "FreezeCmd"}
  BY DEF EndOfFrame, queueVars, callVars, childVars, AfterAdvance
<1>2. pc'[0] = "loop" /\ \A c \in Child : pc'[c] = pc[c]
  BY MasterAt DEF EndOfFrame, MainPC
<1>3. \A c \in Child : ~StartedInPass(c)' /\ ~Armed(c)'
  BY <1>2 DEF StartedInPass, InSweep, Armed
<1>4. \A t \in Thread : pc'[t] \in {"depend", "call"} <=> pc[t] \in {"depend", "call"}
  BY <1>1, <1>2, Threads
<1>5. \A i : Selected(i)' <=> Selected(i)
  BY <1>1, <1>4 DEF Selected
<1>6. \A t \in Thread, k \in Nat : Swept(t, k)' => Swept(t, k)
  BY <1>1, <1>2, <1>3, Threads DEF Swept, InSweep
<1>7. QueueAhead'
  BY <1>1, <1>2, <1>3 DEF ScheduleInv, QueueAhead, InSweep, AtEnd
<1>8. /\ time_tics \in Nat /\ next_frame_check_tics \in Nat /\ SoftwareFrame \in Nat \ {0}
      /\ time_tics <= TerminateTime /\ time_last_pass_tics <= time_tics /\ time_tics <= next_frame_check_tics
      /\ next_frame_check_tics <= time_tics + SoftwareFrame
      /\ frame_count * SoftwareFrame = next_frame_check_tics
      /\ ~AtFrameStart
  <2>1. ~BeforeTop
    BY <1>1 DEF BeforeTop
  <2> QED
    BY <1>1, <2>1, Typed, Constants DEF ScheduleInv, FrameInv
<1>9. CASE time_tics = next_frame_check_tics
  <2>1. /\ freeze_times' = FreezeTimesLeft
        /\ next_tics' = [next_tics EXCEPT ![FreezeJob] = SchedFreezeNext]
        /\ next_frame_check_tics' = next_frame_check_tics + SoftwareFrame
    BY <1>9 DEF EndOfFrame
  <2>2. SchedFreezeNext > time_tics /\ \A n \in FreezeTimesLeft : SchedFreezeNext <= n
    <3>1. FreezeTimesLeft \subseteq Nat /\ \A n \in FreezeTimesLeft : n > time_tics
      BY Typed DEF FreezeTimesLeft
    <3>2. time_tics < MaxTics
      BY <1>8, Constants
    <3> QED
      BY <3>1, <3>2, LeastOf DEF SchedFreezeNext
  <2>3. PICK m \in Nat : m = SchedFreezeNext
    BY NextFreezeIsTime DEF TypeOK
  <2>4. next_tics'[FreezeJob] = m /\ \A i \in Job : i # FreezeJob => next_tics'[i] = next_tics[i]
    BY <2>1, <2>3, Typed, SystemJobs
  <2>5. FreezeOnFrameBoundary => freeze_times' = {} /\ m = MaxTics /\ ~Selected(FreezeJob)'
    <3> SUFFICES ASSUME FreezeOnFrameBoundary
                 PROVE  freeze_times' = {} /\ m = MaxTics /\ ~Selected(FreezeJob)'
      OBVIOUS
    <3>1. freeze_times = {} /\ ~Selected(FreezeJob)
      BY DEF ScheduleInv, FreezeDue
    <3>2. FreezeTimesLeft = {}
      BY <3>1 DEF FreezeTimesLeft
    <3> QED
      BY <1>5, <2>1, <2>3, <3>1, <3>2 DEF SchedFreezeNext
  <2>6. FreezeDue'
    BY <2>1, <2>2, <2>3, <2>4, <2>5 DEF FreezeDue
  <2>7. CallsInv'
    <3>1. next_tics'[FreezeJob] >= time_tics /\ next_tics'[FreezeJob] > time_tics
      BY <1>8, <2>2, <2>3, <2>4
    <3> QED
      BY <1>1, <1>4, <1>6, <1>7, <2>4, <2>6, <3>1, FreezeJobMoves, Parts
  <2>8. FrameInv'
    <3>1. AtFrameStart' /\ ~AfterAdvance' /\ BeforeTop' /\ pc'[0] # "eof"
      <4>1. time_tics = (next_frame_check_tics + SoftwareFrame) - SoftwareFrame
        BY <1>8, <1>9
      <4> QED
        BY <1>1, <1>2, <2>1, <4>1 DEF AtFrameStart, AfterAdvance, BeforeTop, InSweep
    <3>2. /\ time_tics <= next_frame_check_tics + SoftwareFrame
          /\ next_frame_check_tics + SoftwareFrame <= time_tics + SoftwareFrame
          /\ time_tics < next_frame_check_tics + SoftwareFrame
          /\ frame_count * SoftwareFrame = (next_frame_check_tics + SoftwareFrame) - SoftwareFrame
      BY <1>8, <1>9
    <3> QED
      BY <1>1, <1>8, <2>1, <3>1, <3>2 DEF FrameInv
  <2> QED
    BY <2>7, <2>8, <1>1, <1>2, <1>3 DEF ScheduleInv, CallsInv, AmfAhead, Started, LastPass, AfterAdvance, InSweep
<1>10. CASE time_tics # next_frame_check_tics
  <2>1. UNCHANGED <<freeze_times, next_tics, next_frame_check_tics>>
    BY <1>10 DEF EndOfFrame
  <2>2. CallsInv'
    <3>1. \A t \in Thread : next_job_time'[t] <= next_job_time[t] /\ curr_index'[t] = curr_index[t]
      BY <1>1, Typed
    <3> QED
      BY <1>1, <1>4, <1>6, <1>7, <2>1, <3>1, CallsStill, Parts, QueuedJobs
  <2>3. FrameInv'
    <3>1. ~AtFrameStart' /\ ~AfterAdvance' /\ BeforeTop' /\ pc'[0] # "eof"
      BY <1>1, <1>2, <1>8, <2>1 DEF AtFrameStart, AfterAdvance, BeforeTop, InSweep
    <3>2. time_tics < next_frame_check_tics
      BY <1>8, <1>10
    <3> QED
      BY <1>1, <1>8, <2>1, <3>1, <3>2 DEF FrameInv
  <2> QED
    BY <2>2, <2>3, <1>1, <1>2, <1>3 DEF ScheduleInv, CallsInv, AmfAhead, Started, LastPass, AfterAdvance, InSweep
<1> QED
  BY <1>9, <1>10

\* The master waits, and cancels all threads.
LEMMA ShutdownSchedule ==
  ASSUME JobsOnce, ClassOrder, TypeOK, TypeOK', SyncInv, ScheduleInv, Shutdown
  PROVE  ScheduleInv'
<1>1. /\ UNCHANGED <<clockVars, time_tics, next_tics, next_job_time, cycle_tics, disabled, last_call, curr_index,
                     curr_job, child_complete, freeze_times, cmds, amf_next_tics, exec_command>>
      /\ pc[0] = "shutdown"
      /\ pc' = pc \/ pc' = [t \in Thread |-> IF t = 0 THEN "done" ELSE "cancelled"]
  BY DEF Shutdown, clockVars, jobVars, queueVars, callVars, childVars
<1>2. /\ pc'[0] \in {"shutdown", "done"}
      /\ \A c \in Child : pc'[c] = pc[c] \/ pc'[c] = "cancelled"
      /\ \A c \in Child : pc' # pc => pc'[c] = "cancelled"
  BY <1>1, Threads
<1>3. \A c \in Child : ~StartedInPass(c)' /\ ~Armed(c)' /\ ~StartedInPass(c)
  BY <1>1, <1>2 DEF StartedInPass, InSweep, Armed
<1>4. ASSUME NEW t \in Thread, InStep(t)
      PROVE  pc[t] \notin {"sweep", "depend", "call", "complete"} /\ pc'[t] \notin {"sweep", "depend", "call", "complete"}
  <2>1. CASE t = 0
    BY <1>1, <1>2, <2>1
  <2>2. CASE t # 0
    <3>1. pc[t] \in {"wait", "waiting", "cancelled"}
      BY <1>1, <1>4, <2>2, Threads DEF SyncInv, Phases, ScheduledDone, Handshake, InHand, InStep
    <3> QED
      BY <1>2, <2>2, <3>1, Threads
  <2> QED
    BY <2>1, <2>2
<1>5. \A i : Selected(i)' => Selected(i)
  BY <1>1, <1>2, Threads DEF Selected
<1>6. \A t \in Thread, k \in Nat : InStep(t) /\ k \in 1 .. Len(JobQueue[t]) =>
        ~Selected(JobQueue[t][k]) /\ ~Selected(JobQueue[t][k])'
  <2>1. \A t \in Thread, k \in Nat : InStep(t) /\ k \in 1 .. Len(JobQueue[t]) => ~Selected(JobQueue[t][k])
    BY <1>4, SelectedHere DEF ScheduleInv
  <2> QED
    BY <1>5, <2>1
<1>7. CursorBehind' /\ JobsStatic' /\ FreezeDue'
  BY <1>1, <1>2, <1>5, Threads DEF ScheduleInv, CursorBehind, JobsStatic, FreezeDue
<1>8. CallsAhead'
  <2>1. ASSUME NEW t \in Thread, InStep(t), NEW k \in 1 .. Len(JobQueue[t])
        PROVE  /\ Swept(t, k)' => Swept(t, k) /\ next_job_time'[t] <= next_job_time[t]
               /\ SetsItsTime(JobQueue[t][k]) => SetsItsTime(JobQueue[t][k])'
    <3>1. next_job_time'[t] <= next_job_time[t]
      BY <1>1, Typed
    <3>2. Swept(t, k)' => Swept(t, k)
      BY <1>3, <1>4, <2>1, Threads DEF Swept, InSweep
    <3>3. ~SetsItsTime(JobQueue[t][k])
      BY <1>6, <2>1 DEF SetsItsTime
    <3> QED
      BY <3>1, <3>2, <3>3
  <2> QED
    BY <1>1, <2>1, CallsKept DEF ScheduleInv
<1>9. QueueAhead'
  <2>1. \A c \in Child : ProcessType[c] = "SCHEDULED" => ~InSweep(c)' /\ pc'[c] # "complete"
    BY <1>4, Threads DEF InStep, InSweep
  <2> QED
    BY <1>1, <1>3, <2>1 DEF ScheduleInv, QueueAhead
<1>10. History'
  <2> SUFFICES ASSUME Undisturbed'
               PROVE  (\A j \in Job : ~disabled'[j]) /\ \A j \in SyncJob : JobHistory(j)'
    BY DEF History, SyncJob
  <2>1. Undisturbed
    BY <1>1 DEF Undisturbed, StopsLater
  <2>2. (\A j \in Job : ~disabled[j]) /\ \A j \in SyncJob : JobHistory(j)
    BY <2>1 DEF ScheduleInv, History
  <2>3. \A j \in SyncJob : ~Selected(j) /\ ~Selected(j)'
    BY <1>6, QueuedJobs DEF SyncJob, JobsOf
  <2> QED
    BY <1>1, <2>2, <2>3, HistoryKept
<1>11. TimeInv'
  BY <1>1, <1>2, <1>3, TimeUnmoved, Parts DEF AtExit
<1>12. Started' /\ LastPass'
  <2>1. \A c \in Child : pc'[c] # "start" /\ (pc'[c] = "catchup" => ProcessType[c] = "ASYNC")
    BY <1>1, <1>2 DEF ScheduleInv, Started
  <2>2. ~AfterAdvance'
    BY <1>2 DEF AfterAdvance, InSweep
  <2>3. cmds' = 0 => time_tics' = TerminateTime /\ \A j \in SyncJob : next_tics'[j] > time_tics'
    BY <1>1 DEF ScheduleInv, LastPass
  <2> QED
    BY <1>2, <2>1, <2>2, <2>3 DEF Started, LastPass, SyncJob
<1> QED
  BY <1>7, <1>8, <1>9, <1>10, <1>11, <1>12 DEF ScheduleInv, TimeInv

--------------------------------------------------------------------------------
(***************************************************************************)
(* The children.                                                           *)
(***************************************************************************)
\* A child that neither takes a job nor ends one.
LEMMA ChildStill ==
  ASSUME TypeOK, TypeOK', ScheduleInv, NEW d \in Child,
         UNCHANGED <<clockVars, time_tics, next_tics, cycle_tics, disabled, last_call, curr_job, freeze_times,
                     cmds, exec_command, amf_next_tics, ii>>,
         \A u \in Thread : u # d => pc'[u] = pc[u] /\ curr_index'[u] = curr_index[u]
                                    /\ next_job_time'[u] = next_job_time[u],
         pc[d] \notin {"depend", "call"}, pc'[d] \notin {"depend", "call", "start"},
         pc'[d] = "catchup" => ProcessType[d] = "ASYNC",
         \A c \in Child : c # d => child_complete'[c] = child_complete[c],
         ProcessType[d] = "SCHEDULED" =>
           /\ \A k \in 1 .. Len(JobQueue[d]) : Swept(d, k)' => Swept(d, k) /\ next_job_time'[d] <= next_job_time[d]
           /\ InSweep(d)' \/ pc'[d] = "complete" \/ (child_complete'[d] /\ StartedInPass(d)') =>
                next_job_time'[d] > time_tics
           /\ pc'[d] = "complete" \/ (child_complete'[d] /\ StartedInPass(d)') => AtEnd(d)'
  PROVE  ScheduleInv'
<1>1. /\ d # 0 /\ d \in Thread /\ pc'[0] = pc[0] /\ curr_index'[0] = curr_index[0]
      /\ next_job_time'[0] = next_job_time[0] /\ (AdvanceAhead' <=> AdvanceAhead)
      /\ (InSweep(0)' <=> InSweep(0))
  BY Threads DEF AdvanceAhead, InSweep
<1>2. \A c \in Child : StartedInPass(c)' <=> StartedInPass(c)
  BY <1>1 DEF StartedInPass
<1>3. \A t \in Thread : pc'[t] \in {"depend", "call"} <=> pc[t] \in {"depend", "call"}
  OBVIOUS
<1>4. \A t \in Thread : pc[t] \in {"depend", "call"} => curr_index'[t] = curr_index[t]
  OBVIOUS
<1>5. ASSUME NEW t \in Thread, InStep(t), NEW k \in 1 .. Len(JobQueue[t])
      PROVE  Swept(t, k)' => Swept(t, k) /\ next_job_time'[t] <= next_job_time[t]
  <2>1. CASE t = d
    BY <1>1, <1>5, <2>1 DEF InStep
  <2>2. CASE t # d
    <3>1. next_job_time'[t] <= next_job_time[t]
      BY <2>2, Typed
    <3>2. Swept(t, k)' => Swept(t, k)
      BY <1>1, <1>2, <2>2, Threads DEF Swept, InSweep
    <3> QED
      BY <3>1, <3>2
  <2> QED
    BY <2>1, <2>2
<1>6. QueueAhead'
  <2>1. next_job_time'[0] > time_tics'
    BY <1>1 DEF ScheduleInv, QueueAhead
  <2>2. ASSUME NEW c \in Child, ProcessType[c] = "SCHEDULED", c # d
        PROVE  /\ InSweep(c)' \/ pc'[c] = "complete" \/ (child_complete'[c] /\ StartedInPass(c)') =>
                    next_job_time'[c] > time_tics'
               /\ pc'[c] = "complete" \/ (child_complete'[c] /\ StartedInPass(c)') => AtEnd(c)'
    <3>1. /\ pc'[c] = pc[c] /\ curr_index'[c] = curr_index[c] /\ next_job_time'[c] = next_job_time[c]
          /\ child_complete'[c] = child_complete[c]
      BY <2>2, Threads
    <3> QED
      BY <1>2, <2>2, <3>1 DEF ScheduleInv, QueueAhead, InSweep, AtEnd
  <2> QED
    BY <2>1, <2>2 DEF QueueAhead
<1>7. CallsInv'
  BY <1>3, <1>4, <1>5, <1>6, CallsStill, Parts
<1>8. TimeInv'
  <2>1. pc'[0] = pc[0] \/ (InSweep(0) /\ InSweep(0)')
    BY <1>1
  <2> QED
    BY <1>1, <2>1, SweepTime, Parts
<1>9. Started'
  BY <1>1, Threads DEF ScheduleInv, Started
<1>10. LastPass'
  BY <1>1, LastPassKept, Parts DEF AfterAdvance, AtExit
<1> QED
  BY <1>7, <1>8, <1>9, <1>10, Parts, Zenon DEF ScheduleInv, CallsInv, TimeInv

\* A scheduled thread between its waits and its sweep.
LEMMA ScheduledChild ==
  ASSUME TypeOK, TypeOK', SyncInv, ScheduleInv, NEW d \in Child, ProcessType[d] = "SCHEDULED",
         ChildStart(d) \/ ChildWait(d) \/ Dispatch(d) \/ EndChildSweep(d) \/ ChildComplete(d)
  PROVE  ScheduleInv'
<1>1. /\ UNCHANGED <<clockVars, time_tics, next_tics, cycle_tics, disabled, last_call, curr_job, freeze_times,
                     cmds, exec_command, amf_next_tics, ii>>
      /\ d \in Thread /\ d # 0
  BY Threads DEF ChildStart, ChildWait, Dispatch, EndChildSweep, ChildComplete,
                 clockVars, jobVars, callVars, modeVars, childVars
<1>2. \A c \in Child : c # d => child_complete'[c] = child_complete[c]
  <2>1. child_complete' \in {child_complete, [child_complete EXCEPT ![d] = TRUE]}
    BY DEF ChildStart, ChildWait, Dispatch, EndChildSweep, ChildComplete, childVars
  <2> QED
    BY <2>1, Typed
<1>3. CASE ChildStart(d) \/ ChildWait(d)
  <2>1. /\ UNCHANGED <<curr_index, next_job_time>>
        /\ \/ pc' = [pc EXCEPT ![d] = "wait"] /\ pc[d] = "start"
           \/ pc' = [pc EXCEPT ![d] = "waiting"] /\ child_complete' = child_complete /\ pc[d] = "wait"
           \/ pc' = [pc EXCEPT ![d] = "dispatch"] /\ child_complete' = child_complete /\ pc[d] = "waiting"
    BY <1>3 DEF ChildStart, ChildWait, Goto, queueVars, childVars
  <2>2. /\ pc'[d] \in {"wait", "waiting", "dispatch"} /\ \A u \in Thread : u # d => pc'[u] = pc[u]
        /\ pc[d] \in {"start", "wait", "waiting"}
        /\ pc[d] = "start" \/ child_complete' = child_complete
    BY <1>1, <2>1, Typed
  <2>3. StartedInPass(d)' => StartedInPass(d)
    <3>1. pc'[0] = pc[0] /\ ii' = ii /\ curr_index' = curr_index /\ curr_job' = curr_job
      BY <1>1, <2>1, <2>2, Threads
    <3> QED
      BY <3>1 DEF StartedInPass, InSweep, AdvanceAhead
  <2>4. pc[d] = "start" => ~StartedInPass(d)
    BY DEF ScheduleInv, Started, StartedInPass, InSweep
  <2>5. child_complete'[d] /\ StartedInPass(d)' => child_complete[d] /\ StartedInPass(d)
    BY <2>2, <2>3, <2>4
  <2>6. \A k \in 1 .. Len(JobQueue[d]) : Swept(d, k)' => Swept(d, k) /\ next_job_time'[d] <= next_job_time[d]
    <3>1. next_job_time'[d] <= next_job_time[d]
      BY <1>1, <2>1, Typed
    <3> QED
      BY <1>1, <2>2, <2>5, <3>1 DEF Swept, InSweep
  <2>7. /\ InSweep(d)' \/ pc'[d] = "complete" \/ (child_complete'[d] /\ StartedInPass(d)') =>
             next_job_time'[d] > time_tics
        /\ pc'[d] = "complete" \/ (child_complete'[d] /\ StartedInPass(d)') => AtEnd(d)'
    BY <2>1, <2>2, <2>5 DEF ScheduleInv, QueueAhead, InSweep, AtEnd
  <2> QED
    BY <1>1, <1>2, <2>1, <2>2, <2>6, <2>7, ChildStill
<1>4. CASE Dispatch(d)
  <2>1. /\ child_complete' = child_complete /\ pc[d] = "dispatch" /\ enabled[d]
        /\ curr_index' = [curr_index EXCEPT ![d] = 1]
        /\ next_job_time' = [next_job_time EXCEPT ![d] = MaxTics]
        /\ pc' = [pc EXCEPT ![d] = "sweep"]
    BY <1>4 DEF Dispatch, SyncInv, AllEnabled, childVars, Goto, FirstJobTime
  <2>2. /\ pc'[d] = "sweep" /\ curr_index'[d] = 1 /\ next_job_time'[d] = MaxTics
        /\ \A u \in Thread : u # d => pc'[u] = pc[u] /\ curr_index'[u] = curr_index[u]
                                      /\ next_job_time'[u] = next_job_time[u]
    BY <1>1, <2>1, Typed
  <2>3. ~child_complete'[d]
    BY <2>1 DEF SyncInv, Handshake, InHand
  <2>4. \A k \in 1 .. Len(JobQueue[d]) : ~Swept(d, k)'
    BY <1>1, <2>2, <2>3 DEF Swept
  <2>5. next_job_time'[d] > time_tics
    BY <2>2, Typed, Constants DEF ScheduleInv, FrameInv
  <2> QED
    BY <1>1, <1>2, <2>1, <2>2, <2>3, <2>4, <2>5, ChildStill
<1>5. CASE EndChildSweep(d)
  <2>1. /\ child_complete' = child_complete /\ pc[d] = "sweep" /\ AtEnd(d)
        /\ UNCHANGED <<curr_index, next_job_time>>
        /\ pc' = [pc EXCEPT ![d] = "complete"]
    BY <1>5 DEF EndChildSweep, Goto, MoreOfFrame, HasFrames, queueVars
  <2>2. pc'[d] = "complete" /\ \A u \in Thread : u # d => pc'[u] = pc[u]
    BY <1>1, <2>1, Typed
  <2>3. ~child_complete[d]
    BY <2>1 DEF SyncInv, Handshake, InHand
  <2>4. \A k \in 1 .. Len(JobQueue[d]) : Swept(d, k)' => Swept(d, k) /\ next_job_time'[d] <= next_job_time[d]
    <3>1. next_job_time'[d] <= next_job_time[d]
      BY <1>1, <2>1, Typed
    <3> QED
      BY <1>1, <2>1, <2>2, <2>3, <3>1 DEF Swept, InSweep
  <2>5. next_job_time'[d] > time_tics /\ AtEnd(d)'
    BY <2>1 DEF ScheduleInv, QueueAhead, InSweep, AtEnd
  <2> QED
    BY <1>1, <1>2, <2>1, <2>2, <2>4, <2>5, ChildStill
<1>6. CASE ChildComplete(d)
  <2>1. /\ pc[d] = "complete" /\ UNCHANGED <<curr_index, next_job_time>>
        /\ pc' = [pc EXCEPT ![d] = "wait"]
    BY <1>6 DEF ChildComplete, Goto, queueVars
  <2>2. pc'[d] = "wait" /\ \A u \in Thread : u # d => pc'[u] = pc[u]
    BY <1>1, <2>1, Typed
  <2>3. AtEnd(d) /\ next_job_time[d] > time_tics
    BY <2>1 DEF ScheduleInv, QueueAhead
  <2>4. \A k \in 1 .. Len(JobQueue[d]) : Swept(d, k)
    <3>1. \A k \in 1 .. Len(JobQueue[d]) : k < curr_index[d]
      <4>1. curr_index[d] \in Nat /\ Len(JobQueue[d]) \in Nat /\ AtEnd(d)
        BY <1>1, <2>3, QueuedJobs, Typed
      <4> QED
        BY <4>1 DEF AtEnd, QueueEnd
    <3> QED
      BY <1>1, <2>1, <3>1 DEF Swept
  <2>5. next_job_time'[d] <= next_job_time[d]
    BY <1>1, <2>1, Typed
  <2>6. next_job_time'[d] > time_tics /\ AtEnd(d)'
    BY <2>1, <2>3 DEF AtEnd
  <2> QED
    BY <1>1, <1>2, <2>1, <2>2, <2>4, <2>5, <2>6, ChildStill
<1> QED
  BY <1>3, <1>4, <1>5, <1>6

\* A thread that is not in step with the master touches its own jobs only.
LEMMA OtherThread ==
  ASSUME JobsOnce, TypeOK, TypeOK', SyncInv, ScheduleInv, NEW d \in Child, ~InStep(d),
         UNCHANGED <<clockVars, time_tics, cycle_tics, disabled, freeze_times, cmds, exec_command,
                     amf_next_tics>>,
         pc[0] # "init" \/ ii' = ii, pc[0] \in {"fire", "firing"} => ii' = ii,
         \A u \in Thread : u # d => /\ pc'[u] = pc[u] /\ curr_index'[u] = curr_index[u]
                                    /\ next_job_time'[u] = next_job_time[u] /\ curr_job'[u] = curr_job[u],
         \A c \in Child : c # d => child_complete'[c] = child_complete[c],
         \A j \in Job : j \notin JobsOf(d) => next_tics'[j] = next_tics[j] /\ last_call'[j] = last_call[j],
         pc'[d] # "start", pc'[d] = "catchup" => ProcessType[d] = "ASYNC",
         pc'[d] \in {"depend", "call"} =>
           \/ pc[d] \in {"depend", "call"} /\ UNCHANGED <<curr_index, curr_job>>
           \/ /\ curr_index'[d] = curr_index[d] + 1 /\ curr_index[d] \in 1 .. Len(JobQueue[d])
              /\ curr_job'[d] = JobQueue[d][curr_index[d]]
  PROVE  ScheduleInv'
<1>1. /\ d # 0 /\ d \in Thread /\ pc'[0] = pc[0] /\ curr_index'[0] = curr_index[0] /\ curr_job'[0] = curr_job[0]
      /\ next_job_time'[0] = next_job_time[0] /\ (AdvanceAhead' <=> AdvanceAhead)
      /\ (InSweep(0)' <=> InSweep(0))
  BY Threads DEF AdvanceAhead, InSweep
<1>2. \A c \in Child : (StartedInPass(c)' <=> StartedInPass(c)) /\ (Armed(c)' <=> Armed(c))
  BY <1>1 DEF StartedInPass, Armed
<1>3. \A t \in Thread : InStep(t) => t # d
  OBVIOUS
<1>4. ASSUME NEW t \in Thread, NEW k \in 1 .. Len(JobQueue[t]), t # d
      PROVE  JobQueue[t][k] \notin JobsOf(d) /\ JobQueue[t][k] \in Job
  BY <1>1, <1>4, OnePlace, InJobs DEF JobsOf
<1>5. CursorBehind'
  <2> SUFFICES ASSUME NEW t \in Thread, pc'[t] \in {"depend", "call"}
               PROVE  curr_index'[t] > 1 /\ JobQueue[t][curr_index'[t] - 1] = curr_job'[t]
    BY DEF CursorBehind
  <2>1. CASE t = d /\ pc[d] \in {"depend", "call"} /\ UNCHANGED <<curr_index, curr_job>>
    BY <2>1 DEF ScheduleInv, CursorBehind
  <2>2. CASE t = d /\ curr_index'[d] = curr_index[d] + 1 /\ curr_index[d] \in 1 .. Len(JobQueue[d])
             /\ curr_job'[d] = JobQueue[d][curr_index[d]]
    BY <2>2
  <2>3. CASE t # d
    BY <2>3 DEF ScheduleInv, CursorBehind
  <2> QED
    BY <2>1, <2>2, <2>3
<1>6. \A j : j \notin JobsOf(d) => (Selected(j)' <=> Selected(j))
  <2> SUFFICES ASSUME NEW j, j \notin JobsOf(d)
               PROVE  Selected(j)' <=> Selected(j)
    OBVIOUS
  <2>1. ~(pc[d] \in {"depend", "call"} /\ curr_job[d] = j)
    BY <1>1, RunningJob DEF ScheduleInv
  <2>2. ~(pc'[d] \in {"depend", "call"} /\ curr_job'[d] = j)
    BY <1>1, <2>1, InJobs
  <2> QED
    BY <2>1, <2>2 DEF Selected
<1>7. CallsAhead'
  <2> SUFFICES ASSUME NEW t \in Thread, InStep(t), NEW k \in 1 .. Len(JobQueue[t])
               PROVE  JobAhead(t, k)'
    BY DEF CallsAhead, InStep
  <2>1. t # d /\ JobQueue[t][k] \notin JobsOf(d) /\ JobQueue[t][k] \in Job
    BY <1>3, <1>4
  <2>2. Swept(t, k)' => Swept(t, k)
    BY <1>1, <1>2, <2>1, Threads DEF Swept, InSweep
  <2>3. next_job_time'[t] <= next_job_time[t]
    <3>1. next_job_time'[t] = next_job_time[t] /\ next_job_time[t] \in Nat
      BY <2>1, Typed
    <3> QED
      BY <3>1
  <2>4. SetsItsTime(JobQueue[t][k]) => SetsItsTime(JobQueue[t][k])'
    BY <1>6, <2>1 DEF SetsItsTime
  <2>5. next_tics'[JobQueue[t][k]] = next_tics[JobQueue[t][k]]
    BY <2>1
  <2> QED
    BY <2>2, <2>3, <2>4, <2>5, JobKept DEF ScheduleInv, CallsAhead
<1>8. QueueAhead'
  <2>1. next_job_time'[0] > time_tics'
    BY <1>1 DEF ScheduleInv, QueueAhead
  <2>2. ASSUME NEW c \in Child, ProcessType[c] = "SCHEDULED"
        PROVE  /\ InSweep(c)' \/ pc'[c] = "complete" \/ (child_complete'[c] /\ StartedInPass(c)') =>
                    next_job_time'[c] > time_tics'
               /\ pc'[c] = "complete" \/ (child_complete'[c] /\ StartedInPass(c)') => AtEnd(c)'
    <3>1. /\ pc'[c] = pc[c] /\ curr_index'[c] = curr_index[c] /\ next_job_time'[c] = next_job_time[c]
          /\ child_complete'[c] = child_complete[c]
      BY <2>2, Threads DEF InStep
    <3> QED
      BY <1>2, <2>2, <3>1 DEF ScheduleInv, QueueAhead, InSweep, AtEnd
  <2> QED
    BY <2>1, <2>2 DEF QueueAhead
<1>9. FreezeJob \notin JobsOf(d)
  BY ExecutiveAssumption DEF ExecutiveAssumption
<1>10. JobsStatic' /\ FreezeDue'
  BY <1>6, <1>9, SystemJobs DEF ScheduleInv, JobsStatic, FreezeDue
<1>11. \A j \in SyncJob : j \in Job /\ j \notin JobsOf(d)
  <2> SUFFICES ASSUME NEW j \in SyncJob
               PROVE  j \in Job /\ j \notin JobsOf(d)
    OBVIOUS
  <2>1. PICK t \in Thread : InStep(t) /\ j \in JobsOf(t)
    BY DEF SyncJob
  <2>2. PICK k \in 1 .. Len(JobQueue[t]) : JobQueue[t][k] = j
    BY <2>1 DEF JobsOf
  <2> QED
    BY <1>3, <1>4, <2>1, <2>2
<1>12. History'
  <2> SUFFICES ASSUME Undisturbed'
               PROVE  (\A j \in Job : ~disabled'[j]) /\ \A j \in SyncJob : JobHistory(j)'
    BY DEF History, SyncJob
  <2>1. Undisturbed
    BY DEF Undisturbed, StopsLater
  <2>2. (\A j \in Job : ~disabled[j]) /\ \A j \in SyncJob : JobHistory(j)
    BY <2>1 DEF ScheduleInv, History
  <2> QED
    BY <1>6, <1>11, <2>2, HistoryKept
<1>13. TimeInv'
  <2>1. AtExit' \/ (~AtExit /\ ~AtExit' /\ (BeforeTop' <=> BeforeTop) /\ (AfterAdvance' <=> AfterAdvance))
    BY <1>1 DEF AtExit, BeforeTop, AfterAdvance
  <2>2. pc'[0] = "eof" => ~TerminateReached
    BY <1>1 DEF ScheduleInv, FrameInv
  <2> QED
    BY <1>2, <2>1, <2>2, TimeUnmoved, Parts
<1>14. Started'
  BY <1>1, Threads DEF ScheduleInv, Started
<1>15. LastPass'
  BY <1>1, <1>11 DEF ScheduleInv, LastPass, AfterAdvance, TerminateReached, clockVars, SyncJob
<1> QED
  BY <1>5, <1>7, <1>8, <1>10, <1>12, <1>13, <1>14, <1>15 DEF ScheduleInv, TimeInv

\* A thread that need not keep step has jobs and a time of its own.
LEMMA OtherChild ==
  ASSUME JobsOnce, TypeOK, TypeOK', SyncInv, ScheduleInv, NEW d \in Child, ~InStep(d), ChildStep(d)
  PROVE  ScheduleInv'
<1>1. /\ UNCHANGED <<clockVars, time_tics, cycle_tics, disabled, freeze_times, cmds, exec_command,
                     amf_next_tics>>
      /\ d \in Thread /\ d # 0
  BY Threads DEF ChildStep, ChildStart, ChildWait, Dispatch, CatchUp, FindNextJob, GetNextJob, AwaitDepends,
                 ReturnFromJob, EndChildSweep, ChildComplete, clockVars, jobVars, modeVars, childVars
<1>2. ii' = ii
  BY <1>1 DEF ChildStep, ChildStart, ChildWait, Dispatch, CatchUp, FindNextJob, GetNextJob, AwaitDepends,
              ReturnFromJob, EndChildSweep, ChildComplete
<1>3. /\ pc'[d] # "start" /\ \A u \in Thread : u # d => pc'[u] = pc[u]
      /\ pc'[d] = "catchup" => ProcessType[d] = "ASYNC"
  <2>1. \/ pc' = pc /\ pc[d] # "start"
        \/ \E l \in {"wait", "waiting", "dispatch", "sweep", "depend", "call", "complete"} : Goto(d, l)
        \/ Goto(d, "catchup") /\ ProcessType[d] = "ASYNC"
    BY DEF ChildStep, ChildStart, ChildWait, Dispatch, CatchUp, FindNextJob, GetNextJob, AwaitDepends,
           ReturnFromJob, EndChildSweep, ChildComplete
  <2>2. pc[d] = "catchup" => ProcessType[d] = "ASYNC"
    BY DEF ScheduleInv, Started
  <2> QED
    BY <1>1, <2>1, <2>2, Typed DEF Goto
<1>4. \A c \in Child : c # d => child_complete'[c] = child_complete[c]
  <2>1. child_complete' \in {child_complete, [child_complete EXCEPT ![d] = TRUE]}
    BY DEF ChildStep, ChildStart, ChildWait, Dispatch, CatchUp, FindNextJob, GetNextJob, AwaitDepends,
           ReturnFromJob, EndChildSweep, ChildComplete, childVars
  <2> QED
    BY <2>1, Typed
<1>5. \A u \in Thread : u # d => /\ curr_index'[u] = curr_index[u] /\ curr_job'[u] = curr_job[u]
                                 /\ next_job_time'[u] = next_job_time[u]
  <2>1. /\ curr_index' = curr_index \/ \E k : curr_index' = [curr_index EXCEPT ![d] = k]
        /\ curr_job' = curr_job \/ \E j : curr_job' = [curr_job EXCEPT ![d] = j]
        /\ next_job_time' = next_job_time \/ \E n : next_job_time' = [next_job_time EXCEPT ![d] = n]
    BY DEF ChildStep, ChildStart, ChildWait, Dispatch, CatchUp, FindNextJob, GetNextJob, AwaitDepends,
           ReturnFromJob, EndChildSweep, ChildComplete, queueVars, callVars
  <2> QED
    BY <2>1, Typed
<1>6. \A j \in Job : j \notin JobsOf(d) => next_tics'[j] = next_tics[j] /\ last_call'[j] = last_call[j]
  <2>1. ~AtEnd(d) => JobQueue[d][curr_index[d]] \in JobsOf(d)
    <3>1. ~AtEnd(d) => curr_index[d] \in 1 .. Len(JobQueue[d])
      BY <1>1, CursorInQueue
    <3> QED
      BY <1>1, <3>1, InJobs
  <2>2. pc[d] = "call" => curr_job[d] \in JobsOf(d)
    BY <1>1, RunningJob DEF ScheduleInv
  <2>3. \/ UNCHANGED <<next_tics, last_call>>
        \/ \E j \in JobsOf(d) : /\ next_tics' = next_tics \/ \E n : next_tics' = [next_tics EXCEPT ![j] = n]
                                /\ last_call' = last_call \/ \E n : last_call' = [last_call EXCEPT ![j] = n]
    BY <2>1, <2>2 DEF ChildStep, ChildStart, ChildWait, Dispatch, CatchUp, FindNextJob, GetNextJob, AwaitDepends,
                      ReturnFromJob, EndChildSweep, ChildComplete, jobVars
  <2> QED
    BY <2>3, Typed
<1>7. pc'[d] \in {"depend", "call"} =>
        \/ pc[d] \in {"depend", "call"} /\ UNCHANGED <<curr_index, curr_job>>
        \/ /\ curr_index'[d] = curr_index[d] + 1 /\ curr_index[d] \in 1 .. Len(JobQueue[d])
           /\ curr_job'[d] = JobQueue[d][curr_index[d]]
  <2>1. CASE FindNextJob(d) \/ GetNextJob(d)
    <3>1. pc[d] = "sweep" /\ ~AtEnd(d) /\ curr_index' = [curr_index EXCEPT ![d] = @ + 1]
      BY <2>1 DEF FindNextJob, GetNextJob
    <3>2. curr_index[d] \in 1 .. Len(JobQueue[d])
      BY <1>1, <3>1, CursorInQueue
    <3>3. pc' = pc \/ curr_job' = [curr_job EXCEPT ![d] = JobQueue[d][curr_index[d]]]
      BY <2>1 DEF FindNextJob, GetNextJob
    <3>4. curr_index'[d] = curr_index[d] + 1
      BY <1>1, <3>1, Typed
    <3> QED
      BY <1>1, <3>1, <3>2, <3>3, <3>4, Typed
  <2>2. CASE AwaitDepends(d)
    BY <2>2 DEF AwaitDepends, queueVars
  <2>3. CASE ~(FindNextJob(d) \/ GetNextJob(d) \/ AwaitDepends(d))
    <3>1. \/ pc' = pc /\ pc[d] \notin {"depend", "call"}
          \/ \E l \in {"wait", "waiting", "dispatch", "sweep", "complete", "catchup"} : Goto(d, l)
      BY <2>3 DEF ChildStep, ChildStart, ChildWait, Dispatch, CatchUp, ReturnFromJob, EndChildSweep, ChildComplete
    <3> QED
      BY <1>1, <3>1, Typed DEF Goto
  <2> QED
    BY <2>1, <2>2, <2>3
<1> QED
  BY <1>1, <1>2, <1>3, <1>4, <1>5, <1>6, <1>7, OtherThread

\* Every step of a child.
LEMMA ChildSchedule ==
  ASSUME JobsOnce, ClassOrder, TypeOK, TypeOK', SyncInv, ScheduleInv, NEW d \in Child, ChildStep(d)
  PROVE  ScheduleInv'
<1>1. CASE ~InStep(d)
  BY <1>1, OtherChild
<1>2. CASE InStep(d)
  <2>1. ProcessType[d] = "SCHEDULED" /\ d \in Thread
    BY <1>2, Threads DEF InStep
  <2>2. CASE FindNextJob(d)
    BY <1>2, <2>1, <2>2, FindSchedule
  <2>3. CASE AwaitDepends(d) \/ ReturnFromJob(d)
    BY <1>2, <2>1, <2>3, CallSchedule
  <2>4. CASE ChildStart(d) \/ ChildWait(d) \/ Dispatch(d) \/ EndChildSweep(d) \/ ChildComplete(d)
    BY <2>1, <2>4, ScheduledChild
  <2>5. ~CatchUp(d) /\ ~GetNextJob(d)
    BY <2>1 DEF CatchUp, GetNextJob, FreeRunning, ScheduleInv, Started
  <2> QED
    BY <2>2, <2>3, <2>4, <2>5 DEF ChildStep
<1> QED
  BY <1>1, <1>2

--------------------------------------------------------------------------------
(***************************************************************************)
(* The commands.                                                           *)
(***************************************************************************)
\* A command that Steady allows changes no cycle, and of the call times only that of the freeze job.
LEMMA CommandSchedule ==
  ASSUME Steady, TypeOK, TypeOK', SyncInv, ScheduleInv, CommandStep
  PROVE  ScheduleInv'
<1>1. /\ UNCHANGED <<clockVars, time_tics, last_call, curr_index, next_job_time, curr_job, child_complete,
                     amf_next_tics, pc, ii, cycle_tics>>
      /\ cmds' = cmds + 1
  <2>1. UNCHANGED cycle_tics
    BY DEF CommandStep, Freeze, FreezeAt, Run, StopCmd, SetJobOnOff, SetThreadEnabled, SetJobCycle, Command, Steady, StaticThreads
  <2> QED
    BY <2>1 DEF CommandStep, Freeze, FreezeAt, Run, StopCmd, SetJobOnOff, SetThreadEnabled, SetJobCycle, Command,
                clockVars, queueVars, callVars
<1>2. cmds' # 0 /\ cmds \in Nat
  BY <1>1, Typed
<1>3. \A c \in Child : (StartedInPass(c)' <=> StartedInPass(c)) /\ (Armed(c)' <=> Armed(c))
  BY <1>1 DEF StartedInPass, InSweep, AdvanceAhead, Armed
<1>4. \A t \in Thread, k \in Nat : Swept(t, k)' <=> Swept(t, k)
  BY <1>1, <1>3, Threads DEF Swept, InSweep, AdvanceAhead
<1>5. \A i : Selected(i)' <=> Selected(i)
  BY <1>1 DEF Selected
<1>6. QueueAhead' /\ Started' /\ CursorBehind'
  BY <1>1, <1>3 DEF ScheduleInv, QueueAhead, InSweep, AtEnd, Started, CursorBehind
<1>7. TimeInv'
  <2>1. AtExit' \/ (~AtExit /\ ~AtExit' /\ (BeforeTop' <=> BeforeTop) /\ (AfterAdvance' <=> AfterAdvance))
    BY <1>1 DEF AtExit, BeforeTop, AfterAdvance, InSweep, AdvanceAhead
  <2>2. pc'[0] = "eof" => ~TerminateReached
    BY <1>1 DEF ScheduleInv, FrameInv
  <2> QED
    BY <1>1, <1>3, <2>1, <2>2, TimeUnmoved, Parts
<1>8. \A t \in Thread : next_job_time'[t] <= next_job_time[t]
  BY <1>1, Typed
<1>9. LastPass'
  <2>1. \A j \in SyncJob : next_tics'[j] = next_tics[j]
    <3>1. next_tics' = next_tics \/ \E n : next_tics' = [next_tics EXCEPT ![FreezeJob] = n]
      BY DEF CommandStep, Freeze, FreezeAt, Run, StopCmd, SetJobOnOff, SetThreadEnabled, SetJobCycle, Command, Steady, StaticThreads
    <3> QED
      BY <3>1, Typed, Constants, SystemJobs DEF SyncJob
  <2> QED
    BY <1>1, <1>2, <2>1 DEF ScheduleInv, LastPass, AfterAdvance, InSweep, AdvanceAhead, TerminateReached,
                            clockVars, SyncJob
<1>10. CASE UNCHANGED <<next_tics, disabled, freeze_times>>
  <2>1. CallsInv'
    BY <1>1, <1>2, <1>4, <1>6, <1>8, <1>10, CallsStill, Parts, QueuedJobs
  <2> QED
    BY <1>6, <1>7, <1>9, <2>1, Parts, Zenon DEF ScheduleInv, CallsInv, TimeInv
<1>11. ASSUME NEW j \in UserJob, SetJobOnOff(j)
       PROVE  ScheduleInv'
  <2>1. /\ "onoff" \in Commands /\ disabled' = [disabled EXCEPT ![j] = ~@]
        /\ UNCHANGED <<next_tics, freeze_times>>
    BY <1>11 DEF SetJobOnOff, Command
  <2>2. JobsStatic'
    <3>1. \A i \in SystemJob : i \in Job /\ i # j
      BY ExecutiveAssumption, SystemJobs DEF ExecutiveAssumption, SystemJob, UserJob
    <3>2. \A i \in SystemJob : ~disabled'[i]
      BY <2>1, <3>1, Typed DEF ScheduleInv, JobsStatic
    <3> QED
      BY <1>1, <3>2 DEF ScheduleInv, JobsStatic
  <2>3. FreezeDue'
    BY <1>5, <2>1 DEF ScheduleInv, FreezeDue
  <2>4. CallsAhead'
    <3>1. \A i : SetsItsTime(i) => SetsItsTime(i)'
      BY <1>5 DEF SetsItsTime
    <3>2. \A t \in Thread : \A k \in 1 .. Len(JobQueue[t]) : Swept(t, k)' => Swept(t, k)
      BY <1>4, QueuedJobs
    <3> QED
      BY <1>1, <1>8, <2>1, <3>1, <3>2, CallsKept DEF ScheduleInv
  <2>5. History'
    BY <1>2, <2>1 DEF History, Undisturbed
  <2> QED
    BY <1>6, <1>7, <1>9, <2>2, <2>3, <2>4, <2>5 DEF ScheduleInv, TimeInv
<1>12. ASSUME NEW n \in FreezeArgs, FreezeAt(n)
       PROVE  ScheduleInv'
  <2>1. /\ "freeze_at" \in Commands /\ n > time_tics /\ freeze_times' = freeze_times \cup {n}
        /\ next_tics' = [next_tics EXCEPT ![FreezeJob] = MinOf(n, @)] /\ UNCHANGED disabled
    BY <1>12 DEF FreezeAt, Command
  <2>2. PICK m \in Nat : m = next_tics[FreezeJob]
    BY Typed, SystemJobs
  <2>3. PICK l : l = MinOf(n, m)
    OBVIOUS
  <2>4. n \in Nat
    BY ExecutiveAssumption DEF ExecutiveAssumption
  <2>5. l \in Nat /\ l <= n /\ l <= m /\ (m >= time_tics => l >= time_tics)
        /\ (m > time_tics => l > time_tics)
    BY <2>1, <2>2, <2>3, <2>4, Typed DEF MinOf
  <2>6. next_tics'[FreezeJob] = l /\ \A i \in Job : i # FreezeJob => next_tics'[i] = next_tics[i]
    BY <2>1, <2>2, <2>3, Typed, SystemJobs
  <2>7. m >= time_tics
    <3>1. PICK k \in 1 .. Len(JobQueue[0]) : JobQueue[0][k] = FreezeJob
      BY ExecutiveAssumption DEF ExecutiveAssumption, JobsOf
    <3> QED
      BY <2>2, <3>1, SystemJobs, Threads DEF ScheduleInv, CallsAhead, InStep, JobAhead
  <2>8. FreezeDue'
    <3>1. \A x \in freeze_times : x \in Nat /\ m <= x
      BY <2>2, Typed DEF ScheduleInv, FreezeDue
    <3>2. \A x \in freeze_times' : l <= x
      BY <2>1, <2>2, <2>5, <3>1
    <3>3. ~FreezeOnFrameBoundary
      BY <2>1 DEF Steady
    <3> QED
      BY <2>6, <3>2, <3>3 DEF FreezeDue
  <2>9. CallsInv'
    <3>1. next_tics'[FreezeJob] >= time_tics
          /\ (next_tics[FreezeJob] > time_tics => next_tics'[FreezeJob] > time_tics)
      BY <2>2, <2>5, <2>6, <2>7
    <3>2. \A t \in Thread, k \in Nat : Swept(t, k)' => Swept(t, k)
      BY <1>4
    <3> QED
      BY <1>1, <1>2, <1>6, <2>1, <2>6, <2>8, <3>1, <3>2, FreezeJobMoves, Parts DEF Steady
  <2> QED
    BY <1>6, <1>7, <1>9, <2>9, Parts, Zenon DEF ScheduleInv, CallsInv, TimeInv
<1> QED
  BY <1>10, <1>11, <1>12 DEF CommandStep, Freeze, Run, StopCmd, SetThreadEnabled, SetJobCycle, Command, Steady, StaticThreads

--------------------------------------------------------------------------------
(***************************************************************************)
(* The invariant.                                                          *)
(***************************************************************************)
\* The initial state.
LEMMA ScheduleInit ==
  ASSUME Init
  PROVE  ScheduleInv
<1>1. TypeOK
  BY InitTypes
<1>2. /\ time_tics = 0 /\ time_last_pass_tics = 0 /\ frame_count = 0 /\ next_frame_check_tics = SoftwareFrame
      /\ pc[0] \in {"init", "loop"} /\ ii = 1 /\ cmds = 0 /\ freeze_times = {} /\ cycle_tics = Cycle
      /\ exec_command \in {"FreezeCmd", "NoCmd"}
      /\ \A c \in Child : pc[c] = "start" /\ ~child_complete[c]
      /\ \A j \in Job : ~disabled[j] /\ last_call[j] = -1
      /\ \A t \in Thread : next_job_time[t] = MaxTics
      /\ \A j \in UserJob : next_tics[j] = FirstCall(j)
      /\ next_tics[FreezeJob] = MaxTics
  BY Threads DEF Init
<1>3. pc[0] = "loop" => Child = {}
  BY Threads, TriggerAssumption DEF Init, MultiThread, Child
<1>4. \A t \in Thread : pc[t] \notin {"sweep", "depend", "call", "complete", "catchup", "firing", "fire"}
  BY <1>2, Threads
<1>5. /\ \A t \in Thread : ~InSweep(t)
      /\ \A c \in Child : ~StartedInPass(c) /\ ~Armed(c)
      /\ \A j : ~Selected(j)
      /\ ~AfterAdvance
  BY <1>2, <1>4, Threads DEF InSweep, StartedInPass, Armed, Selected, AfterAdvance
<1>6. Started
  <2>1. \A c \in Child : c >= 1
    BY TriggerAssumption DEF Child
  <2> QED
    BY <1>2, <1>3, <1>4, <2>1, Threads DEF Started
<1>7. CursorBehind
  BY <1>4 DEF CursorBehind
<1>8. CallsAhead
  <2> SUFFICES ASSUME NEW t \in Thread, NEW k \in 1 .. Len(JobQueue[t])
               PROVE  JobAhead(t, k)
    BY DEF CallsAhead
  <2>1. PICK j \in Job : j = JobQueue[t][k]
    BY InJobs
  <2>2. next_tics[j] >= time_tics
    BY <1>1, <1>2, Typed
  <2>3. Swept(t, k) => t = 0 /\ IsTail(j)
    BY <1>2, <1>4, <1>5, <2>1, Threads DEF Swept
  <2>4. IsTail(j) => next_tics[j] > time_tics
    <3>1. CASE j = FreezeJob
      BY <1>2, <3>1, Constants
    <3>2. CASE j \in IntegLoopJob
      <4>1. j \in UserJob /\ Start[j] \in Nat /\ Cycle[j] \in Nat \ {0}
        BY <3>2, Constants
      <4> QED
        BY <1>2, <3>2, <4>1 DEF FirstCall
    <3> QED
      BY <3>1, <3>2 DEF IsTail
  <2> QED
    BY <2>1, <2>2, <2>3, <2>4 DEF JobAhead
<1>9. QueueAhead
  <2>1. next_job_time[0] > time_tics
    BY <1>2, Threads, Constants
  <2> QED
    BY <1>2, <1>4, <1>5, <2>1, Threads DEF QueueAhead
<1>10. JobsStatic
  <2>1. SystemJob \subseteq Job
    BY ExecutiveAssumption, SystemJobs DEF ExecutiveAssumption, SystemJob
  <2> QED
    BY <1>2, <2>1 DEF JobsStatic
<1>11. FreezeDue
  BY <1>2, <1>5 DEF FreezeDue
<1>12. FrameInv
  <2>1. AtFrameStart
    BY <1>2, Constants DEF AtFrameStart
  <2>2. BeforeTop
    BY <1>2 DEF BeforeTop
  <2>3. 0 * SoftwareFrame = SoftwareFrame - SoftwareFrame
    BY Constants
  <2> QED
    BY <1>2, <1>5, <2>1, <2>2, <2>3, Constants DEF FrameInv
<1>13. AmfAhead
  BY <1>1, <1>2, <1>5, Typed DEF AmfAhead
<1>14. History
  <2> SUFFICES ASSUME Undisturbed, NEW j \in SyncJob
               PROVE  JobHistory(j)
    BY <1>2 DEF History
  <2>1. /\ j \in UserJob /\ j \in Job /\ FirstCall(j) \in Nat /\ Cycle[j] \in Nat \ {0}
        /\ last_call[j] = -1 /\ next_tics[j] = FirstCall(j) /\ FirstCall(j) <= Stop[j]
    BY <1>2, Constants DEF SyncJob, Undisturbed, StopsLater
  <2>2. Due(j, next_tics[j])
    <3>1. (FirstCall(j) - FirstCall(j)) % Cycle[j] = 0
      BY <2>1
    <3> QED
      BY <2>1, <3>1 DEF Due, Schedule!DueAt
  <2>3. \A n \in 0 .. TerminateTime : Due(j, n) => n >= next_tics[j]
    BY <2>1 DEF Due, Schedule!DueAt
  <2> QED
    BY <1>2, <1>5, <2>1, <2>2, <2>3 DEF JobHistory
<1>15. LastPass
  BY <1>2, <1>5 DEF LastPass
<1> QED
  BY <1>6, <1>7, <1>8, <1>9, <1>10, <1>11, <1>12, <1>13, <1>14, <1>15 DEF ScheduleInv

\* A step that changes nothing.
LEMMA StutterSchedule ==
  ASSUME TypeOK, TypeOK', ScheduleInv, UNCHANGED vars
  PROVE  ScheduleInv'
<1>1. UNCHANGED <<clockVars, time_tics, next_tics, next_job_time, cycle_tics, disabled, last_call, curr_index,
                  curr_job, child_complete, freeze_times, cmds, amf_next_tics, exec_command, pc, ii>>
  BY DEF vars, clockVars, modeVars, jobVars, queueVars, callVars, childVars
<1>2. \A c \in Child : (StartedInPass(c)' <=> StartedInPass(c)) /\ (Armed(c)' <=> Armed(c))
  BY <1>1 DEF StartedInPass, InSweep, AdvanceAhead, Armed
<1>3. (BeforeTop' <=> BeforeTop) /\ (AfterAdvance' <=> AfterAdvance) /\ (AtExit' <=> AtExit)
  BY <1>1 DEF AtExit, BeforeTop, AfterAdvance, InSweep, AdvanceAhead
<1>4. CallsInv'
  BY <1>1, <1>2, CallsUnmoved, Parts
<1>5. TimeInv'
  <2>1. pc'[0] = "eof" => ~TerminateReached
    BY <1>1 DEF ScheduleInv, FrameInv
  <2> QED
    BY <1>1, <1>2, <1>3, <2>1, TimeUnmoved, Parts
<1>6. Started' /\ LastPass'
  BY <1>1, <1>3, LastPassKept DEF ScheduleInv, Started
<1> QED
  BY <1>4, <1>5, <1>6, Parts, Zenon DEF ScheduleInv, CallsInv, TimeInv

\* Every step keeps the invariant.
LEMMA ScheduleStep ==
  ASSUME Steady, TypeOK, TypeOK', SyncInv, ScheduleInv, [Next]_vars
  PROVE  ScheduleInv'
<1> USE DEF Steady
<1>1. CASE UNCHANGED vars
  BY <1>1, StutterSchedule
<1>2. CASE MainStep
  <2>1. 0 \in Thread /\ InStep(0)
    BY Threads DEF InStep
  <2>2. CASE FindNextJob(0)
    BY <2>1, <2>2, FindSchedule
  <2>3. CASE AwaitDepends(0) \/ ReturnFromJob(0)
    BY <2>1, <2>3, CallSchedule
  <2>4. CASE \/ AwaitChildren \/ TestFreezeCmd \/ EnterFreeze \/ FreezeLoop \/ ClearFreezeLoopCmd
             \/ LeaveFreeze
    BY <2>4, FreezeSchedule
  <2>5. CASE TopOfFrame \/ ThreadSync \/ MarkIncomplete \/ InputProcessorRun
    BY <2>5, TopOfFrameSchedule, ThreadSyncSchedule, InputSchedule
  <2>6. CASE ArmThread \/ FireThread
    BY <2>6, StartSchedule
  <2>7. CASE ScheduledThreadSync \/ SchedFreezeToExecCommand
    BY <2>7, FreezeJobSchedule
  <2>8. CASE AdvanceSimTime
    BY <2>8, AdvanceSchedule
  <2>9. CASE EndMainSweep \/ CheckCommand \/ ClearRunCmd
    BY <2>9, CheckSchedule
  <2>10. CASE CheckTerminate \/ EndOfFrame \/ Shutdown
    BY <2>10, TerminateSchedule, EndOfFrameSchedule, ShutdownSchedule
  <2> QED
    BY <1>2, <2>2, <2>3, <2>4, <2>5, <2>6, <2>7, <2>8, <2>9, <2>10 DEF MainStep
<1>3. CASE CommandStep
  BY <1>3, CommandSchedule
<1> QED
  BY <1>1, <1>2, <1>3, ChildSchedule DEF Next, Ended

\* In every run in which the threads stay enabled and no cycle is changed, each job of the master
\* and of a scheduled thread that the current pass has looked at has its next call after the time,
\* and every other one not before it; no call lies between the last one made and the next one.
THEOREM ScheduleHolds == ASSUME Steady PROVE Spec => []ScheduleInv
<1>1. Init => ScheduleInv
  BY ScheduleInit
<1>2. TypeOK /\ TypeOK' /\ SyncInv /\ ScheduleInv /\ [Next]_vars => ScheduleInv'
  BY ScheduleStep
<1>3. Spec => []SyncInv
  BY SyncInvariant DEF Steady
<1> QED
  BY <1>1, <1>2, <1>3, TypeCorrect, PTL DEF Spec

--------------------------------------------------------------------------------
(***************************************************************************)
(* What it says of the runs: the calls and the time.                       *)
(***************************************************************************)
\* No job of the master or of a scheduled thread is left with a call time in the past,
\* where find_next_job, which tests for equality, would never find it again.
THEOREM NoneLeftBehind == ASSUME Steady PROVE Spec => []NoJobLeftBehind
<1>1. ScheduleInv => NoJobLeftBehind
  <2> SUFFICES ASSUME ScheduleInv, NEW t \in Thread, InStep(t), NEW j \in JobsOf(t) \cap UserJob
               PROVE  next_tics[j] >= time_tics
    BY DEF NoJobLeftBehind
  <2>1. PICK k \in 1 .. Len(JobQueue[t]) : JobQueue[t][k] = j
    BY DEF JobsOf
  <2> QED
    BY <2>1, SystemJobs DEF ScheduleInv, CallsAhead, JobAhead
<1> QED
  BY <1>1, ScheduleHolds, PTL

\* The time never leaves the current software frame, and the top of frame jobs have run once
\* for each frame begun.
THEOREM FramesInStep == ASSUME Steady PROVE Spec => []FrameInStep
<1>1. ScheduleInv => FrameInStep
  BY DEF ScheduleInv, FrameInv, FrameInStep, BeforeTop
<1> QED
  BY <1>1, ScheduleHolds, PTL

\* A job of the schedule that runs is run by a thread in step with the master.
LEMMA RunsInStep ==
  ASSUME TypeOK, JobsOnce, CursorBehind, NEW j \in SyncJob,
         NEW t \in Thread, pc[t] \in {"depend", "call"}, curr_job[t] = j
  PROVE  InStep(t)
<1>1. PICK u \in Thread : InStep(u) /\ j \in JobsOf(u)
  BY DEF SyncJob
<1>2. PICK k \in 1 .. Len(JobQueue[u]) : JobQueue[u][k] = j
  BY <1>1 DEF JobsOf
<1>3. k \in Nat
  BY QueuedJobs
<1> QED
  BY <1>1, <1>2, <1>3, RunningJob

\* Outside its sweep the master has nothing running: every scheduled thread is idle.
LEMMA NoneSelected ==
  ASSUME TypeOK, JobsOnce, SyncInv, CursorBehind, NEW j \in SyncJob,
         pc[0] \notin {"init", "fire", "firing", "sweep", "depend", "call"}
  PROVE  ~Selected(j)
<1> SUFFICES ASSUME NEW t \in Thread, pc[t] \in {"depend", "call"}, curr_job[t] = j
             PROVE  FALSE
  BY DEF Selected
<1>1. InStep(t)
  BY RunsInStep
<1>2. t \in Child /\ ProcessType[t] = "SCHEDULED"
  BY <1>1, Threads DEF InStep
<1> QED
  BY <1>2 DEF SyncInv, Phases, ScheduledDone, Handshake, InHand

\* The clock stops at the sync time of an AMF thread that has not finished, and a run without commands
\* ends at the terminate time with every call made up to and including it.
THEOREM TimesAreHonoured == ASSUME Steady, StopsLater PROVE Spec => []TimesHonoured
<1>1. ScheduleInv => AmfSyncHonoured
  BY DEF ScheduleInv, AmfAhead, AmfSyncHonoured
<1>2. TypeOK /\ SyncInv /\ ScheduleInv => EndsOnTime
  <2> SUFFICES ASSUME TypeOK, SyncInv, ScheduleInv, pc[0] = "done", cmds = 0
               PROVE  /\ time_tics = TerminateTime
                      /\ \A j \in SyncJob, n \in 0 .. TerminateTime : Schedule!DueAt(j, n) => last_call[j] >= n
    BY DEF EndsOnTime
  <2>1. time_tics = TerminateTime /\ \A j \in SyncJob : next_tics[j] > time_tics
    BY DEF ScheduleInv, LastPass
  <2>2. ASSUME NEW j \in SyncJob, NEW n \in 0 .. TerminateTime, Schedule!DueAt(j, n)
        PROVE  last_call[j] >= n
    <3>1. ~Selected(j)
      BY NoneSelected DEF ScheduleInv, Steady
    <3>2. JobHistory(j)
      BY DEF ScheduleInv, History, Undisturbed
    <3>3. n <= Handled(j) \/ n >= next_tics[j]
      BY <2>2, <3>2 DEF JobHistory, Due
    <3>4. n \in Nat /\ last_call[j] \in Int /\ next_tics[j] \in Nat /\ TerminateTime \in Nat
      BY Typed, Constants DEF SyncJob
    <3>5. n <= last_call[j]
      BY <2>1, <3>1, <3>3, <3>4 DEF Handled
    <3> QED
      BY <3>4, <3>5
  <2> QED
    BY <2>1, <2>2
<1>3. Spec => []SyncInv
  BY SyncInvariant DEF Steady
<1> QED
  BY <1>1, <1>2, <1>3, ScheduleHolds, TypeCorrect, PTL DEF TimesHonoured

\* Only the job that advances the time changes it: the test for the terminate time sets it back to
\* a time that it has.
LEMMA SameTime ==
  ASSUME TypeOK, ScheduleInv, Next, ~AdvanceSimTime
  PROVE  time_tics' = time_tics
<1>1. CASE CheckTerminate
  <2>1. time_tics' = time_tics \/ (time_tics' = time_last_pass_tics /\ TerminateTime <= time_last_pass_tics)
    BY <1>1 DEF CheckTerminate, TerminateReached
  <2>2. /\ time_last_pass_tics \in Nat /\ TerminateTime \in Nat /\ time_tics \in Nat
        /\ time_last_pass_tics <= time_tics /\ time_tics <= TerminateTime
    BY Typed, Constants DEF ScheduleInv, FrameInv
  <2> QED
    BY <2>1, <2>2
<1>2. CASE MainStep /\ ~CheckTerminate
  BY <1>2 DEF MainStep, AwaitChildren, TestFreezeCmd, EnterFreeze, FreezeLoop,
    ClearFreezeLoopCmd, LeaveFreeze, TopOfFrame, ThreadSync, MarkIncomplete, InputProcessorRun,
    ArmThread, FireThread, FindNextJob, AwaitDepends, ReturnFromJob, ScheduledThreadSync,
    SchedFreezeToExecCommand, EndMainSweep, CheckCommand, ClearRunCmd, EndOfFrame, Shutdown, clockVars
<1>3. ASSUME NEW c \in Child, ChildStep(c)
      PROVE  time_tics' = time_tics
  BY <1>3 DEF ChildStep, ChildStart, ChildWait, Dispatch, CatchUp, FindNextJob, GetNextJob,
              AwaitDepends, ReturnFromJob, EndChildSweep, ChildComplete, clockVars
<1>4. CASE CommandStep
  BY <1>4 DEF CommandStep, Freeze, FreezeAt, Run, StopCmd, SetJobOnOff, SetThreadEnabled, SetJobCycle,
              Command, clockVars
<1> QED
  BY <1>1, <1>2, <1>3, <1>4 DEF Next, Ended, vars, clockVars

\* No step takes the time back.
LEMMA TimeGoesOn ==
  ASSUME Steady, TypeOK, SyncInv, ScheduleInv, Next
  PROVE  time_tics' >= time_tics
<1>1. time_tics \in Nat
  BY Typed
<1>2. CASE AdvanceSimTime
  <2>1. time_tics <= NextTime /\ NextTime \in Nat
    BY <1>2, AllAhead DEF AdvanceSimTime, Steady
  <2>2. time_tics' = NextTime
    BY <1>2 DEF AdvanceSimTime
  <2> QED
    BY <1>1, <2>1, <2>2
<1> QED
  BY <1>1, <1>2, SameTime

\* The master is in freeze_loop, or in the shutdown it went to from there, as long as the mode is Freeze.
FreezeMode == mode = "Freeze" => pc[0] \in {"freeze", "resume", "refreeze", "shutdown"}

\* Every step keeps what is known of the places of a freeze.
LEMMA FreezeModeStep ==
  ASSUME TypeOK, FreezeMode, [Next]_vars
  PROVE  FreezeMode'
<1>1. ASSUME NEW c \in Child, ChildStep(c)
      PROVE  pc'[0] = pc[0] /\ mode' = mode
  <2>1. UNCHANGED pc \/ \E l \in ChildPC : Goto(c, l)
    BY <1>1 DEF ChildStep, ChildStart, ChildWait, Dispatch, CatchUp, FindNextJob, GetNextJob,
                AwaitDepends, ReturnFromJob, EndChildSweep, ChildComplete, ChildPC
  <2>2. mode' = mode
    BY <1>1 DEF ChildStep, ChildStart, ChildWait, Dispatch, CatchUp, FindNextJob, GetNextJob,
                AwaitDepends, ReturnFromJob, EndChildSweep, ChildComplete, modeVars
  <2> QED
    BY <2>1, <2>2, ChildMoves DEF TypeOK
<1>2. CASE MainStep
  <2>1. CASE \/ EnterFreeze \/ FreezeLoop \/ ClearFreezeLoopCmd \/ Shutdown
    <3>1. CASE EnterFreeze \/ FreezeLoop \/ ClearFreezeLoopCmd
      <4>1. PICK l \in MainPC : Goto(0, l) /\ (mode' = "Freeze" => l \in {"freeze", "resume", "refreeze", "shutdown"})
        BY <3>1 DEF EnterFreeze, FreezeLoop, ClearFreezeLoopCmd, FreezeMode, MainPC, modeVars
      <4> QED
        BY <4>1, MasterAt DEF FreezeMode
    <3>2. CASE Shutdown
      BY <3>2 DEF Shutdown, FreezeMode
    <3> QED
      BY <2>1, <3>1, <3>2
  <2>2. CASE ~(EnterFreeze \/ FreezeLoop \/ ClearFreezeLoopCmd \/ Shutdown)
    <3>1. pc[0] \notin {"freeze", "resume", "refreeze", "shutdown"} /\ mode' = mode
      BY <1>2, <2>2 DEF MainStep, AwaitChildren, TestFreezeCmd,
        LeaveFreeze, TopOfFrame, ThreadSync, MarkIncomplete, InputProcessorRun,
        ArmThread, FireThread, FindNextJob, AwaitDepends, ReturnFromJob, ScheduledThreadSync,
        AdvanceSimTime, CheckTerminate,
        SchedFreezeToExecCommand, EndMainSweep, CheckCommand, ClearRunCmd, EndOfFrame, modeVars
    <3> QED
      BY <3>1 DEF FreezeMode
  <2> QED
    BY <2>1, <2>2
<1>3. CASE CommandStep
  BY <1>3 DEF FreezeMode, CommandStep, Freeze, FreezeAt, Run, StopCmd, SetJobOnOff, SetThreadEnabled, SetJobCycle,
              Command
<1>4. CASE UNCHANGED vars
  BY <1>4 DEF FreezeMode, vars, modeVars
<1> QED
  BY <1>1, <1>2, <1>3, <1>4 DEF Next, Ended, FreezeMode

\* Whatever is commanded, the clock only goes forward, and neither it nor a job in step with it
\* moves while the simulation is frozen.
THEOREM ClockIsKept == ASSUME Steady PROVE Spec => ClockBehaves
<1>1. TypeOK /\ TypeOK' /\ SyncInv /\ ScheduleInv /\ [Next]_vars => [time_tics' >= time_tics]_vars
  BY TimeGoesOn
<1>2. TypeOK /\ SyncInv /\ ScheduleInv /\ FreezeMode /\ [Next]_vars
        => [mode = "Freeze" /\ mode' = "Freeze" =>
              /\ UNCHANGED clockVars
              /\ \A j \in SyncJob : last_call'[j] = last_call[j]]_vars
  <2> SUFFICES ASSUME TypeOK, SyncInv, ScheduleInv, FreezeMode, Next, mode = "Freeze", mode' = "Freeze"
               PROVE  UNCHANGED clockVars /\ \A j \in SyncJob : last_call'[j] = last_call[j]
    OBVIOUS
  <2>1. pc[0] \in {"freeze", "resume", "refreeze", "shutdown"}
    BY DEF FreezeMode
  <2>2. CASE MainStep
    BY <2>1, <2>2 DEF MainStep, AwaitChildren, TestFreezeCmd, EnterFreeze, FreezeLoop,
        ClearFreezeLoopCmd, LeaveFreeze, TopOfFrame, ThreadSync, MarkIncomplete, InputProcessorRun,
        ArmThread, FireThread, FindNextJob, AwaitDepends, ReturnFromJob, ScheduledThreadSync,
        AdvanceSimTime, CheckTerminate,
        SchedFreezeToExecCommand, EndMainSweep, CheckCommand, ClearRunCmd, EndOfFrame, Shutdown, jobVars
  <2>3. ASSUME NEW c \in Child, ChildStep(c), NEW j \in SyncJob
        PROVE  UNCHANGED clockVars /\ last_call'[j] = last_call[j]
    <3>1. UNCHANGED clockVars /\ (UNCHANGED last_call \/ ReturnFromJob(c))
      BY <2>3 DEF ChildStep, ChildStart, ChildWait, Dispatch, CatchUp, FindNextJob, GetNextJob,
                  AwaitDepends, ReturnFromJob, EndChildSweep, ChildComplete, jobVars
    <3>2. CASE ReturnFromJob(c)
      <4>1. pc[c] = "call" /\ \E n : last_call' = [last_call EXCEPT ![curr_job[c]] = n]
        BY <3>2 DEF ReturnFromJob
      <4>2. ~Selected(j)
        BY <2>1, NoneSelected DEF ScheduleInv, Steady
      <4>3. curr_job[c] # j
        BY <4>1, <4>2, Threads DEF Selected
      <4> QED
        BY <3>1, <4>1, <4>3, Typed
    <3> QED
      BY <3>1, <3>2
  <2>4. CASE CommandStep
    BY <2>4 DEF CommandStep, Freeze, FreezeAt, Run, StopCmd, SetJobOnOff, SetThreadEnabled, SetJobCycle,
                Command
  <2>5. CASE Ended
    BY <2>5 DEF Ended, vars, jobVars
  <2>6. ASSUME NEW c \in Child, ChildStep(c)
        PROVE  UNCHANGED clockVars
    BY <2>6 DEF ChildStep, ChildStart, ChildWait, Dispatch, CatchUp, FindNextJob, GetNextJob,
                  AwaitDepends, ReturnFromJob, EndChildSweep, ChildComplete
  <2> QED
    BY <2>2, <2>3, <2>4, <2>5, <2>6 DEF Next
<1>3. Init => FreezeMode
  BY DEF Init, FreezeMode
<1>4. TypeOK /\ FreezeMode /\ [Next]_vars => FreezeMode'
  BY FreezeModeStep
<1>5. Spec => []SyncInv
  BY SyncInvariant DEF Steady
<1> QED
  BY <1>1, <1>2, <1>3, <1>4, <1>5, ScheduleHolds, TypeCorrect, PTL DEF Spec, ClockBehaves, FreezeHolds,
     TimeNeverGoesBack

\* The freeze job is never late, so no freeze time is in the past.
LEMMA FreezeTimesAhead ==
  ASSUME TypeOK, ScheduleInv
  PROVE  \A n \in freeze_times : n \in Nat /\ time_tics \in Nat /\ n >= time_tics
<1>1. PICK k \in 1 .. Len(JobQueue[0]) : JobQueue[0][k] = FreezeJob
  BY ExecutiveAssumption DEF ExecutiveAssumption, JobsOf
<1>2. next_tics[FreezeJob] >= time_tics
  BY <1>1, SystemJobs, Threads DEF ScheduleInv, CallsAhead, InStep, JobAhead
<1>3. \A n \in freeze_times : next_tics[FreezeJob] <= n
  BY DEF ScheduleInv, FreezeDue
<1>4. /\ time_tics \in Nat /\ next_tics[FreezeJob] \in Nat
      /\ \A n \in freeze_times : n \in Nat
  BY Typed, SystemJobs
<1> QED
  BY <1>2, <1>3, <1>4

\* freeze(time) takes effect at that time: a freeze time is dropped only when it is reached, and then
\* the freeze command is given.
THEOREM FreezesOnTime == ASSUME Steady PROVE Spec => FreezeOnTime
<1>1. TypeOK /\ ScheduleInv /\ [Next]_vars
        => [\A n \in freeze_times \ freeze_times' : n = time_tics /\ exec_command' = "FreezeCmd"]_vars
  <2> SUFFICES ASSUME TypeOK, ScheduleInv, Next, NEW n \in freeze_times, n \notin freeze_times'
               PROVE  n = time_tics /\ exec_command' = "FreezeCmd"
    OBVIOUS
  <2>1. SchedFreezeToExecCommand \/ EndOfFrame
    <3>1. CASE MainStep
      BY <3>1 DEF MainStep, AwaitChildren, TestFreezeCmd, EnterFreeze, FreezeLoop,
        ClearFreezeLoopCmd, LeaveFreeze, TopOfFrame, ThreadSync, MarkIncomplete, InputProcessorRun,
        ArmThread, FireThread, FindNextJob, AwaitDepends, ReturnFromJob, ScheduledThreadSync,
        AdvanceSimTime, CheckTerminate, EndMainSweep, CheckCommand, ClearRunCmd, Shutdown, modeVars
    <3>2. ASSUME NEW c \in Child, ChildStep(c)
          PROVE  FALSE
      BY <3>2 DEF ChildStep, ChildStart, ChildWait, Dispatch, CatchUp, FindNextJob, GetNextJob,
                  AwaitDepends, ReturnFromJob, EndChildSweep, ChildComplete, modeVars
    <3>3. ~CommandStep
      BY DEF CommandStep, Freeze, FreezeAt, Run, StopCmd, SetJobOnOff, SetThreadEnabled, SetJobCycle, Command
    <3> QED
      BY <3>1, <3>2, <3>3 DEF Next, Ended, vars, modeVars
  <2>2. freeze_times' = FreezeTimesLeft /\ (FreezeTimesLeft # freeze_times => exec_command' = "FreezeCmd")
    BY <2>1 DEF SchedFreezeToExecCommand, EndOfFrame
  <2>3. ~(n > time_tics)
    BY <2>2 DEF FreezeTimesLeft
  <2>4. n = time_tics
    BY <2>3, FreezeTimesAhead
  <2> QED
    BY <2>2, <2>4
<1> QED
  BY <1>1, ScheduleHolds, TypeCorrect, PTL DEF Spec, FreezeOnTime

--------------------------------------------------------------------------------
(***************************************************************************)
(* The executive implements its schedule.                                  *)
(***************************************************************************)
\* The end of the call of a job of the schedule is a call of the schedule.
LEMMA CallRefines ==
  ASSUME TypeOK, SyncInv, ScheduleInv, Steady, Undisturbed,
         NEW t \in Thread, ReturnFromJob(t), curr_job[t] \in SyncJob
  PROVE  \E j \in SyncJob : Schedule!Call(j)
<1>1. PICK j \in SyncJob : j = curr_job[t]
  OBVIOUS
<1>2. pc[t] = "call" /\ last_call' = [last_call EXCEPT ![j] = Now(t)] /\ UNCHANGED time_tics
  BY <1>1 DEF ReturnFromJob, clockVars
<1>3. InStep(t)
  BY <1>1, <1>2, RunsInStep DEF Steady, ScheduleInv
<1>4. Now(t) = time_tics
  BY <1>2, <1>3, InStepTime DEF InSweep
<1>5. Selected(j) /\ JobHistory(j)
  BY <1>1, <1>2 DEF Selected, ScheduleInv, History
<1>6. Schedule!DueAt(j, time_tics) /\ last_call[j] < time_tics
  BY <1>5 DEF JobHistory, Due
<1>7. \A i \in SyncJob : last_call'[i] = IF i = j THEN time_tics ELSE last_call[i]
  BY <1>2, <1>4, Typed, Constants DEF SyncJob
<1>8. SyncJob' = SyncJob
  BY DEF SyncJob
<1>9. [i \in SyncJob |-> last_call[i]]' = [[i \in SyncJob |-> last_call[i]] EXCEPT ![j] = time_tics]
  BY <1>7, <1>8
<1>10. Schedule!Call(j)
  BY <1>2, <1>6, <1>9 DEF Schedule!Call
<1> QED
  BY <1>10

\* The master moves the time on when all calls of the current time have been made, and never past
\* the next call.
LEMMA TickRefines ==
  ASSUME TypeOK, TypeOK', SyncInv, ScheduleInv, ScheduleInv', Steady, Undisturbed, AdvanceSimTime
  PROVE  Schedule!Tick \/ UNCHANGED Schedule!scheduleVars
<1>1. /\ pc[0] = "call" /\ curr_job[0] = AdvanceJob /\ ii > NumChild /\ time_tics' = NextTime
      /\ last_call' = [last_call EXCEPT ![AdvanceJob] = time_tics]
  BY DEF AdvanceSimTime
<1>2. PICK n \in Nat : n = NextTime
  BY <1>1, AllAhead DEF Steady
<1>3. /\ time_tics \in Nat /\ time_tics <= n /\ n <= TerminateTime /\ TerminateTime \in Nat
      /\ \A t \in Thread : InStep(t) => \A k \in 1 .. Len(JobQueue[t]) :
           JobQueue[t][k] # AdvanceJob => /\ ~Selected(JobQueue[t][k])
                                          /\ next_tics[JobQueue[t][k]] > time_tics
                                          /\ n <= next_tics[JobQueue[t][k]]
  BY <1>1, <1>2, AllAhead, Typed, Constants DEF Steady
<1>4. ASSUME NEW j \in SyncJob
      PROVE  /\ ~Selected(j) /\ next_tics[j] > time_tics /\ n <= next_tics[j]
             /\ last_call'[j] = last_call[j] /\ last_call[j] \in Int /\ next_tics[j] \in Nat
             /\ last_call[j] <= time_tics
             /\ \A m \in 0 .. TerminateTime : Schedule!DueAt(j, m) => m <= last_call[j] \/ m >= next_tics[j]
  <2>1. PICK t \in Thread : InStep(t) /\ j \in JobsOf(t)
    BY DEF SyncJob
  <2>2. PICK k \in 1 .. Len(JobQueue[t]) : JobQueue[t][k] = j
    BY <2>1 DEF JobsOf
  <2>3. j # AdvanceJob /\ j \in Job
    BY Constants, SystemJobs DEF SyncJob
  <2>4. ~Selected(j) /\ next_tics[j] > time_tics /\ n <= next_tics[j]
    BY <1>3, <2>1, <2>2, <2>3
  <2>5. last_call'[j] = last_call[j] /\ last_call[j] \in Int /\ next_tics[j] \in Nat
    BY <1>1, <2>3, Typed
  <2>6. JobHistory(j)
    BY DEF ScheduleInv, History
  <2> QED
    BY <2>4, <2>5, <2>6 DEF JobHistory, Handled, Due
<1>5. [j \in SyncJob |-> last_call[j]]' = [j \in SyncJob |-> last_call[j]]
  <2>1. SyncJob' = SyncJob
    BY DEF SyncJob
  <2> QED
    BY <1>4, <2>1
<1>6. CASE n = time_tics
  BY <1>1, <1>2, <1>5, <1>6 DEF Schedule!scheduleVars
<1>7. CASE n # time_tics
  <2>1. time_tics' \in (time_tics + 1) .. TerminateTime
    BY <1>1, <1>2, <1>3, <1>7
  <2>2. \A j \in SyncJob : Schedule!DueAt(j, time_tics) => last_call[j] = time_tics
    <3>1. time_tics \in 0 .. TerminateTime
      BY <1>3
    <3> QED
      BY <1>3, <1>4, <3>1
  <2>3. ASSUME NEW j \in SyncJob, NEW m \in (time_tics + 1) .. (n - 1)
        PROVE  ~Schedule!DueAt(j, m)
    <3>1. m \in 0 .. TerminateTime /\ m > time_tics /\ m < n /\ m \in Nat
      BY <1>3
    <3> QED
      BY <1>3, <1>4, <3>1
  <2>4. Schedule!NoneBetween(time_tics')
    BY <1>1, <1>2, <2>3 DEF Schedule!NoneBetween
  <2>5. \A j \in SyncJob : [i \in SyncJob |-> last_call[i]][j] = last_call[j]
    OBVIOUS
  <2> QED
    BY <1>5, <2>1, <2>2, <2>4, <2>5 DEF Schedule!Tick
<1> QED
  BY <1>6, <1>7

\* The last call of a job of the schedule changes, and the job becomes complete, only at the end of
\* its call.
LEMMA JobStep ==
  ASSUME TypeOK, Next, NEW d \in SyncJob,
         \A t \in Thread : ReturnFromJob(t) => curr_job[t] # d
  PROVE  last_call'[d] = last_call[d] /\ (complete'[d] => complete[d])
<1>1. /\ d \in Job /\ d \notin {AdvanceJob, FreezeJob, InputJob}
      /\ complete \in [Job -> BOOLEAN] /\ last_call \in [Job -> Int]
  BY SystemJobs, Constants, Typed DEF SyncJob, TypeOK, JobsOK
<1>2. ASSUME NEW t \in Thread, ReturnFromJob(t)
      PROVE  last_call'[d] = last_call[d] /\ (complete'[d] => complete[d])
  <2>1. PICK j \in Job : j = curr_job[t]
    BY Typed
  <2>2. j # d
    BY <1>2, <2>1
  <2>3. complete' = [complete EXCEPT ![j] = @ \/ MultiThread] /\ last_call' = [last_call EXCEPT ![j] = Now(t)]
    BY <1>2, <2>1 DEF ReturnFromJob
  <2> QED
    BY <1>1, <2>1, <2>2, <2>3
<1>3. CASE MarkIncomplete
  <2>1. /\ last_call' = last_call
        /\ complete' = complete \/ complete' = [j \in Job |-> complete[j] /\ ~ToRunNow(ii, j)]
    BY <1>3 DEF MarkIncomplete
  <2> QED
    BY <1>1, <2>1
<1>4. CASE AdvanceSimTime \/ SchedFreezeToExecCommand
  <2>1. \E j \in {AdvanceJob, FreezeJob} :
           /\ complete' = [complete EXCEPT ![j] = @ \/ MultiThread]
           /\ last_call' = [last_call EXCEPT ![j] = time_tics]
    BY <1>4 DEF AdvanceSimTime, SchedFreezeToExecCommand
  <2> QED
    BY <1>1, <2>1
<1>5. CASE InputProcessorRun
  <2>1. complete' = complete /\ (last_call' = last_call \/ last_call' = [last_call EXCEPT ![InputJob] = time_tics])
    BY <1>5 DEF InputProcessorRun
  <2> QED
    BY <1>1, <2>1
<1>6. CASE /\ MainStep
           /\ ~(ReturnFromJob(0) \/ MarkIncomplete \/ AdvanceSimTime \/ SchedFreezeToExecCommand \/ InputProcessorRun)
  <2>1. UNCHANGED <<last_call, complete>>
    BY <1>6 DEF MainStep, AwaitChildren, TestFreezeCmd, EnterFreeze, FreezeLoop,
        ClearFreezeLoopCmd, LeaveFreeze, TopOfFrame, ThreadSync,
        ArmThread, FireThread, FindNextJob, AwaitDepends, ScheduledThreadSync,
        EndMainSweep, CheckCommand, ClearRunCmd, CheckTerminate, EndOfFrame, Shutdown, jobVars
  <2> QED
    BY <2>1
<1>7. ASSUME NEW c \in Child, ChildStep(c), ~ReturnFromJob(c)
      PROVE  last_call'[d] = last_call[d] /\ (complete'[d] => complete[d])
  <2>1. UNCHANGED <<last_call, complete>>
    BY <1>7 DEF ChildStep, ChildStart, ChildWait, Dispatch, CatchUp, FindNextJob, GetNextJob,
                AwaitDepends, EndChildSweep, ChildComplete, jobVars
  <2> QED
    BY <2>1
<1>8. CASE CommandStep \/ Ended
  <2>1. UNCHANGED <<last_call, complete>>
    BY <1>8 DEF CommandStep, Freeze, FreezeAt, Run, StopCmd, SetJobOnOff, SetThreadEnabled, SetJobCycle,
                Command, Ended, vars, jobVars
  <2> QED
    BY <2>1
<1> QED
  BY <1>2, <1>3, <1>4, <1>5, <1>6, <1>7, <1>8, Threads DEF Next

\* No other step is seen by the schedule.
LEMMA OtherRefines ==
  ASSUME TypeOK, ScheduleInv, Next, ~AdvanceSimTime,
         \A t \in Thread : ReturnFromJob(t) => curr_job[t] \notin SyncJob
  PROVE  UNCHANGED Schedule!scheduleVars
<1>1. UNCHANGED time_tics
  BY SameTime
<1>2. SyncJob' = SyncJob
  BY DEF SyncJob
<1>3. \A j \in SyncJob : last_call'[j] = last_call[j]
  BY JobStep
<1>4. [j \in SyncJob |-> last_call[j]]' = [j \in SyncJob |-> last_call[j]]
  BY <1>2, <1>3
<1> QED
  BY <1>1, <1>4 DEF Schedule!scheduleVars

\* The master loop and the scheduled threads implement the schedule, however they interleave and
\* whenever they are frozen: no call is lost, repeated, early or late.
THEOREM Implements ==
  ASSUME Steady, StopsLater, "onoff" \notin Commands
  PROVE  Spec => ImplementsSchedule
<1>1. Init => Schedule!Init
  <2> SUFFICES ASSUME Init
               PROVE  Schedule!Init
    OBVIOUS
  <2>1. time_tics = 0 /\ \A j \in SyncJob : last_call[j] = -1
    BY Constants DEF Init, SyncJob
  <2>2. [j \in SyncJob |-> last_call[j]] = [j \in SyncJob |-> -1]
    BY <2>1
  <2> QED
    BY <2>1, <2>2 DEF Schedule!Init
<1>2. TypeOK /\ TypeOK' /\ SyncInv /\ ScheduleInv /\ ScheduleInv' /\ [Next]_vars
        => [Schedule!Next]_Schedule!scheduleVars
  <2> SUFFICES ASSUME TypeOK, TypeOK', SyncInv, ScheduleInv, ScheduleInv', [Next]_vars
               PROVE  Schedule!Next \/ UNCHANGED Schedule!scheduleVars
    OBVIOUS
  <2>1. Undisturbed
    BY DEF Undisturbed
  <2>2. CASE UNCHANGED vars
    <3>1. UNCHANGED <<time_tics, last_call>> /\ SyncJob' = SyncJob
      BY <2>2 DEF vars, clockVars, jobVars, SyncJob
    <3>2. [j \in SyncJob |-> last_call[j]]' = [j \in SyncJob |-> last_call[j]]
      BY <3>1
    <3> QED
      BY <3>1, <3>2 DEF Schedule!scheduleVars
  <2>3. CASE AdvanceSimTime
    BY <2>1, <2>3, TickRefines DEF Schedule!Next
  <2>4. ASSUME NEW t \in Thread, ReturnFromJob(t), curr_job[t] \in SyncJob
        PROVE  Schedule!Next
    <3>1. PICK j \in SyncJob : Schedule!Call(j)
      BY <2>1, <2>4, CallRefines
    <3> QED
      BY <3>1 DEF Schedule!Next
  <2>5. CASE Next /\ ~AdvanceSimTime /\ \A t \in Thread : ReturnFromJob(t) => curr_job[t] \notin SyncJob
    BY <2>5, OtherRefines
  <2> QED
    BY <2>2, <2>3, <2>4, <2>5
<1>3. Spec => []SyncInv
  BY SyncInvariant DEF Steady
<1> QED
  BY <1>1, <1>2, <1>3, ScheduleHolds, TypeCorrect, PTL DEF Spec, ImplementsSchedule, Schedule!Spec

--------------------------------------------------------------------------------
(***************************************************************************)
(* The abstract schedule misses no call, so neither does the executive.    *)
(***************************************************************************)
\* The executive gives the schedule constants it bears.
LEMMA ScheduleAssumed == Schedule!ScheduleAssumption
<1>1. \A j \in SyncJob : /\ j \in UserJob /\ j \in Job /\ FirstCall(j) \in Nat
                         /\ Cycle[j] \in Nat \ {0} /\ Stop[j] \in Nat
  BY Constants DEF SyncJob
<1> QED
  BY <1>1, Constants DEF Schedule!ScheduleAssumption

\* The types of the schedule, as far as the proof needs them.
ScheduleTypeOK == time_tics \in Nat /\ \A j \in SyncJob : last_call[j] \in Int

\* The parts of NoCallMissed, for one job; when a call is due does not change.
DueFor(j, n) == n >= FirstCall(j) /\ n <= Stop[j] /\ (n - FirstCall(j)) % Cycle[j] = 0
UpToNow(j) == \A n \in 0 .. (time_tics - 1) : DueFor(j, n) => last_call[j] >= n
DueOnly(j) == last_call[j] # -1 => DueFor(j, last_call[j]) /\ last_call[j] <= time_tics

\* The two descriptions of the times of a job are one.
LEMMA DueForIsDue == \A j \in SyncJob : \A n : Schedule!DueAt(j, n) <=> DueFor(j, n)
BY DEF Schedule!DueAt, DueFor

\* The property, job by job, now and after a step.
LEMMA NoCallMissedParts ==
  /\ Schedule!NoCallMissed <=> \A j \in SyncJob : UpToNow(j) /\ DueOnly(j)
  /\ Schedule!NoCallMissed' <=> \A j \in SyncJob : UpToNow(j)' /\ DueOnly(j)'
<1>1. SyncJob' = SyncJob
  BY DEF SyncJob
<1>2. Schedule!NoCallMissed <=> \A j \in SyncJob : UpToNow(j) /\ DueOnly(j)
  BY DEF Schedule!NoCallMissed, Schedule!DueAt, UpToNow, DueOnly, DueFor
<1>3. Schedule!NoCallMissed' <=> \A j \in SyncJob : UpToNow(j)' /\ DueOnly(j)'
  BY <1>1 DEF Schedule!NoCallMissed, Schedule!DueAt, UpToNow, DueOnly, DueFor
<1> QED
  BY <1>2, <1>3

\* A number after a and before b is between them.
LEMMA Between ==
  ASSUME NEW a \in Nat, NEW b \in Nat, NEW n \in 0 .. (b - 1), n > a
  PROVE  n \in (a + 1) .. (b - 1)
OBVIOUS

\* A step of the schedule misses no call.
LEMMA ScheduleSteps ==
  ASSUME ScheduleTypeOK, Schedule!NoCallMissed, [Schedule!Next]_Schedule!scheduleVars,
         \A j \in SyncJob : last_call'[j] \in Int
  PROVE  ScheduleTypeOK' /\ Schedule!NoCallMissed'
<1> DEFINE last == [j \in SyncJob |-> last_call[j]]
<1>0. SyncJob' = SyncJob /\ \A j \in SyncJob : last[j] = last_call[j] /\ last'[j] = last_call'[j]
  BY DEF SyncJob
<1>1. CASE UNCHANGED Schedule!scheduleVars
  <2>1. time_tics' = time_tics /\ last' = last
    BY <1>1 DEF Schedule!scheduleVars
  <2>2. \A j \in SyncJob : last_call'[j] = last_call[j]
    BY <2>1, <1>0
  <2>3. ASSUME NEW j \in SyncJob PROVE UpToNow(j)' /\ DueOnly(j)'
    BY <2>1, <2>2, <2>3, NoCallMissedParts DEF UpToNow, DueOnly
  <2> QED
    BY <2>1, <2>3, <1>0, NoCallMissedParts DEF ScheduleTypeOK
<1>2. CASE Schedule!Tick
  <2>1. /\ time_tics' \in Nat /\ time_tics' > time_tics /\ last' = last
        /\ \A j \in SyncJob : DueFor(j, time_tics) => last_call[j] = time_tics
        /\ \A j \in SyncJob : \A m \in (time_tics + 1) .. (time_tics' - 1) : ~DueFor(j, m)
    <3>1. time_tics' \in (time_tics + 1) .. TerminateTime /\ last' = last
      BY <1>2 DEF Schedule!Tick
    <3>2. \A j \in SyncJob : DueFor(j, time_tics) => last[j] = time_tics
      BY <1>2, DueForIsDue DEF Schedule!Tick
    <3>3. \A j \in SyncJob : \A m \in (time_tics + 1) .. (time_tics' - 1) : ~DueFor(j, m)
      BY <1>2, DueForIsDue DEF Schedule!Tick, Schedule!NoneBetween
    <3>4. \A j \in SyncJob : DueFor(j, time_tics) => last_call[j] = time_tics
      BY <3>2, <1>0
    <3>5. time_tics' \in Nat /\ time_tics' > time_tics
      BY <3>1, Constants DEF ScheduleTypeOK
    <3> QED
      BY <3>1, <3>3, <3>4, <3>5
  <2>2. \A j \in SyncJob : last_call'[j] = last_call[j]
    BY <2>1, <1>0
  <2>3. ASSUME NEW j \in SyncJob, NEW n \in 0 .. (time_tics' - 1), DueFor(j, n)
        PROVE  last_call[j] >= n
    <3>1. CASE n < time_tics
      BY <3>1, <2>3, NoCallMissedParts DEF UpToNow, ScheduleTypeOK
    <3>2. CASE n = time_tics
      BY <3>2, <2>1, <2>3 DEF ScheduleTypeOK
    <3>3. CASE n > time_tics
      <4>1. n \in (time_tics + 1) .. (time_tics' - 1)
        <5>1. time_tics \in Nat /\ time_tics' \in Nat /\ n \in 0 .. (time_tics' - 1)
          BY <2>1, <2>3 DEF ScheduleTypeOK
        <5> QED
          BY <3>3, <5>1, Between
      <4> QED
        BY <4>1, <2>1, <2>3
    <3> QED
      BY <3>1, <3>2, <3>3, <2>1 DEF ScheduleTypeOK
  <2>4. ASSUME NEW j \in SyncJob PROVE UpToNow(j)' /\ DueOnly(j)'
    <3>1. UpToNow(j)'
      BY <2>2, <2>3 DEF UpToNow
    <3>2. DueOnly(j)'
      BY <2>1, <2>2, NoCallMissedParts DEF DueOnly, ScheduleTypeOK
    <3> QED
      BY <3>1, <3>2
  <2> QED
    BY <2>1, <2>2, <2>4, <1>0, NoCallMissedParts DEF ScheduleTypeOK
<1>3. ASSUME NEW i \in SyncJob, Schedule!Call(i)
      PROVE  ScheduleTypeOK' /\ Schedule!NoCallMissed'
  <2>1. /\ DueFor(i, time_tics) /\ last[i] < time_tics
        /\ last' = [last EXCEPT ![i] = time_tics] /\ time_tics' = time_tics
    BY <1>3, DueForIsDue DEF Schedule!Call
  <2>2. /\ last_call[i] < time_tics /\ last_call'[i] = time_tics
        /\ \A j \in SyncJob : j # i => last_call'[j] = last_call[j]
    BY <2>1, <1>0
  <2>3. ASSUME NEW j \in SyncJob PROVE UpToNow(j)' /\ DueOnly(j)'
    <3>1. UpToNow(j) /\ DueOnly(j)
      BY NoCallMissedParts
    <3>2. CASE j = i
      BY <3>1, <3>2, <2>1, <2>2 DEF UpToNow, DueOnly, ScheduleTypeOK
    <3>3. CASE j # i
      BY <3>1, <3>3, <2>1, <2>2 DEF UpToNow, DueOnly, ScheduleTypeOK
    <3> QED
      BY <3>2, <3>3
  <2> QED
    BY <2>1, <2>3, <1>0, NoCallMissedParts DEF ScheduleTypeOK
<1> QED
  BY <1>1, <1>2, <1>3 DEF Schedule!Next

\* Every call of every job of the master and of the scheduled threads up to the current time has been
\* made, those of the current time may still be under way, and no job ran at another time:
\* what the executive promises with its schedule.
THEOREM NoCallIsMissed ==
  ASSUME Steady, StopsLater, "onoff" \notin Commands
  PROVE  Spec => []Schedule!NoCallMissed
<1>0. \A j \in SyncJob : j \in Job
  BY Constants DEF SyncJob
<1>1. TypeOK => ScheduleTypeOK
  BY <1>0, Typed DEF ScheduleTypeOK
<1>2. TypeOK /\ Schedule!Init => Schedule!NoCallMissed
  BY <1>1, ScheduleAssumed
  DEF Schedule!Init, Schedule!NoCallMissed, ScheduleTypeOK
<1>3. TypeOK /\ TypeOK' /\ Schedule!NoCallMissed /\ [Schedule!Next]_Schedule!scheduleVars
        => Schedule!NoCallMissed'
  <2> SUFFICES ASSUME TypeOK, TypeOK', Schedule!NoCallMissed, [Schedule!Next]_Schedule!scheduleVars
               PROVE  Schedule!NoCallMissed'
    OBVIOUS
  <2>1. \A j \in SyncJob : last_call'[j] \in Int
    BY <1>0 DEF TypeOK, JobsOK
  <2> QED
    BY <1>1, <2>1, ScheduleSteps
<1>4. Schedule!Spec /\ []TypeOK => []Schedule!NoCallMissed
  BY <1>2, <1>3, PTL DEF Schedule!Spec
<1> QED
  BY <1>4, Implements, TypeCorrect, PTL DEF ImplementsSchedule

--------------------------------------------------------------------------------
(***************************************************************************)
(* A job is called after the jobs it depends on.                           *)
(***************************************************************************)
\* The jobs of a thread are marked in its iteration of the second loop of thread_sync, and stay
\* marked until the time moves on.
LEMMA MarkedStep ==
  ASSUME TypeOK, Next, NumChild > 0, NEW t \in Thread, Marked(t)'
  PROVE  Marked(t) \/ (MarkIncomplete /\ ii = t /\ ii <= NumChild)
<1>0. ii \in Nat /\ t \in Nat /\ NumChild \in Nat /\ t <= NumChild
  BY Typed, TriggerAssumption DEF Thread
<1>1. CASE ThreadSync
  <2>1. pc'[0] \in {"sync", "mark"} /\ (pc'[0] = "mark" => ii' = 0)
    BY <1>1, MasterAt DEF ThreadSync, MainPC
  <2> QED
    BY <1>0, <2>1 DEF Marked, InSweep
<1>2. CASE MarkIncomplete
  <2>1. pc[0] = "mark"
    BY <1>2 DEF MarkIncomplete
  <2>2. CASE ii <= NumChild
    <3>1. pc'[0] = "mark" /\ ii' = ii + 1
      BY <1>0, <1>2, <2>1, <2>2 DEF MarkIncomplete
    <3>2. t < ii + 1
      BY <3>1 DEF Marked, InSweep
    <3>3. t < ii \/ ii = t
      BY <1>0, <3>2
    <3> QED
      BY <1>2, <2>1, <2>2, <3>3 DEF Marked
  <2>3. CASE ii > NumChild
    BY <1>0, <2>1, <2>3 DEF Marked
  <2> QED
    BY <1>0, <2>2, <2>3
<1>3. CASE InputProcessorRun \/ ArmThread \/ FireThread
  BY <1>3 DEF InputProcessorRun, ArmThread, FireThread, Marked
<1>4. CASE FindNextJob(0)
  <2>1. /\ pc[0] = "sweep" /\ ~AtEnd(0) /\ curr_index' = [curr_index EXCEPT ![0] = @ + 1]
        /\ \/ pc' = pc
           \/ Goto(0, "depend") /\ curr_job' = [curr_job EXCEPT ![0] = JobQueue[0][curr_index[0]]]
    BY <1>4 DEF FindNextJob
  <2>2. curr_index'[0] = curr_index[0] + 1 /\ curr_index[0] \in 1 .. Len(JobQueue[0])
    BY <2>1, Typed, Threads, CursorInQueue
  <2>3. pc'[0] = "sweep" \/ (pc'[0] = "depend" /\ curr_job'[0] = JobQueue[0][curr_index[0]])
    BY <2>1, MasterAt, Typed, Threads DEF MainPC
  <2>4. AdvanceAhead'
    BY <2>3 DEF Marked, InSweep
  <2>5. AdvanceAhead
    <3>1. Len(JobQueue[0]) \in Nat
      BY QueuedJobs, Threads
    <3>2. \E k \in curr_index[0] .. Len(JobQueue[0]) : JobQueue[0][k] = AdvanceJob
      <4>1. CASE \E k \in curr_index'[0] .. Len(JobQueue[0]) : JobQueue[0][k] = AdvanceJob
        BY <2>2, <3>1, <4>1
      <4>2. CASE pc'[0] \in {"depend", "call"} /\ curr_job'[0] = AdvanceJob
        BY <2>2, <2>3, <3>1, <4>2
      <4> QED
        BY <2>4, <4>1, <4>2 DEF AdvanceAhead
    <3> QED
      BY <3>2 DEF AdvanceAhead
  <2> QED
    BY <2>1, <2>5 DEF Marked, InSweep
<1>5. CASE AwaitDepends(0) \/ ReturnFromJob(0) \/ ScheduledThreadSync \/ AdvanceSimTime \/ SchedFreezeToExecCommand
  <2>1. /\ pc[0] \in {"depend", "call"} /\ curr_index' = curr_index /\ curr_job' = curr_job
        /\ pc'[0] \in {"sweep", "depend", "call"}
    BY <1>5, MasterAt DEF AwaitDepends, ReturnFromJob, ScheduledThreadSync, AdvanceSimTime,
                          SchedFreezeToExecCommand, MainPC, queueVars, callVars
  <2>2. AdvanceAhead' => AdvanceAhead
    BY <2>1 DEF AdvanceAhead
  <2> QED
    BY <2>1, <2>2 DEF Marked, InSweep
<1>6. CASE \/ AwaitChildren \/ TestFreezeCmd \/ EnterFreeze \/ FreezeLoop \/ ClearFreezeLoopCmd
           \/ LeaveFreeze \/ TopOfFrame \/ EndMainSweep \/ CheckCommand \/ ClearRunCmd \/ CheckTerminate
           \/ EndOfFrame \/ Shutdown
  <2>1. CASE AwaitChildren \/ TestFreezeCmd \/ EnterFreeze \/ FreezeLoop \/ ClearFreezeLoopCmd \/ LeaveFreeze
    <3>1. pc'[0] \in {"init", "loop", "clear", "freeze", "resume", "refreeze", "unfreeze", "top", "shutdown"}
      BY <2>1, MasterAt DEF AwaitChildren, TestFreezeCmd, EnterFreeze, FreezeLoop, ClearFreezeLoopCmd,
                            LeaveFreeze, MainPC
    <3> QED
      BY <3>1 DEF Marked, InSweep
  <2>2. CASE TopOfFrame
    BY <2>2, MasterAt DEF TopOfFrame, MultiThread, MainPC, Marked, InSweep
  <2>3. CASE EndMainSweep \/ CheckCommand \/ ClearRunCmd \/ CheckTerminate \/ EndOfFrame
    <3>1. pc'[0] \in {"check", "clearrun", "term", "eof", "loop", "shutdown"}
      BY <2>3, MasterAt DEF EndMainSweep, CheckCommand, ClearRunCmd, CheckTerminate, EndOfFrame, MainPC
    <3> QED
      BY <3>1 DEF Marked, InSweep
  <2>4. CASE Shutdown
    BY <2>4, Threads DEF Shutdown, Marked, InSweep
  <2> QED
    BY <1>6, <2>1, <2>2, <2>3, <2>4
<1>7. ASSUME pc'[0] = pc[0], curr_index'[0] = curr_index[0], curr_job'[0] = curr_job[0], ii' = ii
      PROVE  Marked(t)
  BY <1>7 DEF Marked, InSweep, AdvanceAhead
<1>8. ASSUME NEW c \in Child, ChildStep(c)
      PROVE  Marked(t)
  <2>1. c \in Thread /\ c # 0
    BY Threads
  <2>2. UNCHANGED pc \/ \E l \in ChildPC : Goto(c, l)
    BY <1>8 DEF ChildStep, ChildStart, ChildWait, Dispatch, CatchUp, FindNextJob, GetNextJob,
                AwaitDepends, ReturnFromJob, EndChildSweep, ChildComplete, ChildPC
  <2>3. pc'[0] = pc[0]
    BY <2>2, ChildMoves DEF TypeOK
  <2>4. ii' = ii
    BY <1>8, <2>1 DEF ChildStep, ChildStart, ChildWait, Dispatch, CatchUp, FindNextJob, GetNextJob,
                AwaitDepends, ReturnFromJob, EndChildSweep, ChildComplete
  <2>5. curr_index' = curr_index \/ \E n : curr_index' = [curr_index EXCEPT ![c] = n]
    BY <1>8 DEF ChildStep, ChildStart, ChildWait, Dispatch, CatchUp, FindNextJob,
         GetNextJob, AwaitDepends, ReturnFromJob, EndChildSweep, ChildComplete, queueVars
  <2>6. curr_job' = curr_job \/ \E j : curr_job' = [curr_job EXCEPT ![c] = j]
    BY <1>8 DEF ChildStep, ChildStart, ChildWait, Dispatch, CatchUp, FindNextJob,
         GetNextJob, AwaitDepends, ReturnFromJob, EndChildSweep, ChildComplete, callVars
  <2>7. curr_index'[0] = curr_index[0] /\ curr_job'[0] = curr_job[0]
    BY <2>1, <2>5, <2>6, Threads, Typed
  <2> QED
    BY <1>7, <2>3, <2>4, <2>7
<1>9. CASE CommandStep \/ Ended
  BY <1>7, <1>9 DEF CommandStep, Freeze, FreezeAt, Run, StopCmd, SetJobOnOff, SetThreadEnabled, SetJobCycle,
                    Command, Ended, vars, queueVars, callVars
<1> QED
  BY <1>1, <1>2, <1>3, <1>4, <1>5, <1>6, <1>8, <1>9 DEF Next, MainStep

\* A job that is still complete after its thread was marked has no call at this time, or has been called.
LEMMA MarkDone ==
  ASSUME Steady, Undisturbed, TypeOK, SyncInv, ScheduleInv, MarkIncomplete, ii \in Thread, ii <= NumChild, InStep(ii),
         NEW d \in JobsOf(ii) \cap SyncJob, complete'[d]
  PROVE  DoneNow(d)
<1>1. d \in Job /\ d # AdvanceJob /\ pc[0] = "mark"
  BY SystemJobs, Constants DEF SyncJob, MarkIncomplete
<1>2. PICK k \in 1 .. Len(JobQueue[ii]) : JobQueue[ii][k] = d
  BY DEF JobsOf
<1>3. ii = 0 \/ isThreadReadyToRun(ii)
  BY Threads DEF InStep, SyncInv, AllEnabled, isThreadReadyToRun
<1>4. ~disabled[d] /\ JobHistory(d)
  BY <1>1 DEF ScheduleInv, History
<1>5. complete' = [j \in Job |-> complete[j] /\ ~ToRunNow(ii, j)]
  <2>1. ii \in Nat /\ NumChild \in Nat
    BY Typed, TriggerAssumption
  <2>2. ~(ii > NumChild)
    BY <2>1
  <2> QED
    BY <1>3, <2>2 DEF MarkIncomplete
<1>6. ~ToRunNow(ii, d)
  BY <1>1, <1>5
<1>7. next_tics[d] # time_tics
  BY <1>4, <1>6 DEF ToRunNow
<1>8. next_tics[d] >= time_tics
  BY <1>1, <1>2 DEF ScheduleInv, CallsAhead, JobAhead
<1>9. ~Selected(d)
  BY <1>1, NoneSelected DEF ScheduleInv, Steady
<1>10. /\ time_tics \in Nat /\ TerminateTime \in Nat /\ time_tics <= TerminateTime
       /\ last_call[d] \in Int /\ next_tics[d] \in Nat
  BY <1>1, Typed, Constants DEF ScheduleInv, FrameInv
<1>11. last_call[d] <= time_tics /\ \A n \in 0 .. TerminateTime : Due(d, n) => n <= last_call[d] \/ n >= next_tics[d]
  BY <1>4, <1>9 DEF JobHistory, Handled
<1> QED
  BY <1>7, <1>8, <1>10, <1>11 DEF DoneNow

\* When a thread in step runs a job that does not come after the advance of the time, the jobs of all
\* threads have been marked for this time.
LEMMA AllMarked ==
  ASSUME Steady, TypeOK, SyncInv, ScheduleInv, StartsIdle,
         NEW t \in Thread, InStep(t), pc[t] \in {"depend", "call"}, ~IsTail(curr_job[t]), NEW u \in Thread
  PROVE  Marked(u)
<1>1. CASE t = 0
  <2>1. /\ curr_index[0] > 1 /\ JobQueue[0][curr_index[0] - 1] = curr_job[0]
        /\ curr_index[0] - 1 \in 1 .. Len(JobQueue[0]) /\ curr_index[0] \in Nat
    BY <1>1, Threads, QueuedJobs DEF ScheduleInv, CursorBehind, TypeOK, QueuesOK
  <2>2. PICK p \in 1 .. Len(JobQueue[0]) :
           /\ \A k \in 1 .. Len(JobQueue[0]) : (IsTail(JobQueue[0][k]) <=> k > p)
                                              /\ (JobQueue[0][k] = AdvanceJob <=> k = p)
           /\ AdvanceAhead <=> p >= curr_index[0] \/ (pc[0] \in {"depend", "call"} /\ curr_job[0] = AdvanceJob)
    BY AdvancePlace DEF Steady
  <2>3. ~(curr_index[0] - 1 > p)
    BY <1>1, <2>1, <2>2
  <2>4. p \in Nat /\ (curr_index[0] - 1 = p \/ p >= curr_index[0])
    BY <2>1, <2>3, QueuedJobs, Threads
  <2>5. AdvanceAhead
    BY <1>1, <2>1, <2>2, <2>4
  <2> QED
    BY <1>1, <2>5 DEF Marked, InSweep
<1>2. CASE t # 0
  <2>1. t \in Child /\ ProcessType[t] = "SCHEDULED"
    BY <1>2, Threads DEF InStep
  <2>2. ~child_complete[t]
    BY <2>1 DEF SyncInv, Handshake, InHand
  <2>3. ~ScheduledDone(t)
    BY <2>1, <2>2 DEF SyncInv, Phases
  <2>4. pc[0] # "init"
    BY <2>1, <2>2 DEF StartsIdle
  <2> QED
    BY <2>3, <2>4 DEF ScheduledDone, Marked, InSweep
<1> QED
  BY <1>1, <1>2

\* What a thread does between taking a job and calling it.
LEMMA DependMoves ==
  ASSUME TypeOK, Next, ~AdvanceSimTime, NEW t \in Thread, pc'[t] \in {"depend", "call"}
  PROVE  \/ pc'[t] = pc[t] /\ curr_job'[t] = curr_job[t] /\ dep_index'[t] = dep_index[t]
         \/ AwaitDepends(t)
         \/ pc'[t] = "depend" /\ dep_index'[t] = 1
<1>0. dep_index \in [Thread -> Nat \ {0}] /\ pc \in [Thread -> MainPC \cup ChildPC] /\ curr_job \in [Thread -> Job]
  BY DEF TypeOK, QueuesOK, ControlOK
<1>1. ASSUME NEW u \in Thread, FindNextJob(u) \/ GetNextJob(u)
      PROVE  \/ pc'[t] = pc[t] /\ curr_job'[t] = curr_job[t] /\ dep_index'[t] = dep_index[t]
             \/ pc'[t] = "depend" /\ dep_index'[t] = 1
  <2>1. \/ UNCHANGED <<pc, curr_job, dep_index>>
        \/ /\ pc' = [pc EXCEPT ![u] = "depend"] /\ dep_index' = [dep_index EXCEPT ![u] = 1]
           /\ \E j : curr_job' = [curr_job EXCEPT ![u] = j]
    BY <1>1 DEF FindNextJob, GetNextJob, Goto, callVars
  <2> QED
    BY <1>0, <2>1
<1>2. ASSUME NEW u \in Thread, u # t, AwaitDepends(u)
      PROVE  pc'[t] = pc[t] /\ curr_job'[t] = curr_job[t] /\ dep_index'[t] = dep_index[t]
  <2>1. /\ pc' = pc \/ pc' = [pc EXCEPT ![u] = "call"]
        /\ dep_index' = dep_index \/ dep_index' = [dep_index EXCEPT ![u] = @ + 1]
        /\ curr_job' = curr_job
    BY <1>2 DEF AwaitDepends, Goto
  <2> QED
    BY <1>0, <1>2, <2>1
<1>3. ASSUME UNCHANGED callVars,
             pc' = pc \/ \E u \in Thread, l \in (MainPC \cup ChildPC) \ {"depend", "call"} : Goto(u, l)
      PROVE  pc'[t] = pc[t] /\ curr_job'[t] = curr_job[t] /\ dep_index'[t] = dep_index[t]
  <2>1. pc'[t] = pc[t]
    BY <1>0, <1>3 DEF Goto
  <2> QED
    BY <1>3, <2>1 DEF callVars
<1>4. ASSUME NEW u \in Thread, ReturnFromJob(u)
      PROVE  pc'[t] = pc[t] /\ curr_job'[t] = curr_job[t] /\ dep_index'[t] = dep_index[t]
  BY <1>3, <1>4 DEF ReturnFromJob, MainPC
<1>5. CASE /\ MainStep
           /\ ~(FindNextJob(0) \/ AwaitDepends(0) \/ ReturnFromJob(0) \/ AdvanceSimTime \/ Shutdown)
  <2>1. UNCHANGED callVars
    BY <1>5 DEF MainStep, AwaitChildren, TestFreezeCmd, EnterFreeze, FreezeLoop,
        ClearFreezeLoopCmd, LeaveFreeze, TopOfFrame, ThreadSync, MarkIncomplete, InputProcessorRun,
        ArmThread, FireThread, ScheduledThreadSync, SchedFreezeToExecCommand,
        EndMainSweep, CheckCommand, ClearRunCmd, CheckTerminate, EndOfFrame
  <2>2. pc' = pc \/ \E l \in (MainPC \cup ChildPC) \ {"depend", "call"} : Goto(0, l)
    BY <1>5 DEF MainStep, AwaitChildren, TestFreezeCmd, EnterFreeze, FreezeLoop,
        ClearFreezeLoopCmd, LeaveFreeze, TopOfFrame, ThreadSync, MarkIncomplete, InputProcessorRun,
        ArmThread, FireThread, ScheduledThreadSync, SchedFreezeToExecCommand,
        EndMainSweep, CheckCommand, ClearRunCmd, CheckTerminate, EndOfFrame, MainPC
  <2> QED
    BY <1>3, <2>1, <2>2, Threads
<1>6. CASE Shutdown
  BY <1>6, <1>0 DEF Shutdown, callVars
<1>7. ASSUME NEW c \in Child, ChildStep(c), ~(FindNextJob(c) \/ GetNextJob(c) \/ AwaitDepends(c) \/ ReturnFromJob(c))
      PROVE  pc'[t] = pc[t] /\ curr_job'[t] = curr_job[t] /\ dep_index'[t] = dep_index[t]
  <2>1. UNCHANGED callVars
    BY <1>7 DEF ChildStep, ChildStart, ChildWait, Dispatch, CatchUp, EndChildSweep, ChildComplete
  <2>2. pc' = pc \/ \E l \in (MainPC \cup ChildPC) \ {"depend", "call"} : Goto(c, l)
    BY <1>7 DEF ChildStep, ChildStart, ChildWait, Dispatch, CatchUp, EndChildSweep, ChildComplete, ChildPC
  <2> QED
    BY <1>3, <2>1, <2>2, Threads
<1>8. CASE CommandStep \/ Ended
  BY <1>8 DEF CommandStep, Freeze, FreezeAt, Run, StopCmd, SetJobOnOff, SetThreadEnabled, SetJobCycle,
              Command, Ended, vars, callVars
<1> QED
  BY <1>1, <1>2, <1>4, <1>5, <1>6, <1>7, <1>8, Threads DEF Next, MainStep, ChildStep

\* A job that is done at this time stays so until the time moves on.
LEMMA DoneStays ==
  ASSUME Steady, TypeOK, SyncInv, ScheduleInv, Next, ~AdvanceSimTime, NEW d \in SyncJob,
         DoneNow(d) \/ \E u \in Thread : ReturnFromJob(u) /\ curr_job[u] = d
  PROVE  DoneNow(d)'
<1>1. time_tics' = time_tics
  BY SameTime
<1>2. ASSUME NEW u \in Thread, ReturnFromJob(u), curr_job[u] = d
      PROVE  last_call'[d] = time_tics
  <2>1. pc[u] = "call" /\ last_call' = [last_call EXCEPT ![d] = Now(u)]
    BY <1>2 DEF ReturnFromJob
  <2>2. InStep(u)
    BY <1>2, <2>1, RunsInStep DEF Steady, ScheduleInv
  <2>3. Now(u) = time_tics
    BY <2>1, <2>2, InStepTime DEF InSweep
  <2>4. d \in Job
    BY Constants DEF SyncJob
  <2> QED
    BY <2>1, <2>3, <2>4, Typed
<1>3. CASE \E u \in Thread : ReturnFromJob(u) /\ curr_job[u] = d
  BY <1>1, <1>2, <1>3 DEF DoneNow
<1>4. CASE DoneNow(d) /\ \A u \in Thread : ReturnFromJob(u) => curr_job[u] # d
  <2>1. last_call'[d] = last_call[d]
    BY <1>4, JobStep
  <2> QED
    BY <1>1, <1>4, <2>1 DEF DoneNow, Due, Schedule!DueAt
<1> QED
  BY <1>3, <1>4

\* When the time has moved on, the marks of the time before are gone and nobody runs a job.
LEMMA AdvanceClears ==
  ASSUME Steady, TypeOK, TypeOK', SyncInv, ScheduleInv, AdvanceSimTime, NEW t \in Thread, InStep(t)
  PROVE  ~Marked(t)' /\ pc'[t] \notin {"depend", "call"}
<1>1. /\ pc[0] = "call" /\ curr_job[0] = AdvanceJob /\ ii > NumChild
      /\ pc'[0] = "sweep" /\ (\A c \in Child : pc'[c] = pc[c])
      /\ curr_index' = curr_index /\ curr_job' = curr_job
  BY MasterAt DEF AdvanceSimTime, MainPC, callVars
<1>2. /\ curr_index[0] > 1 /\ JobQueue[0][curr_index[0] - 1] = AdvanceJob
      /\ curr_index[0] - 1 \in 1 .. Len(JobQueue[0]) /\ curr_index[0] \in Nat
  <2>1. curr_index[0] > 1 /\ JobQueue[0][curr_index[0] - 1] = AdvanceJob
    BY <1>1, Threads DEF ScheduleInv, CursorBehind
  <2>2. curr_index[0] \in Nat /\ curr_index[0] \in 1 .. Len(JobQueue[0]) + 1 /\ Len(JobQueue[0]) \in Nat
    BY Threads, QueuedJobs DEF TypeOK, QueuesOK
  <2> QED
    BY <2>1, <2>2
<1>3. PICK p \in 1 .. Len(JobQueue[0]) :
         \A k \in 1 .. Len(JobQueue[0]) : JobQueue[0][k] = AdvanceJob <=> k = p
  BY AdvancePlace DEF Steady
<1>4. ~AdvanceAhead'
  <2>1. curr_index[0] - 1 = p /\ Len(JobQueue[0]) \in Nat
    BY <1>2, <1>3, Threads, QueuedJobs
  <2>2. ~\E k \in curr_index[0] .. Len(JobQueue[0]) : JobQueue[0][k] = AdvanceJob
    BY <1>2, <1>3, <2>1
  <2> QED
    BY <1>1, <2>2 DEF AdvanceAhead
<1>5. ASSUME t \in Child
      PROVE  pc'[t] \notin {"depend", "call"}
  <2>1. ProcessType[t] = "SCHEDULED"
    BY <1>5, Threads DEF InStep
  <2> QED
    BY <1>1, <1>5, <2>1, ChildrenDone
<1> QED
  BY <1>1, <1>4, <1>5, Threads DEF Marked, InSweep

\* No child is at work before the master begins its loop.
LEMMA StartsIdleStep ==
  ASSUME TypeOK, StartsIdle, Next
  PROVE  StartsIdle'
<1> SUFFICES ASSUME pc'[0] = "init", NEW c \in Child
             PROVE  pc'[c] = "start" \/ child_complete'[c]
  BY DEF StartsIdle
<1>0. pc \in [Thread -> MainPC \cup ChildPC] /\ child_complete \in [Child -> BOOLEAN] /\ c \in Thread /\ c # 0
  BY Typed, Threads
<1>1. CASE AwaitChildren
  <2>1. pc' = pc
    BY <1>1, MasterAt DEF AwaitChildren, MainPC
  <2> QED
    BY <1>1, <2>1 DEF AwaitChildren, childVars, StartsIdle
<1>2. CASE MainStep /\ ~AwaitChildren
  <2>1. pc'[0] # "init"
    <3>1. CASE \/ TestFreezeCmd \/ EnterFreeze \/ FreezeLoop \/ ClearFreezeLoopCmd
               \/ LeaveFreeze \/ TopOfFrame \/ InputProcessorRun
               \/ ArmThread \/ FireThread \/ EndMainSweep
               \/ CheckCommand \/ ClearRunCmd \/ CheckTerminate \/ EndOfFrame
      BY <3>1, MasterAt DEF TestFreezeCmd, EnterFreeze, FreezeLoop,
         ClearFreezeLoopCmd, LeaveFreeze, TopOfFrame, InputProcessorRun,
         ArmThread, FireThread, EndMainSweep, CheckCommand, ClearRunCmd, CheckTerminate, EndOfFrame, MainPC
    <3>2. CASE ThreadSync \/ MarkIncomplete \/ Shutdown
      BY <3>2, MasterAt, Threads DEF ThreadSync, MarkIncomplete, Shutdown, MainPC
    <3>3. CASE \/ FindNextJob(0) \/ AwaitDepends(0) \/ ReturnFromJob(0)
               \/ ScheduledThreadSync \/ AdvanceSimTime \/ SchedFreezeToExecCommand
      BY <3>3, MasterAt DEF FindNextJob, AwaitDepends, ReturnFromJob, ScheduledThreadSync,
         AdvanceSimTime, SchedFreezeToExecCommand, MainPC
    <3> QED
      BY <1>2, <3>1, <3>2, <3>3 DEF MainStep
  <2> QED
    BY <2>1
<1>3. ASSUME NEW u \in Child, ChildStep(u)
      PROVE  pc'[c] = "start" \/ child_complete'[c]
  <2>0. u \in Thread /\ u # 0
    BY Threads
  <2>1. UNCHANGED pc \/ \E l \in ChildPC : Goto(u, l)
    BY <1>3 DEF ChildStep, ChildStart, ChildWait, Dispatch, CatchUp, FindNextJob, GetNextJob,
                AwaitDepends, ReturnFromJob, EndChildSweep, ChildComplete, ChildPC
  <2>2. pc'[0] = pc[0] /\ (u # c => pc'[c] = pc[c])
    BY <1>0, <2>1, ChildMoves DEF TypeOK
  <2>3. \/ child_complete' = child_complete
        \/ child_complete' = [child_complete EXCEPT ![u] = TRUE]
    BY <1>3 DEF ChildStep, ChildStart, ChildWait, Dispatch, CatchUp, FindNextJob, GetNextJob,
                AwaitDepends, ReturnFromJob, EndChildSweep, ChildComplete, childVars
  <2>4. child_complete[c] => child_complete'[c]
    BY <1>0, <2>3
  <2>5. pc[c] = "start" \/ child_complete[c]
    BY <2>2 DEF StartsIdle
  <2>6. ASSUME u = c, pc[c] = "start"
        PROVE  child_complete'[c]
    <3>1. ChildStart(c)
      BY <1>3, <2>0, <2>6 DEF ChildStep, ChildWait, Dispatch, CatchUp, FindNextJob, GetNextJob,
                AwaitDepends, ReturnFromJob, EndChildSweep, ChildComplete
    <3> QED
      BY <1>0, <3>1 DEF ChildStart
  <2> QED
    BY <2>2, <2>4, <2>5, <2>6
<1>4. CASE CommandStep \/ Ended
  BY <1>4 DEF CommandStep, Freeze, FreezeAt, Run, StopCmd, SetJobOnOff, SetThreadEnabled, SetJobCycle,
              Command, Ended, vars, childVars, StartsIdle
<1> QED
  BY <1>1, <1>2, <1>3, <1>4 DEF Next

\* A job that is complete in a marked thread has been called.
LEMMA CompleteStep ==
  ASSUME Steady, Undisturbed, NumChild > 0, TypeOK, TypeOK', SyncInv, ScheduleInv, CompleteNow, Next
  PROVE  CompleteNow'
<1> SUFFICES ASSUME NEW t \in Thread, InStep(t), Marked(t)', NEW d \in JobsOf(t) \cap SyncJob, complete'[d]
             PROVE  DoneNow(d)'
  BY DEF CompleteNow, InStep, JobsOf, SyncJob
<1>1. ~AdvanceSimTime
  BY AdvanceClears
<1>2. CASE \E u \in Thread : ReturnFromJob(u) /\ curr_job[u] = d
  BY <1>1, <1>2, DoneStays
<1>3. CASE \A u \in Thread : ReturnFromJob(u) => curr_job[u] # d
  <2>1. complete[d]
    BY <1>3, JobStep
  <2>2. CASE Marked(t)
    <3>1. DoneNow(d)
      BY <2>1, <2>2 DEF CompleteNow
    <3> QED
      BY <1>1, <3>1, DoneStays
  <2>3. CASE MarkIncomplete /\ ii = t /\ ii <= NumChild
    <3>1. DoneNow(d)
      BY <2>3, MarkDone
    <3> QED
      BY <1>1, <3>1, DoneStays
  <2> QED
    BY <2>2, <2>3, MarkedStep
<1> QED
  BY <1>2, <1>3

\* What a job has waited for has been called.
LEMMA AwaitedStep ==
  ASSUME Steady, NumChild > 0, TailAlone, TypeOK, TypeOK', SyncInv, ScheduleInv, DependsInv, Next
  PROVE  Awaited'
<1> SUFFICES ASSUME NEW t \in Thread, InStep(t), pc'[t] \in {"depend", "call"},
                    NEW k \in 1 .. Len(Depends[curr_job'[t]]),
                    pc'[t] = "call" \/ k < dep_index'[t],
                    NEW d \in SyncJob, d = Depends[curr_job'[t]][k]
             PROVE  DoneNow(d)'
  BY DEF Awaited, InStep, SyncJob, DoneNow, Due, Schedule!DueAt
<1>0. /\ dep_index[t] \in Nat \ {0} /\ curr_job \in [Thread -> Job] /\ dep_index \in [Thread -> Nat \ {0}]
      /\ k \in Nat \ {0}
  <2>1. curr_job \in [Thread -> Job] /\ dep_index \in [Thread -> Nat \ {0}]
    BY DEF TypeOK, QueuesOK
  <2>2. Len(Depends[curr_job'[t]]) \in Nat
    <3>1. curr_job'[t] \in Job
      BY DEF TypeOK, QueuesOK
    <3>2. Depends[curr_job'[t]] \in Seq(Job)
      BY <3>1, ExecutiveAssumption DEF ExecutiveAssumption
    <3> QED
      BY <3>2
  <2>3. k \in Nat \ {0}
    BY <2>2
  <2> QED
    BY <2>1, <2>3
<1>1. ~AdvanceSimTime
  BY AdvanceClears
<1>2. DoneNow(d)
  <2>1. CASE pc'[t] = pc[t] /\ curr_job'[t] = curr_job[t] /\ dep_index'[t] = dep_index[t]
    BY <2>1 DEF DependsInv, Awaited
  <2>2. CASE AwaitDepends(t)
    <3>1. pc[t] = "depend" /\ curr_job' = curr_job
      BY <2>2 DEF AwaitDepends
    <3>2. ASSUME k < dep_index[t]
          PROVE  DoneNow(d)
      BY <3>1, <3>2 DEF DependsInv, Awaited
    <3>3. ASSUME complete[Depends[curr_job[t]][dep_index[t]]], k = dep_index[t]
          PROVE  DoneNow(d)
      <4>1. complete[d]
        BY <3>1, <3>3
      <4>2. PICK u \in Thread : InStep(u) /\ d \in JobsOf(u)
        BY DEF SyncJob
      <4>3. ~IsTail(curr_job[t])
        <5>1. SUFFICES ASSUME IsTail(curr_job[t])
                       PROVE  FALSE
          OBVIOUS
        <5>2. Depends[curr_job[t]] = << >>
          BY <1>0, <5>1 DEF TailAlone
        <5> QED
          BY <1>0, <3>1, <5>2
      <4>4. Marked(u)
        BY <3>1, <4>3, AllMarked DEF DependsInv
      <4> QED
        BY <4>1, <4>2, <4>4 DEF DependsInv, CompleteNow
    <3>4. CASE /\ dep_index[t] <= Len(Depends[curr_job[t]]) /\ complete[Depends[curr_job[t]][dep_index[t]]]
               /\ dep_index' = [dep_index EXCEPT ![t] = @ + 1] /\ pc' = pc
      <4>1. dep_index'[t] = dep_index[t] + 1 /\ k < dep_index'[t]
        BY <1>0, <3>1, <3>4
      <4>2. k < dep_index[t] \/ k = dep_index[t]
        BY <1>0, <4>1
      <4> QED
        BY <3>2, <3>3, <3>4, <4>2
    <3>5. CASE dep_index[t] > Len(Depends[curr_job[t]])
      <4>1. k \in 1 .. Len(Depends[curr_job[t]])
        BY <3>1
      <4>2. Depends[curr_job[t]] \in Seq(Job)
        BY <1>0, ExecutiveAssumption DEF ExecutiveAssumption
      <4>3. Len(Depends[curr_job[t]]) \in Nat
        BY <4>2
      <4> QED
        BY <1>0, <3>2, <3>5, <4>1, <4>3
    <3> QED
      BY <2>2, <3>4, <3>5 DEF AwaitDepends, MultiThread
  <2>3. CASE pc'[t] = "depend" /\ dep_index'[t] = 1
    BY <1>0, <2>3
  <2> QED
    BY <1>1, <2>1, <2>2, <2>3, DependMoves
<1> QED
  BY <1>1, <1>2, DoneStays

\* When a job of the master or of a scheduled thread starts, every job it depends on that has a call
\* at this time has finished it: the completion flags are cleared for the time before any thread
\* is started, and set only at the end of a call.
THEOREM DependsAreFinished ==
  ASSUME Steady, StopsLater, "onoff" \notin Commands, NumChild > 0, TailAlone
  PROVE  Spec => []DependsFinished
<1>1. Init => DependsInv
  <2> SUFFICES ASSUME Init
               PROVE  DependsInv
    OBVIOUS
  <2>1. pc[0] = "init" /\ \A c \in Child : pc[c] = "start"
    BY Threads DEF Init, MultiThread
  <2>2. \A t \in Thread : pc[t] \notin {"depend", "call"} /\ ~Marked(t)
    BY <2>1, Threads DEF Marked, InSweep
  <2> QED
    BY <2>1, <2>2 DEF DependsInv, StartsIdle, CompleteNow, Awaited
<1>2. TypeOK /\ TypeOK' /\ SyncInv /\ ScheduleInv /\ DependsInv /\ [Next]_vars => DependsInv'
  <2> SUFFICES ASSUME TypeOK, TypeOK', SyncInv, ScheduleInv, DependsInv, [Next]_vars
               PROVE  DependsInv'
    OBVIOUS
  <2>1. CASE UNCHANGED vars
    <3>1. StartsIdle' /\ Awaited'
      BY <2>1 DEF DependsInv, StartsIdle, Awaited, vars, clockVars, jobVars, queueVars, callVars, childVars,
                  InStep, SyncJob, DoneNow, Due, Schedule!DueAt
    <3>2. CompleteNow'
      BY <2>1 DEF DependsInv, CompleteNow, vars, clockVars, jobVars, queueVars, callVars, childVars, InStep,
                  SyncJob, JobsOf, DoneNow, Due, Schedule!DueAt, Marked, InSweep, AdvanceAhead
    <3> QED
      BY <3>1, <3>2 DEF DependsInv
  <2>2. CASE Next
    <3>1. Undisturbed
      BY DEF Undisturbed
    <3> QED
      BY <2>2, <3>1, StartsIdleStep, CompleteStep, AwaitedStep DEF DependsInv
  <2> QED
    BY <2>1, <2>2
<1>3. SyncInv /\ DependsInv => DependsFinished
  <2> SUFFICES ASSUME SyncInv, DependsInv, NEW t \in Thread, InStep(t), pc[t] = "call",
                      NEW k \in 1 .. Len(Depends[curr_job[t]]), Depends[curr_job[t]][k] \in SyncJob,
                      Schedule!DueAt(Depends[curr_job[t]][k], Now(t))
               PROVE  last_call[Depends[curr_job[t]][k]] = Now(t)
    BY DEF DependsFinished
  <2>1. Now(t) = time_tics
    BY InStepTime DEF InSweep
  <2>2. DoneNow(Depends[curr_job[t]][k])
    BY DEF DependsInv, Awaited
  <2> QED
    BY <2>1, <2>2 DEF DoneNow, Due
<1>4. Spec => []SyncInv
  BY SyncInvariant DEF Steady
<1> QED
  BY <1>1, <1>2, <1>3, <1>4, ScheduleHolds, TypeCorrect, PTL DEF Spec
==============================================================================
