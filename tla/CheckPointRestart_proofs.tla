---------------------- MODULE CheckPointRestart_proofs ----------------------
(***************************************************************************)
(* Whatever is loaded, whenever: the schedule goes on as that of the       *)
(* simulation that wrote the file, and the frames keep to the clock.  What *)
(* it takes is that a checkpoint holds a state from which a pass of the    *)
(* loop may start, although it is written in the middle of one.            *)
(***************************************************************************)
EXTENDS CheckPointRestart, WellFoundedInduction, TLAPS

OnFrame(n) == \E k \in Nat : n = k * Frame

\* The schedule: each job waits for its first time that is not over, but that it may have had the
\* present one already, and that a checkpoint that came too late is left over.
Sched(t, frame, next, times, safestore, lost, called, skip) ==
  /\ t \in 0 .. TerminateTime /\ frame \in Nat /\ next \in [Job -> 0 .. MaxTics]
  /\ times \subseteq CheckpointArgs /\ safestore \in Nat /\ called \in [UserJob -> Nat] /\ skip \in Nat
  /\ lost \in BOOLEAN
  /\ OnFrame(frame)
  /\ t <= frame
  /\ \A j \in UserJob :
       t <= next[j] /\ next[j] <= t + Cycle[j] /\ next[j] = called[j] * Cycle[j]
  /\ (~lost => \A c \in times : t <= c) /\ next[WriteJob] = NextWrite(times)
  /\ t <= next[SafestoreJob] /\ next[SafestoreJob] <= t + SafestorePeriod
  /\ next[SafestoreJob] = safestore

SyncOK(s) ==
  /\ {s.enable, s.disable, s.active, s.shutdown, s.freeze, s.timer_active} \subseteq BOOLEAN
  /\ {s.overruns, s.freeze_time} \subseteq Nat

\* A checkpoint is written before the time goes on to the end of the frame.
File(s) ==
  /\ Sched(s.time, s.frame, s.next, s.times, s.safestore, s.late, s.calls, s.skipped)
  /\ s.last \in 0 .. TerminateTime
  /\ s.time < s.frame /\ s.frame <= s.time + (s.skipped + 1) * Frame
  /\ SyncOK(s.sync)

\* A pass: the jobs that were swept wait for a later time, at which the queue arrives.
Waits(j) == time_tics < next_tics[j] /\ next_job_call_time <= next_tics[j]

\* No checkpoint that waits is for a time the clock is about to leave behind.
InTime == \A c \in checkpoint_times : time_tics < c /\ NextTime <= c

Pass ==
  /\ time_tics < next_job_call_time
  /\ pc \in {"write", "safe", "advance"} => \A j \in UserJob : Waits(j)
  /\ pc \in {"safe", "advance"} /\ ~late => InTime
  /\ pc = "advance" => Waits(SafestoreJob)

AtMonitor == pc \in {"monitor", "pause", "spin", "apply"}

FrameInv ==
  /\ pc = "end" => time_tics = next_frame_check_tics
  /\ ~AtMonitor /\ pc \notin {"end", "done"} => time_tics < next_frame_check_tics
  /\ next_frame_check_tics <= time_tics + (skipped + 1) * Frame
  /\ AtMonitor => next_frame_check_tics <= time_tics + skipped * Frame

FrozenPlaces == {"fload", "fpause", "fsem", "fspin", "ftest"}

\* The wall clock, of which only rt_monitor and freeze_pause know.
ClockInv ==
  /\ mode = "Freeze" <=> pc \in FrozenPlaces
  /\ exec_command = "FreezeCmd" => AtMonitor \/ pc \in {"top", "done"}
  /\ active /\ pc = "top" /\ exec_command = "FreezeCmd" => time_tics <= clock
  /\ active /\ pc = "apply" => time_tics <= clock
  /\ active /\ pc \in {"fload", "ftest"} => freeze_time_tics <= clock

TimerInv ==
  /\ active /\ timer_active /\ pc \notin {"spin", "fspin"} => armed \/ posts > 0
  /\ pc \in {"pause", "fsem"} => armed \/ posts > 0

Types ==
  /\ pc \in {"top", "jobs", "write", "safe", "advance", "end", "monitor", "pause", "spin", "apply",
             "fload", "fpause", "fsem", "fspin", "ftest", "done"}
  /\ mode \in {"Run", "Freeze"} /\ exec_command \in {"NoCmd", "RunCmd", "FreezeCmd"}
  /\ async_freeze_command \in BOOLEAN
  /\ time_last_pass_tics \in 0 .. TerminateTime /\ next_job_call_time \in Nat
  /\ load_file \in {NoFile} \cup DOMAIN files /\ DOMAIN files \subseteq FileName
  /\ cmds \in 0 .. MaxCommands
  /\ SyncTypeOK

SchedInv == Sched(time_tics, next_frame_check_tics, next_tics, checkpoint_times, safestore_time, late, calls, skipped)

Inv ==
  /\ Types /\ SchedInv /\ Pass /\ FrameInv /\ ClockInv /\ TimerInv
  /\ \A n \in DOMAIN files : File(files[n])

(***************************************************************************)
(* Numbers.                                                                *)
(***************************************************************************)
\* The constants, in the form the proofs use.
LEMMA Numbers ==
  /\ {Frame, FreezeFrame, MaxOverruns, SafestorePeriod} \subseteq Nat \ {0}
  /\ {MaxLate, TerminateTime, MaxTics, MaxCommands} \subseteq Nat
  /\ TerminateTime + Frame < MaxTics /\ TerminateTime + SafestorePeriod < MaxTics
  /\ CheckpointArgs \subseteq 0 .. MaxTics /\ CheckpointArgs \subseteq Nat
  /\ \A j \in UserJob : Cycle[j] \in Nat \ {0} /\ TerminateTime + Cycle[j] < MaxTics
  /\ WriteJob \in Job /\ SafestoreJob \in Job /\ WriteJob # SafestoreJob
  /\ \A j \in UserJob : j \in Job /\ j # WriteJob /\ j # SafestoreJob
  <1>1. /\ {Frame, FreezeFrame, MaxOverruns, SafestorePeriod} \subseteq Nat \ {0}
        /\ {MaxLate, TerminateTime, MaxTics, MaxCommands} \subseteq Nat
        /\ CheckpointArgs \subseteq 0 .. MaxTics /\ CheckpointArgs \subseteq Nat
    BY RealtimeSyncAssumption, CheckPointRestartAssumption
  <1> QED
    BY <1>1, CheckPointRestartAssumption DEF Job

\* The next multiple.
LEMMA Multiples == \A a, c \in Nat : a * c \in Nat /\ (a + 1) * c = a * c + c
  BY SMT

\* Every set of times has a first one.
LEMMA MinIsLeast ==
  ASSUME NEW S \in SUBSET Nat, S # {}
  PROVE  Min(S) \in S /\ \A n \in S : Min(S) <= n
  <1>1. PICK m \in S : \A n \in S : ~ (<<n, m>> \in OpToRel(<, Nat))
    BY NatLessThanWellFounded, WFMin
  <1>2. ASSUME NEW n \in S
        PROVE  m <= n
    <2>1. m \in Nat /\ n \in Nat
      OBVIOUS
    <2>2. ~(n < m)
      BY <1>1, <2>1, Zenon DEF OpToRel
    <2> QED
      BY <2>1, <2>2
  <1> QED
    BY <1>2 DEF Min

\* The write job waits for the first of the checkpoint times, if there is one.
LEMMA NextWriteIsFirst ==
  ASSUME NEW times \in SUBSET CheckpointArgs
  PROVE  /\ NextWrite(times) \in 0 .. MaxTics
         /\ times = {} => NextWrite(times) = MaxTics
         /\ times # {} => NextWrite(times) \in times
         /\ \A c \in times : NextWrite(times) <= c
  <1>1. CASE times = {}
    BY <1>1, Numbers DEF NextWrite
  <1>2. CASE times # {}
    <2>1. NextWrite(times) = Min(times) /\ times \subseteq Nat
      BY <1>2, Numbers DEF NextWrite
    <2>2. Min(times) \in times /\ \A c \in times : Min(times) <= c
      BY <1>2, <2>1, MinIsLeast
    <2> QED
      BY <1>2, <2>1, <2>2, Numbers
  <1> QED
    BY <1>1, <1>2

\* The queue arrives at no time that is over, and at none after the next time of a job it swept.
LEMMA SweptIsNext ==
  ASSUME time_tics \in Nat, next_job_call_time \in Nat, time_tics < next_job_call_time,
         NEW next \in SUBSET Nat
  PROVE  /\ Swept(next) \in Nat /\ time_tics < Swept(next) /\ Swept(next) <= next_job_call_time
         /\ \A n \in next : time_tics < n => Swept(next) <= n
  <1> DEFINE S == {next_job_call_time} \cup {t \in next : t > time_tics}
  <1>1. S \in SUBSET Nat /\ S # {} /\ next_job_call_time \in S
    OBVIOUS
  <1>2. Min(S) \in S /\ \A n \in S : Min(S) <= n
    BY <1>1, MinIsLeast
  <1>3. Swept(next) = Min(S)
    BY DEF Swept
  <1>4. \A n \in S : time_tics < n
    OBVIOUS
  <1>5. \A n \in next : time_tics < n => n \in S
    OBVIOUS
  <1> QED
    BY <1>1, <1>2, <1>3, <1>4, <1>5

\* NextTime, of the time, the next call and the end of the frame.
StopTime(now, call, frame) ==
  Min({TerminateTime} \cup IF call \in now + 1 .. frame THEN {call} ELSE {frame})

\* The time goes on to the end of the frame, to the next call before it, or to the end of the run.
LEMMA StopIsNext ==
  ASSUME NEW now \in 0 .. TerminateTime, NEW call \in Nat, NEW frame \in Nat, now < call, now < frame
  PROVE  LET stop == StopTime(now, call, frame) IN
         /\ stop \in 0 .. TerminateTime /\ stop \in Nat /\ now <= stop
         /\ stop <= frame /\ stop <= call /\ stop \in {TerminateTime, frame, call}
  <1>1. PICK x \in {call, frame} :
          /\ x = call <=> call \in now + 1 .. frame
          /\ StopTime(now, call, frame) = Min({TerminateTime} \cup {x})
    <2>1. CASE call \in now + 1 .. frame
      BY <2>1 DEF StopTime
    <2>2. CASE call \notin now + 1 .. frame
      <3>1. call # frame
        BY <2>2, Numbers
      <3> QED
        BY <2>2, <3>1 DEF StopTime
    <2> QED
      BY <2>1, <2>2
  <1>2. TerminateTime \in Nat /\ now \in Nat /\ now <= TerminateTime
    BY Numbers
  <1>3. x \in Nat /\ now < x /\ x <= frame /\ x <= call
    BY <1>1, <1>2
  <1> DEFINE S == {TerminateTime} \cup {x}
  <1>4. S \in SUBSET Nat /\ TerminateTime \in S /\ x \in S /\ \A n \in S : n = TerminateTime \/ n = x
    BY <1>2, <1>3
  <1>5. StopTime(now, call, frame) = Min(S)
    BY <1>1
  <1> HIDE DEF S
  <1>6. Min(S) \in S /\ \A n \in S : Min(S) <= n
    BY <1>4, MinIsLeast
  <1>7. PICK m : m = StopTime(now, call, frame)
    OBVIOUS
  <1>8. m \in Nat /\ m <= TerminateTime /\ m <= x /\ (m = TerminateTime \/ m = x)
    BY <1>4, <1>5, <1>6, <1>7, Zenon
  <1>9. m \in 0 .. TerminateTime /\ now <= m /\ m <= frame /\ m <= call /\ m \in {TerminateTime, frame, call}
    BY <1>1, <1>2, <1>3, <1>8
  <1> QED
    BY <1>7, <1>8, <1>9

(***************************************************************************)
(* The invariant, of the initial states and of each action.                *)
(***************************************************************************)
\* It holds at first, with no checkpoint written and no job called.
LEMMA InitInv == Init => Inv
  <1> SUFFICES ASSUME Init PROVE Inv
    OBVIOUS
  <1>1. DOMAIN files = {}
    BY DEF Init
  <1>2. /\ active \in BOOLEAN /\ enable_flag = FALSE /\ disable_flag = FALSE /\ frame_overrun_cnt = 0
        /\ freeze_shutdown = FALSE /\ rt_overrun_freeze \in BOOLEAN /\ freeze_time_tics = 0 /\ clock = 0
        /\ timer_active = active /\ armed = active /\ posts = 0
    BY DEF Init, SyncInit
  <1>3. Types
    <2>1. SyncTypeOK
      <3>1. /\ {enable_flag, disable_flag, active, freeze_shutdown, rt_overrun_freeze} \subseteq BOOLEAN
            /\ {timer_active, armed} \subseteq BOOLEAN
        BY <1>2, Zenon
      <3>2. {freeze_time_tics, frame_overrun_cnt, posts} \subseteq Nat /\ clock \in Int
        BY <1>2
      <3> QED
        BY <3>1, <3>2 DEF SyncTypeOK
    <2>2. /\ time_last_pass_tics \in 0 .. TerminateTime /\ next_job_call_time \in Nat
          /\ cmds \in 0 .. MaxCommands
      BY Numbers DEF Init
    <2> QED
      BY <1>1, <2>1, <2>2 DEF Init, Types
  <1>4. SchedInv
    <2>1. /\ time_tics = 0 /\ next_frame_check_tics = Frame /\ checkpoint_times = {}
          /\ safestore_time = SafestorePeriod /\ calls = [j \in UserJob |-> 0] /\ skipped = 0
          /\ next_tics = [j \in Job |-> CASE j \in UserJob -> 0
                                          [] j = WriteJob -> MaxTics
                                          [] j = SafestoreJob -> SafestorePeriod]
      BY DEF Init
    <2>2. /\ \A j \in UserJob : next_tics[j] = 0
          /\ next_tics[WriteJob] = MaxTics /\ next_tics[SafestoreJob] = SafestorePeriod
      BY <2>1, Numbers
    <2>3. next_tics \in [Job -> 0 .. MaxTics]
      BY <2>1, <2>2, Numbers DEF Job
    <2>4. next_tics[WriteJob] = NextWrite(checkpoint_times)
      BY <2>1, <2>2, NextWriteIsFirst
    <2>5. Frame = 1 * Frame /\ \A j \in UserJob : 0 = 0 * Cycle[j]
      BY Numbers
    <2>6. \A j \in UserJob :
            time_tics <= next_tics[j] /\ next_tics[j] <= time_tics + Cycle[j] /\ next_tics[j] = calls[j] * Cycle[j]
      BY <2>1, <2>2, <2>5, Numbers
    <2>7. /\ time_tics \in 0 .. TerminateTime /\ next_frame_check_tics \in Nat
          /\ OnFrame(next_frame_check_tics)
          /\ time_tics <= next_frame_check_tics
      <3>1. Frame \in Nat /\ TerminateTime \in Nat
        BY Numbers
      <3>2. \E k \in Nat : Frame = k * Frame
        BY <2>5, 1 \in Nat, Zenon
      <3>3. OnFrame(next_frame_check_tics)
        BY <2>1, <3>2, Zenon DEF OnFrame
      <3> QED
        BY <2>1, <3>1, <3>3
    <2>8. /\ checkpoint_times \subseteq CheckpointArgs /\ safestore_time \in Nat /\ skipped \in Nat
          /\ \A c \in checkpoint_times : time_tics <= c
          /\ time_tics <= next_tics[SafestoreJob] /\ next_tics[SafestoreJob] <= time_tics + SafestorePeriod
          /\ next_tics[SafestoreJob] = safestore_time
      BY <2>1, <2>2, Numbers
    <2>9. calls \in [UserJob -> Nat] /\ late \in BOOLEAN
      <3>1. late \in BOOLEAN
        BY Zenon DEF Init
      <3> QED
        BY <2>1, <3>1
    <2> QED
      BY <2>3, <2>4, <2>6, <2>7, <2>8, <2>9, Zenon DEF SchedInv, Sched
  <1>5. Pass /\ FrameInv
    BY Numbers DEF Init, Pass, FrameInv, AtMonitor
  <1>6. ClockInv /\ TimerInv
    BY <1>2 DEF Init, ClockInv, TimerInv, AtMonitor, FrozenPlaces
  <1> QED
    BY <1>1, <1>3, <1>4, <1>5, <1>6 DEF Inv

\* What a sweep needs of the state.
LEMMA Now ==
  ASSUME Inv
  PROVE  /\ time_tics \in 0 .. TerminateTime /\ time_tics \in Nat /\ next_job_call_time \in Nat
         /\ next_frame_check_tics \in Nat /\ time_tics <= next_frame_check_tics
         /\ time_tics < next_job_call_time /\ time_tics < MaxTics
         /\ next_tics \in [Job -> 0 .. MaxTics] /\ next_tics \in [Job -> Nat]
  <1>1. /\ time_tics \in 0 .. TerminateTime /\ next_tics \in [Job -> 0 .. MaxTics]
        /\ next_frame_check_tics \in Nat /\ time_tics <= next_frame_check_tics
    BY DEF Inv, SchedInv, Sched
  <1>2. next_job_call_time \in Nat /\ time_tics < next_job_call_time
    BY DEF Inv, Types, Pass
  <1>3. next_tics \in [Job -> Nat]
    BY <1>1, Numbers
  <1> QED
    BY <1>1, <1>2, <1>3, Numbers

Place == {"top", "jobs", "write", "safe", "advance", "end", "monitor", "pause", "spin", "apply",
          "fload", "fpause", "fsem", "fspin", "ftest", "done"}

\* The steps that leave the schedule and the files as they are.
LEMMA QuietLoop ==
  ASSUME Inv, UNCHANGED <<loopVars, files>>,
         pc' = pc \/ pc' \notin {"write", "safe", "advance", "end"},
         pc \in {"end", "done"} \cup {"monitor", "pause", "spin", "apply"} => AtMonitor' \/ pc' \in {pc, "done"},
         AtMonitor' => AtMonitor
  PROVE  SchedInv' /\ Pass' /\ FrameInv' /\ \A n \in DOMAIN files' : File(files'[n])
  <1>1. /\ UNCHANGED <<time_tics, next_frame_check_tics, next_tics, next_job_call_time, calls,
                       checkpoint_times, safestore_time, late, skipped, files>>
    BY DEF loopVars, timeVars, jobVars, chkVars
  <1>2. SchedInv /\ Pass /\ FrameInv /\ \A n \in DOMAIN files : File(files[n])
    BY DEF Inv
  <1>3. SchedInv'
    BY <1>1, <1>2 DEF SchedInv
  <1>4. Pass'
    BY <1>1, <1>2 DEF Pass, Waits, InTime, NextTime
  <1>5. FrameInv'
    BY <1>1, <1>2 DEF FrameInv, AtMonitor
  <1> QED
    BY <1>1, <1>2, <1>3, <1>4, <1>5

\* The types of the variables of the clock.
LEMMA SyncTypes ==
  ASSUME Inv
  PROVE  /\ enable_flag \in BOOLEAN /\ disable_flag \in BOOLEAN /\ active \in BOOLEAN
         /\ freeze_shutdown \in BOOLEAN /\ rt_overrun_freeze \in BOOLEAN
         /\ timer_active \in BOOLEAN /\ armed \in BOOLEAN
         /\ freeze_time_tics \in Nat /\ frame_overrun_cnt \in Nat /\ posts \in Nat /\ clock \in Int
  BY DEF Inv, Types, SyncTypeOK

\* What the jobs of the sync object make of its variables.
LEMMA SyncKept ==
  ASSUME Inv, NEW time \in Nat,
         \/ Overrun(time) \/ OnTime(time) \/ SemWait \/ SpinAndReset(time) \/ ApplyRequests(time)
         \/ FreezeInit(time) \/ FreezePauseInactive \/ FreezePauseActive \/ FreezeFrameEnd \/ Unfreeze(time)
         \/ Alarm \/ UNCHANGED syncVars
  PROVE  SyncTypeOK'
  <1>1. /\ enable_flag' \in BOOLEAN /\ disable_flag' \in BOOLEAN /\ active' \in BOOLEAN
        /\ freeze_shutdown' \in BOOLEAN /\ rt_overrun_freeze' \in BOOLEAN
    BY SyncTypes, Zenon DEF Overrun, OnTime, SemWait, SpinAndReset, ApplyRequests, FreezeInit, FreezePauseInactive,
       FreezePauseActive, FreezeFrameEnd, Unfreeze, Alarm, syncVars, flagVars, countVars
  <1>2. timer_active' \in BOOLEAN /\ armed' \in BOOLEAN
    BY SyncTypes, Zenon DEF Overrun, OnTime, SemWait, SpinAndReset, ApplyRequests, FreezeInit, FreezePauseInactive,
       FreezePauseActive, FreezeFrameEnd, Unfreeze, Alarm, syncVars, timerVars, StartRealtime, TimerStart, TimerStop
  <1>3. posts' \in Nat
    BY SyncTypes DEF Overrun, OnTime, SemWait, SpinAndReset, ApplyRequests, FreezeInit, FreezePauseInactive,
       FreezePauseActive, FreezeFrameEnd, Unfreeze, Alarm, syncVars, timerVars, StartRealtime, TimerStart, TimerStop
  <1>4. freeze_time_tics' \in Nat /\ frame_overrun_cnt' \in Nat
    BY SyncTypes, Numbers DEF Overrun, OnTime, SemWait, SpinAndReset, ApplyRequests, FreezeInit, FreezePauseInactive,
       FreezePauseActive, FreezeFrameEnd, Unfreeze, Alarm, syncVars, countVars
  <1>5. clock' \in Int
    BY <1>4, SyncTypes DEF Overrun, OnTime, SemWait, SpinAndReset, ApplyRequests, FreezeInit,
       FreezePauseInactive, FreezePauseActive, FreezeFrameEnd, Unfreeze, Alarm, syncVars, StartRealtime,
       AdjustRefTime, Later
  <1> QED
    BY <1>1, <1>2, <1>3, <1>4, <1>5 DEF SyncTypeOK

\* The jobs of the sync object at the end of a frame.
LEMMA MonitorInv ==
  Inv /\ (MonitorOverrun \/ MonitorOnTime \/ MonitorInactive \/ MonitorPause \/ MonitorSpin) => Inv'
  <1> SUFFICES ASSUME Inv, MonitorOverrun \/ MonitorOnTime \/ MonitorInactive \/ MonitorPause \/ MonitorSpin
               PROVE  Inv'
    OBVIOUS
  <1>1. /\ UNCHANGED <<loopVars, files, load_file, cmds, mode, exec_command>>
        /\ UNCHANGED <<time_tics, time_last_pass_tics, next_job_call_time>>
        /\ AtMonitor /\ pc # "apply" /\ (AtMonitor' \/ pc' = "done")
        /\ pc' # pc
    BY DEF MonitorOverrun, MonitorOnTime, MonitorInactive, MonitorPause, MonitorSpin, Unmoved, fileVars,
           execVars, AtMonitor, loopVars, timeVars, jobVars
  <1>2. SchedInv' /\ Pass' /\ FrameInv' /\ \A n \in DOMAIN files' : File(files'[n])
    BY <1>1, QuietLoop DEF AtMonitor
  <1>3. SyncTypeOK'
    BY SyncKept, Now DEF MonitorOverrun, MonitorOnTime, MonitorInactive, MonitorPause, MonitorSpin
  <1>4. async_freeze_command' \in BOOLEAN
    BY Zenon DEF MonitorOverrun, MonitorOnTime, MonitorInactive, MonitorPause, MonitorSpin, Unmoved, execVars,
       Inv, Types
  <1>5. Types'
    BY <1>1, <1>3, <1>4 DEF Inv, Types, AtMonitor
  <1>6. ClockInv'
    <2>1. active' /\ pc' = "apply" => time_tics <= clock'
      <3>1. CASE MonitorOverrun
        BY <3>1, SyncTypes, Now DEF MonitorOverrun, Overrun
      <3>2. CASE MonitorSpin
        BY <3>2, SyncTypes, Now DEF MonitorSpin, SpinAndReset, Later
      <3>3. CASE MonitorInactive
        BY <3>3 DEF MonitorInactive, syncVars, flagVars
      <3>4. CASE MonitorOnTime \/ MonitorPause
        BY <3>4 DEF MonitorOnTime, MonitorPause
      <3> QED
        BY <3>1, <3>2, <3>3, <3>4
    <2>2. pc \in Place \ FrozenPlaces /\ pc' \in Place \ FrozenPlaces /\ pc' # "top"
      BY <1>1 DEF AtMonitor, FrozenPlaces, Place
    <2> QED
      BY <1>1, <2>1, <2>2 DEF Inv, ClockInv, AtMonitor, FrozenPlaces
  <1>7. TimerInv'
    BY <1>1, SyncTypes DEF Inv, TimerInv, MonitorOverrun, MonitorOnTime,
       MonitorInactive, MonitorPause, MonitorSpin, Overrun, OnTime, SemWait, SpinAndReset, TimerStart, TimerStop,
       syncVars, flagVars, countVars, timerVars, AtMonitor
  <1> QED
    BY <1>2, <1>5, <1>6, <1>7 DEF Inv

\* Freeze mode, but for the load of a checkpoint.
LEMMA FreezeInv ==
  Inv /\ (FreezeLoop \/ FreezePause \/ FreezeSem \/ FreezeSpin \/ FreezeStays \/ LeaveFreeze) => Inv'
  <1> SUFFICES ASSUME Inv, FreezeLoop \/ FreezePause \/ FreezeSem \/ FreezeSpin \/ FreezeStays \/ LeaveFreeze
               PROVE  Inv'
    OBVIOUS
  <1>1. /\ UNCHANGED <<loopVars, files, load_file, cmds, async_freeze_command>>
        /\ UNCHANGED <<time_tics, time_last_pass_tics, next_job_call_time>>
        /\ pc \in FrozenPlaces \cup {"top"} /\ pc' \in FrozenPlaces \cup {"jobs", "done"}
    BY DEF FreezeLoop, FreezePause, FreezeSem, FreezeSpin, FreezeStays, LeaveFreeze, Unmoved, fileVars,
           execVars, FrozenPlaces, loopVars, timeVars, jobVars
  <1>2. SchedInv' /\ Pass' /\ FrameInv' /\ \A n \in DOMAIN files' : File(files'[n])
    BY <1>1, QuietLoop DEF AtMonitor, FrozenPlaces
  <1>3. SyncTypeOK'
    BY SyncKept, Now DEF FreezeLoop, FreezePause, FreezeSem, FreezeSpin, FreezeStays, LeaveFreeze
  <1>4. mode' \in {"Run", "Freeze"} /\ exec_command' \in {"NoCmd", "RunCmd", "FreezeCmd"}
    BY DEF FreezeLoop, FreezePause, FreezeSem, FreezeSpin, FreezeStays, LeaveFreeze, Unmoved, execVars, Inv, Types
  <1>5. Types'
    BY <1>1, <1>3, <1>4 DEF Inv, Types, FrozenPlaces
  <1>6. ClockInv'
    <2>1. active' /\ pc' \in {"fload", "ftest"} => freeze_time_tics' <= clock'
      <3>1. CASE FreezeLoop
        BY <3>1, SyncTypes, Now DEF FreezeLoop, FreezeInit, flagVars, Inv, ClockInv
      <3>2. CASE FreezePause
        <4>1. pc' \in {"fsem", "fspin"} \/ FreezePauseInactive
          BY <3>2 DEF FreezePause
        <4>2. ASSUME FreezePauseInactive, active' PROVE clock' = freeze_time_tics /\ freeze_time_tics' = freeze_time_tics
          BY <4>2, Zenon DEF FreezePauseInactive, StartRealtime
        <4> QED
          BY <4>1, <4>2, SyncTypes
      <3>3. CASE FreezeSpin
        BY <3>3, SyncTypes, Numbers DEF FreezeSpin, FreezeFrameEnd, Later
      <3>4. CASE FreezeStays
        BY <3>4 DEF FreezeStays, syncVars, flagVars, Inv, ClockInv
      <3>5. CASE FreezeSem \/ LeaveFreeze
        BY <3>5 DEF FreezeSem, LeaveFreeze
      <3> QED
        BY <3>1, <3>2, <3>3, <3>4, <3>5
    <2>2. mode' = "Freeze" <=> pc' \in FrozenPlaces
      BY DEF FreezeLoop, FreezePause, FreezeSem, FreezeSpin, FreezeStays, LeaveFreeze, Unmoved, execVars,
             FrozenPlaces, Inv, ClockInv
    <2>3. exec_command' # "FreezeCmd"
      BY <1>1 DEF FreezeLoop, FreezePause, FreezeSem, FreezeSpin, FreezeStays, LeaveFreeze, Unmoved, execVars,
                  FrozenPlaces, Inv, ClockInv, AtMonitor
    <2>4. pc' # "apply"
      BY <1>1 DEF FrozenPlaces
    <2> QED
      BY <2>1, <2>2, <2>3, <2>4 DEF ClockInv
  <1>7. TimerInv'
    <2>1. CASE FreezeLoop
      BY <2>1 DEF FreezeLoop, FreezeInit, TimerStart, flagVars, timerVars, Inv, TimerInv
    <2>2. CASE FreezePause
      BY <2>2, SyncTypes DEF FreezePause, FreezePauseInactive, FreezePauseActive, StartRealtime, TimerStart,
         timerVars, Inv, TimerInv
    <2>3. CASE FreezeSem \/ FreezeStays
      BY <2>3 DEF FreezeSem, FreezeStays, syncVars, flagVars, timerVars, Inv, TimerInv
    <2>4. CASE FreezeSpin
      BY <2>4 DEF FreezeSpin, FreezeFrameEnd, TimerStart, TimerInv
    <2>5. CASE LeaveFreeze
      BY <2>5 DEF LeaveFreeze, Unfreeze, TimerStart, syncVars, flagVars, timerVars, Inv, TimerInv
    <2> QED
      BY <2>1, <2>2, <2>3, <2>4, <2>5
  <1> QED
    BY <1>2, <1>5, <1>6, <1>7 DEF Inv

\* The clients, the wall clock and the signal of the timer.
LEMMA OutsideInv ==
  Inv /\ (\/ FreezeRequest \/ EnableRequest \/ DisableRequest \/ RunRequest \/ ClockTicks \/ TimerExpires
          \/ \E f \in DOMAIN files : LoadRequest(f)) => Inv'
  <1> SUFFICES ASSUME Inv,
                      \/ FreezeRequest \/ EnableRequest \/ DisableRequest \/ RunRequest \/ ClockTicks
                      \/ TimerExpires \/ \E f \in DOMAIN files : LoadRequest(f)
               PROVE  Inv'
    OBVIOUS
  <1>1. /\ UNCHANGED <<loopVars, files, pc, mode>>
        /\ UNCHANGED <<time_tics, time_last_pass_tics, next_job_call_time, active, freeze_time_tics, timer_active>>
    BY DEF FreezeRequest, EnableRequest, DisableRequest, RunRequest, ClockTicks, TimerExpires, LoadRequest,
           Requested, Unmoved, fileVars, execVars, loopVars, timeVars, jobVars, syncVars, flagVars, timerVars,
           Tick, Alarm
  <1>2. SchedInv' /\ Pass' /\ FrameInv' /\ \A n \in DOMAIN files' : File(files'[n])
    BY <1>1, QuietLoop DEF AtMonitor
  <1>3. SyncTypeOK'
    <2>1. CASE FreezeRequest \/ RunRequest \/ TimerExpires \/ \E f \in DOMAIN files : LoadRequest(f)
      BY <2>1, SyncKept, Now DEF FreezeRequest, RunRequest, TimerExpires, LoadRequest
    <2>2. CASE EnableRequest \/ DisableRequest
      BY <2>2 DEF EnableRequest, DisableRequest, countVars, timerVars, Inv, Types, SyncTypeOK
    <2>3. CASE ClockTicks
      BY <2>3 DEF ClockTicks, Tick, flagVars, countVars, timerVars, Inv, Types, SyncTypeOK
    <2> QED
      BY <2>1, <2>2, <2>3
  <1>4. /\ exec_command' \in {"NoCmd", "RunCmd", "FreezeCmd"} /\ async_freeze_command' \in BOOLEAN
        /\ load_file' \in {NoFile} \cup DOMAIN files' /\ cmds' \in 0 .. MaxCommands
    <2>1. exec_command' \in {"NoCmd", "RunCmd", "FreezeCmd"} /\ async_freeze_command' \in BOOLEAN
      BY Zenon DEF FreezeRequest, EnableRequest, DisableRequest, RunRequest, ClockTicks, TimerExpires,
         LoadRequest, Unmoved, execVars, Inv, Types
    <2>2. load_file' \in {NoFile} \cup DOMAIN files'
      BY <1>1 DEF FreezeRequest, EnableRequest, DisableRequest, RunRequest, ClockTicks, TimerExpires,
         LoadRequest, Unmoved, fileVars, Inv, Types
    <2>3. cmds' \in 0 .. MaxCommands
      BY Numbers DEF FreezeRequest, EnableRequest, DisableRequest, RunRequest, ClockTicks, TimerExpires,
         LoadRequest, Requested, Unmoved, Inv, Types
    <2> QED
      BY <2>1, <2>2, <2>3
  <1>5. Types'
    BY <1>1, <1>3, <1>4 DEF Inv, Types
  <1>6. ClockInv'
    <2>1. exec_command' = "FreezeCmd" => exec_command = "FreezeCmd"
      BY DEF FreezeRequest, EnableRequest, DisableRequest, RunRequest, ClockTicks, TimerExpires,
         LoadRequest, Unmoved, execVars
    <2>2. clock <= clock'
      BY SyncTypes DEF FreezeRequest, EnableRequest, DisableRequest, RunRequest, ClockTicks, TimerExpires,
         LoadRequest, syncVars, Tick, Alarm
    <2>3. clock' \in Int
      BY <1>3 DEF SyncTypeOK
    <2> QED
      BY <1>1, <2>1, <2>2, <2>3, SyncTypes, Now DEF Inv, ClockInv, AtMonitor
  <1>7. TimerInv'
    <2>1. armed \/ posts > 0 => armed' \/ posts' > 0
      BY SyncTypes DEF FreezeRequest, EnableRequest, DisableRequest, RunRequest, ClockTicks, TimerExpires,
         LoadRequest, syncVars, timerVars, Tick, Alarm
    <2> QED
      BY <1>1, <2>1 DEF Inv, TimerInv
  <1> QED
    BY <1>2, <1>5, <1>6, <1>7 DEF Inv

\* A pass of the loop does not touch the clock.
LEMMA PassSync ==
  ASSUME Inv, UNCHANGED <<syncVars, mode>>, pc \in {"top", "jobs", "write", "safe", "advance"},
         pc' \in {"write", "safe", "advance", "top", "end", "done"},
         exec_command # "FreezeCmd", exec_command' \in {exec_command, "NoCmd"}
  PROVE  SyncTypeOK' /\ ClockInv' /\ TimerInv'
  <1>1. SyncTypeOK'
    BY SyncKept, Now
  <1>2. ClockInv'
    BY DEF Inv, ClockInv, AtMonitor, FrozenPlaces
  <1>3. TimerInv'
    BY DEF Inv, TimerInv, syncVars, flagVars, timerVars
  <1> QED
    BY <1>1, <1>2, <1>3

\* In a pass there is no command to freeze.
LEMMA NoFreezeInPass ==
  ASSUME Inv, pc \in {"jobs", "write", "safe", "advance"}
  PROVE  exec_command # "FreezeCmd"
  BY DEF Inv, ClockInv, AtMonitor

\* The jobs of the user: each that is due is called, and waits for its next time.
LEMMA CallUserJobsInv == Inv /\ CallUserJobs => Inv'
  <1> SUFFICES ASSUME Inv, CallUserJobs PROVE Inv'
    OBVIOUS
  <1>1. /\ UNCHANGED <<mode, exec_command, async_freeze_command, time_tics, time_last_pass_tics,
                       next_frame_check_tics, checkpoint_times, safestore_time, late, skipped, load_file, files, cmds>>
        /\ UNCHANGED syncVars
        /\ pc \in {"top", "jobs"} /\ pc' = "write" /\ exec_command # "FreezeCmd"
    BY NoFreezeInPass DEF CallUserJobs, execVars, timeVars, chkVars, fileVars
  <1>2. /\ next_tics' = [j \in Job |-> IF j \in UserJob /\ Due(j) THEN next_tics[j] + Cycle[j] ELSE next_tics[j]]
        /\ calls' = [j \in UserJob |-> IF Due(j) THEN calls[j] + 1 ELSE calls[j]]
        /\ next_job_call_time' = Swept({next_tics'[j] : j \in UserJob})
    BY DEF CallUserJobs
  <1>3. SchedInv
    BY DEF Inv
  <1>4. ASSUME NEW j \in UserJob
        PROVE  /\ next_tics'[j] \in 0 .. MaxTics /\ next_tics'[j] <= time_tics + Cycle[j] /\ time_tics < next_tics'[j]
               /\ calls'[j] \in Nat /\ next_tics'[j] = calls'[j] * Cycle[j]
    <2>1. /\ time_tics <= next_tics[j] /\ next_tics[j] <= time_tics + Cycle[j]
          /\ calls[j] \in Nat /\ next_tics[j] = calls[j] * Cycle[j] /\ next_tics[j] \in 0 .. MaxTics
      BY <1>3, Numbers DEF SchedInv, Sched
    <2>2. Cycle[j] \in Nat \ {0} /\ time_tics + Cycle[j] < MaxTics /\ time_tics \in Nat /\ j \in Job
      BY Numbers, Now
    <2>3. (calls[j] + 1) * Cycle[j] = calls[j] * Cycle[j] + Cycle[j]
      BY <2>1, <2>2, Multiples
    <2>4. CASE Due(j)
      <3>1. next_tics'[j] = next_tics[j] + Cycle[j] /\ calls'[j] = calls[j] + 1 /\ next_tics[j] = time_tics
        BY <1>2, <2>2, <2>4 DEF Due
      <3> QED
        BY <2>1, <2>2, <2>3, <3>1, Numbers
    <2>5. CASE ~Due(j)
      <3>1. next_tics'[j] = next_tics[j] /\ calls'[j] = calls[j] /\ next_tics[j] # time_tics
        BY <1>2, <2>2, <2>5 DEF Due
      <3> QED
        BY <2>1, <2>2, <3>1
    <2> QED
      BY <2>4, <2>5
  <1>5. next_tics'[WriteJob] = next_tics[WriteJob] /\ next_tics'[SafestoreJob] = next_tics[SafestoreJob]
    BY <1>2, Numbers
  <1>6. next_tics' \in [Job -> 0 .. MaxTics] /\ calls' \in [UserJob -> Nat]
    BY <1>2, <1>4, <1>5, Now DEF Job
  <1>7. SchedInv'
    BY <1>1, <1>3, <1>4, <1>5, <1>6, Now, Numbers DEF SchedInv, Sched
  <1>8. /\ next_job_call_time' \in Nat /\ time_tics < next_job_call_time'
        /\ \A j \in UserJob : next_job_call_time' <= next_tics'[j]
    <2> DEFINE next == {next_tics'[j] : j \in UserJob}
    <2>1. next \in SUBSET Nat /\ \A j \in UserJob : next_tics'[j] \in next
      BY <1>4
    <2> HIDE DEF next
    <2>2. /\ Swept(next) \in Nat /\ time_tics < Swept(next)
          /\ \A n \in next : time_tics < n => Swept(next) <= n
      BY <2>1, Now, SweptIsNext
    <2>3. next_job_call_time' = Swept(next)
      BY <1>2 DEF next
    <2> QED
      BY <1>4, <2>1, <2>2, <2>3
  <1>9. Pass'
    BY <1>1, <1>4, <1>8 DEF Pass, Waits
  <1>10. FrameInv'
    BY <1>1 DEF Inv, FrameInv, AtMonitor
  <1>11. SyncTypeOK' /\ ClockInv' /\ TimerInv'
    BY <1>1, PassSync
  <1>12. Types'
    BY <1>1, <1>8, <1>11 DEF Inv, Types
  <1> QED
    BY <1>1, <1>7, <1>9, <1>10, <1>11, <1>12 DEF Inv

\* A file more.
LEMMA WrittenToKeeps ==
  ASSUME NEW name \in FileName, NEW snapshot, File(snapshot), files' = WrittenTo(name, snapshot), Inv
  PROVE  /\ (\A n \in DOMAIN files' : File(files'[n])) /\ DOMAIN files' \subseteq FileName
         /\ DOMAIN files \subseteq DOMAIN files'
  <1>1. files' = [n \in DOMAIN files \cup {name} |-> IF n = name THEN snapshot ELSE files[n]]
    BY DEF WrittenTo
  <1>2. (\A n \in DOMAIN files : File(files[n])) /\ DOMAIN files \subseteq FileName
    BY DEF Inv, Types
  <1>3. DOMAIN files' = DOMAIN files \cup {name}
    BY <1>1
  <1>4. \A n \in DOMAIN files' : files'[n] = IF n = name THEN snapshot ELSE files[n]
    BY <1>1
  <1>5. ASSUME NEW n \in DOMAIN files' PROVE File(files'[n])
    BY <1>2, <1>3, <1>4, Zenon
  <1> QED
    BY <1>2, <1>3, <1>5

\* What is written during a pass is the state of a pass.
LEMMA SnapshotIsFile ==
  ASSUME Inv, ~AtMonitor, pc \notin {"end", "done"}, NEW next, NEW times,
         Sched(time_tics, next_frame_check_tics, next, times, safestore_time, late, calls, skipped)
  PROVE  File(Snapshot(next, times))
  <1> DEFINE s == Snapshot(next, times)
  <1>1. /\ s.time = time_tics /\ s.last = time_last_pass_tics /\ s.frame = next_frame_check_tics
        /\ s.next = next /\ s.times = times /\ s.safestore = safestore_time /\ s.calls = calls
        /\ s.late = late /\ s.skipped = skipped /\ s.sync = SyncState
    BY DEF Snapshot
  <1>2. SyncOK(SyncState)
    <2> DEFINE y == SyncState
    <2>1. /\ y.enable = enable_flag /\ y.disable = disable_flag /\ y.active = active
          /\ y.overruns = frame_overrun_cnt /\ y.shutdown = freeze_shutdown /\ y.freeze = rt_overrun_freeze
          /\ y.freeze_time = freeze_time_tics /\ y.timer_active = timer_active
      BY DEF SyncState
    <2> HIDE DEF y
    <2>2. SyncOK(y)
      BY <2>1, SyncTypes DEF SyncOK
    <2> QED
      BY <2>2 DEF y
  <1>3. /\ time_last_pass_tics \in 0 .. TerminateTime /\ time_tics < next_frame_check_tics
        /\ next_frame_check_tics <= time_tics + (skipped + 1) * Frame
    BY DEF Inv, Types, FrameInv
  <1> HIDE DEF s
  <1>4. File(s)
    BY <1>1, <1>2, <1>3 DEF File
  <1> QED
    BY <1>4 DEF s

\* A checkpoint is written where the later jobs of the pass are still to come, and says so.
LEMMA WriteCheckpointInv == Inv /\ WriteCheckpoint => Inv'
  <1> SUFFICES ASSUME Inv, WriteCheckpoint PROVE Inv'
    OBVIOUS
  <1>1. /\ UNCHANGED <<mode, exec_command, async_freeze_command, time_tics, time_last_pass_tics,
                       next_frame_check_tics, safestore_time, late, calls, skipped, load_file, cmds>>
        /\ UNCHANGED syncVars
        /\ pc = "write" /\ pc' = "safe" /\ exec_command # "FreezeCmd"
        /\ next_job_call_time' = Swept({next_tics'[WriteJob]})
    BY NoFreezeInPass DEF WriteCheckpoint, execVars, timeVars
  <1>2. SchedInv /\ \A j \in UserJob : Waits(j)
    BY <1>1 DEF Inv, Pass
  <1>3. /\ checkpoint_times \in SUBSET CheckpointArgs /\ next_tics[WriteJob] = NextWrite(checkpoint_times)
        /\ \A c \in checkpoint_times : c \in Nat /\ (~late => time_tics <= c)
    BY <1>2, Numbers DEF SchedInv, Sched
  <1>4. /\ checkpoint_times' \in SUBSET CheckpointArgs
        /\ \A c \in checkpoint_times' : c \in Nat /\ (~late => time_tics < c)
        /\ next_tics' \in [Job -> 0 .. MaxTics] /\ next_tics'[WriteJob] = NextWrite(checkpoint_times')
        /\ \A j \in Job \ {WriteJob} : next_tics'[j] = next_tics[j]
    <2>1. CASE Due(WriteJob) /\ NextWrite(checkpoint_times) = time_tics
      <3>1. /\ checkpoint_times' = checkpoint_times \ {time_tics}
            /\ next_tics' = [next_tics EXCEPT ![WriteJob] = NextWrite(checkpoint_times')]
        BY <2>1 DEF WriteCheckpoint
      <3>2. checkpoint_times' \in SUBSET CheckpointArgs
        BY <1>3, <3>1
      <3>3. NextWrite(checkpoint_times') \in 0 .. MaxTics
        BY <3>2, NextWriteIsFirst
      <3>4. \A c \in checkpoint_times' : c \in Nat /\ (~late => time_tics < c)
        BY <1>3, <3>1, Now
      <3> QED
        BY <3>1, <3>2, <3>3, <3>4, Now, Numbers
    <2>2. CASE ~(Due(WriteJob) /\ NextWrite(checkpoint_times) = time_tics)
      <3>1. checkpoint_times' = checkpoint_times /\ next_tics' = next_tics
        BY <2>2 DEF WriteCheckpoint
      <3>2. NextWrite(checkpoint_times) # time_tics
        BY <1>3, <2>2 DEF Due
      <3>3. checkpoint_times # {} => NextWrite(checkpoint_times) \in checkpoint_times
        BY <1>3, NextWriteIsFirst
      <3>4. \A c \in checkpoint_times : NextWrite(checkpoint_times) <= c
        BY <1>3, NextWriteIsFirst
      <3>5. ~late => \A c \in checkpoint_times : time_tics < c
        BY <1>3, <3>2, <3>3, <3>4, Now
      <3> QED
        BY <1>3, <3>1, <3>5, Now
    <2> QED
      BY <2>1, <2>2
  <1>5. (~late => time_tics < next_tics'[WriteJob]) /\ next_tics'[WriteJob] \in Nat
    <2>1. /\ NextWrite(checkpoint_times') \in 0 .. MaxTics
          /\ checkpoint_times' = {} => NextWrite(checkpoint_times') = MaxTics
          /\ checkpoint_times' # {} => NextWrite(checkpoint_times') \in checkpoint_times'
      BY <1>4, NextWriteIsFirst
    <2> QED
      BY <1>4, <2>1, Now, Numbers
  <1>6. SchedInv'
    <2>1. /\ \A j \in UserJob : next_tics'[j] = next_tics[j]
          /\ next_tics'[SafestoreJob] = next_tics[SafestoreJob]
      BY <1>4, Numbers
    <2>2. ~late => \A c \in checkpoint_times' : time_tics <= c
      BY <1>4, Now
    <2> QED
      BY <1>1, <1>2, <1>4, <2>1, <2>2 DEF SchedInv, Sched
  <1>7. /\ next_job_call_time' \in Nat /\ time_tics < next_job_call_time'
        /\ next_job_call_time' <= next_job_call_time /\ (~late => next_job_call_time' <= next_tics'[WriteJob])
    <2> DEFINE next == {next_tics'[WriteJob]}
    <2>1. next \in SUBSET Nat /\ next_tics'[WriteJob] \in next
      BY <1>5
    <2> HIDE DEF next
    <2>2. /\ Swept(next) \in Nat /\ time_tics < Swept(next) /\ Swept(next) <= next_job_call_time
          /\ \A n \in next : time_tics < n => Swept(next) <= n
      BY <2>1, Now, SweptIsNext
    <2>3. next_job_call_time' = Swept(next)
      BY <1>1 DEF next
    <2> QED
      BY <1>5, <2>1, <2>2, <2>3
  <1>8. Pass'
    <2>1. \A j \in UserJob : next_tics'[j] = next_tics[j] /\ next_tics[j] \in Nat
      BY <1>4, Numbers, Now
    <2>2. \A j \in UserJob : Waits(j)'
      BY <1>1, <1>2, <1>7, <2>1, Now DEF Waits
    <2>3. ASSUME ~late, NEW c \in checkpoint_times' PROVE time_tics < c /\ NextTime' <= c
      <3>1. time_tics < next_frame_check_tics
        BY <1>1 DEF Inv, FrameInv, AtMonitor
      <3>2. NextTime' = StopTime(time_tics, next_job_call_time', next_frame_check_tics)
        BY <1>1 DEF NextTime, StopTime
      <3>3. NextTime' \in Nat /\ NextTime' <= next_job_call_time'
        BY <1>7, <3>1, <3>2, StopIsNext, Now
      <3>4. NextWrite(checkpoint_times') <= c
        BY <1>4, NextWriteIsFirst
      <3>5. c \in Nat /\ time_tics < c /\ next_job_call_time' <= next_tics'[WriteJob]
            /\ next_tics'[WriteJob] = NextWrite(checkpoint_times')
        BY <1>4, <1>7, <2>3
      <3> QED
        BY <1>5, <1>7, <3>3, <3>4, <3>5
    <2> QED
      BY <1>1, <1>7, <2>2, <2>3 DEF Pass, InTime
  <1>9. FrameInv'
    BY <1>1 DEF Inv, FrameInv, AtMonitor
  <1>10. SyncTypeOK' /\ ClockInv' /\ TimerInv'
    BY <1>1, PassSync
  <1>11. (\A n \in DOMAIN files' : File(files'[n])) /\ DOMAIN files' \subseteq FileName /\ DOMAIN files \subseteq DOMAIN files'
    <2>1. CASE files' = files
      BY <2>1 DEF Inv, Types
    <2>2. CASE files' = WrittenTo(time_tics, Snapshot(next_tics', checkpoint_times'))
      <3>1. time_tics \in FileName
        BY Now DEF FileName
      <3>2. PICK next, times : next = next_tics' /\ times = checkpoint_times'
        OBVIOUS
      <3>3. Sched(time_tics, next_frame_check_tics, next, times, safestore_time, late, calls, skipped)
        BY <1>1, <1>6, <3>2 DEF SchedInv
      <3>4. File(Snapshot(next, times))
        BY <1>1, <3>3, SnapshotIsFile DEF AtMonitor
      <3> QED
        BY <2>2, <3>1, <3>2, <3>4, WrittenToKeeps
    <2> QED
      BY <2>1, <2>2 DEF WriteCheckpoint
  <1>12. Types'
    BY <1>1, <1>7, <1>10, <1>11 DEF Inv, Types
  <1> QED
    BY <1>6, <1>8, <1>9, <1>10, <1>11, <1>12 DEF Inv

\* So is the safestore, with the write job behind it.
LEMMA SafestoreCheckpointInv == Inv /\ SafestoreCheckpoint => Inv'
  <1> SUFFICES ASSUME Inv, SafestoreCheckpoint PROVE Inv'
    OBVIOUS
  <1>1. /\ UNCHANGED <<mode, exec_command, async_freeze_command, time_tics, time_last_pass_tics,
                       next_frame_check_tics, checkpoint_times, late, calls, skipped, load_file, cmds>>
        /\ UNCHANGED syncVars
        /\ pc = "safe" /\ pc' = "advance" /\ exec_command # "FreezeCmd"
        /\ next_job_call_time' = Swept({next_tics'[SafestoreJob]})
    BY NoFreezeInPass DEF SafestoreCheckpoint, execVars, timeVars
  <1>2. SchedInv /\ (\A j \in UserJob : Waits(j)) /\ (~late => InTime)
    BY <1>1 DEF Inv, Pass
  <1>3. /\ time_tics <= next_tics[SafestoreJob] /\ next_tics[SafestoreJob] <= time_tics + SafestorePeriod
        /\ next_tics[SafestoreJob] = safestore_time /\ safestore_time \in Nat
    BY <1>2 DEF SchedInv, Sched
  <1>4. /\ next_tics' \in [Job -> 0 .. MaxTics] /\ safestore_time' \in Nat
        /\ next_tics'[SafestoreJob] = safestore_time'
        /\ time_tics < safestore_time' /\ safestore_time' <= time_tics + SafestorePeriod
        /\ \A j \in Job \ {SafestoreJob} : next_tics'[j] = next_tics[j]
    <2>1. CASE Due(SafestoreJob)
      <3>1. /\ safestore_time' = time_tics + SafestorePeriod
            /\ next_tics' = [next_tics EXCEPT ![SafestoreJob] = safestore_time']
        BY <1>3, <2>1 DEF SafestoreCheckpoint, Due
      <3>2. safestore_time' \in 0 .. MaxTics /\ time_tics < safestore_time' /\ safestore_time' <= time_tics + SafestorePeriod
        BY <3>1, Now, Numbers
      <3> QED
        BY <3>1, <3>2, Now, Numbers
    <2>2. CASE ~Due(SafestoreJob)
      <3>1. safestore_time' = safestore_time /\ next_tics' = next_tics /\ next_tics[SafestoreJob] # time_tics
        BY <2>2 DEF SafestoreCheckpoint, Due
      <3> QED
        BY <1>3, <3>1, Now
    <2> QED
      BY <2>1, <2>2
  <1>5. /\ \A j \in UserJob : next_tics'[j] = next_tics[j] /\ next_tics[j] \in Nat
        /\ next_tics'[WriteJob] = next_tics[WriteJob] /\ next_tics[WriteJob] \in Nat
        /\ next_tics'[SafestoreJob] \in Nat
    BY <1>4, Numbers, Now
  <1>6. SchedInv'
    <2>1. time_tics <= safestore_time'
      BY <1>4, Now
    <2> QED
      BY <1>1, <1>2, <1>4, <1>5, <2>1 DEF SchedInv, Sched
  <1>7. /\ next_job_call_time' \in Nat /\ time_tics < next_job_call_time'
        /\ next_job_call_time' <= next_job_call_time /\ next_job_call_time' <= next_tics'[SafestoreJob]
    <2> DEFINE next == {next_tics'[SafestoreJob]}
    <2>1. next \in SUBSET Nat /\ next_tics'[SafestoreJob] \in next
      BY <1>5
    <2> HIDE DEF next
    <2>2. /\ Swept(next) \in Nat /\ time_tics < Swept(next) /\ Swept(next) <= next_job_call_time
          /\ \A n \in next : time_tics < n => Swept(next) <= n
      BY <2>1, Now, SweptIsNext
    <2>3. next_job_call_time' = Swept(next)
      BY <1>1 DEF next
    <2> QED
      BY <1>4, <2>1, <2>2, <2>3
  <1>8. Pass'
    <2>1. \A j \in UserJob : Waits(j)'
      BY <1>1, <1>2, <1>5, <1>7, Now DEF Waits
    <2>2. ASSUME InTime PROVE InTime'
      <3>1. time_tics < next_frame_check_tics
        BY <1>1 DEF Inv, FrameInv, AtMonitor
      <3>2. /\ NextTime = StopTime(time_tics, next_job_call_time, next_frame_check_tics)
            /\ NextTime' = StopTime(time_tics, next_job_call_time', next_frame_check_tics)
        BY <1>1 DEF NextTime, StopTime
      <3>3. NextTime \in Nat /\ NextTime \in {TerminateTime, next_frame_check_tics, next_job_call_time}
        BY <3>1, <3>2, StopIsNext, Now
      <3>4. /\ NextTime' \in Nat /\ NextTime' \in 0 .. TerminateTime
            /\ NextTime' <= next_frame_check_tics /\ NextTime' <= next_job_call_time'
        BY <1>7, <3>1, <3>2, StopIsNext, Now
      <3>5. NextTime' <= NextTime
        BY <1>7, <3>3, <3>4, Now, Numbers
      <3>6. checkpoint_times \subseteq Nat
        BY <1>2, Numbers DEF SchedInv, Sched
      <3> QED
        BY <1>1, <2>2, <3>3, <3>4, <3>5, <3>6 DEF InTime
    <2> QED
      BY <1>1, <1>2, <1>4, <1>7, <2>1, <2>2 DEF Pass, Waits
  <1>9. FrameInv'
    BY <1>1 DEF Inv, FrameInv, AtMonitor
  <1>10. SyncTypeOK' /\ ClockInv' /\ TimerInv'
    BY <1>1, PassSync
  <1>11. (\A n \in DOMAIN files' : File(files'[n])) /\ DOMAIN files' \subseteq FileName /\ DOMAIN files \subseteq DOMAIN files'
    <2>1. CASE files' = files
      BY <2>1 DEF Inv, Types
    <2>2. CASE files' = WrittenTo(Safestore, Snapshot(next_tics, checkpoint_times))
      <3>1. Safestore \in FileName
        BY DEF FileName
      <3>2. Sched(time_tics, next_frame_check_tics, next_tics, checkpoint_times, safestore_time, late, calls, skipped)
        BY <1>2 DEF SchedInv
      <3>3. File(Snapshot(next_tics, checkpoint_times))
        BY <1>1, <3>2, SnapshotIsFile DEF AtMonitor
      <3> QED
        BY <2>2, <3>1, <3>3, WrittenToKeeps
    <2> QED
      BY <2>1, <2>2 DEF SafestoreCheckpoint
  <1>12. Types'
    BY <1>1, <1>7, <1>10, <1>11 DEF Inv, Types
  <1> QED
    BY <1>6, <1>8, <1>9, <1>10, <1>11, <1>12 DEF Inv

\* A file that is loaded is the state of a pass, and the clock and the timer start anew.
LEMMA LoadKeeps ==
  ASSUME Inv, LoadCheckpoint
  PROVE  LET s == files[load_file] IN
         /\ File(s) /\ files' = files /\ load_file' = NoFile
         /\ time_tics' = s.time /\ time_last_pass_tics' = s.last /\ next_frame_check_tics' = s.frame
         /\ next_tics' = s.next /\ checkpoint_times' = s.times /\ safestore_time' = s.safestore /\ late' = s.late
         /\ calls' = s.calls /\ next_job_call_time' = MaxTics
         /\ SyncTypeOK'
         /\ active' => clock' = time_tics' /\ armed' /\ (mode = "Freeze" => freeze_time_tics' = time_tics')
  <1>1. load_file # NoFile /\ load_file' = NoFile /\ files' = files /\ Restore(files[load_file])
    BY DEF LoadCheckpoint
  <1>2. PICK s : s = files[load_file]
    OBVIOUS
  <1>3. File(s)
    BY <1>1, <1>2 DEF Inv, Types
  <1>4. /\ time_tics' = s.time /\ time_last_pass_tics' = s.last /\ next_frame_check_tics' = s.frame
        /\ next_tics' = s.next /\ checkpoint_times' = s.times /\ safestore_time' = s.safestore /\ late' = s.late
        /\ calls' = s.calls /\ next_job_call_time' = MaxTics
        /\ RestartSync(s.sync, mode = "Freeze", s.time)
    BY <1>1, <1>2 DEF Restore, JobsOf
  <1>5. SyncOK(s.sync) /\ s.time \in 0 .. TerminateTime
    BY <1>3 DEF File, Sched
  <1>6. PICK y : y = s.sync
    OBVIOUS
  <1>7. /\ enable_flag' = y.enable /\ disable_flag' = y.disable /\ active' = y.active
        /\ frame_overrun_cnt' = y.overruns /\ freeze_shutdown' = y.shutdown /\ rt_overrun_freeze' = y.freeze
        /\ freeze_time_tics' = IF mode = "Freeze" THEN s.time ELSE y.freeze_time
        /\ clock' = s.time
        /\ IF y.active THEN TimerStart ELSE timer_active' = y.timer_active /\ UNCHANGED <<armed, posts>>
    BY <1>4, <1>6 DEF RestartSync
  <1>8. /\ y.enable \in BOOLEAN /\ y.disable \in BOOLEAN /\ y.active \in BOOLEAN /\ y.shutdown \in BOOLEAN
        /\ y.freeze \in BOOLEAN /\ y.timer_active \in BOOLEAN /\ y.overruns \in Nat /\ y.freeze_time \in Nat
    BY <1>5, <1>6 DEF SyncOK
  <1>9. SyncTypeOK'
    <2>1. /\ enable_flag' \in BOOLEAN /\ disable_flag' \in BOOLEAN /\ active' \in BOOLEAN
          /\ freeze_shutdown' \in BOOLEAN /\ rt_overrun_freeze' \in BOOLEAN
      BY <1>7, <1>8, Zenon
    <2>2. timer_active' \in BOOLEAN /\ armed' \in BOOLEAN
      BY <1>7, <1>8, SyncTypes, Zenon DEF TimerStart
    <2>3. posts' \in Nat
      BY <1>7, SyncTypes DEF TimerStart
    <2>4. freeze_time_tics' \in Nat /\ frame_overrun_cnt' \in Nat /\ clock' \in Int
      BY <1>5, <1>7, <1>8
    <2> QED
      BY <2>1, <2>2, <2>3, <2>4 DEF SyncTypeOK
  <1>10. active' => clock' = time_tics' /\ armed' /\ (mode = "Freeze" => freeze_time_tics' = time_tics')
    BY <1>4, <1>7 DEF TimerStart
  <1> QED
    BY <1>1, <1>2, <1>3, <1>4, <1>9, <1>10

\* A checkpoint is loaded in a freeze, where all jobs of the pass are over.
LEMMA FreezeLoadInv == Inv /\ FreezeLoad => Inv'
  <1> SUFFICES ASSUME Inv, FreezeLoad PROVE Inv'
    OBVIOUS
  <1>1. pc = "fload" /\ pc' = "fpause" /\ UNCHANGED <<mode, exec_command, async_freeze_command, cmds>> /\ mode = "Freeze"
    BY DEF FreezeLoad, execVars, Inv, ClockInv, FrozenPlaces
  <1>2. CASE NothingToLoad /\ UNCHANGED loopVars
    <2>1. UNCHANGED <<loopVars, files, load_file, syncVars>> /\ UNCHANGED <<time_tics, time_last_pass_tics, next_job_call_time>>
      BY <1>2 DEF NothingToLoad, fileVars, loopVars, timeVars, jobVars
    <2>2. SchedInv' /\ Pass' /\ FrameInv' /\ \A n \in DOMAIN files' : File(files'[n])
      BY <1>1, <2>1, QuietLoop DEF AtMonitor
    <2>3. SyncTypeOK'
      BY <2>1, SyncKept, Now
    <2>4. ClockInv' /\ TimerInv'
      BY <1>1, <2>1 DEF Inv, ClockInv, TimerInv, FrozenPlaces, AtMonitor, syncVars, flagVars, timerVars
    <2>5. Types'
      BY <1>1, <2>1, <2>3 DEF Inv, Types
    <2> QED
      BY <2>2, <2>4, <2>5 DEF Inv
  <1>3. CASE LoadCheckpoint /\ skipped' = files[load_file].skipped
    <2>1. PICK s : s = files[load_file]
      OBVIOUS
    <2>2. /\ File(s) /\ files' = files /\ load_file' = NoFile
          /\ time_tics' = s.time /\ time_last_pass_tics' = s.last /\ next_frame_check_tics' = s.frame
          /\ next_tics' = s.next /\ checkpoint_times' = s.times /\ safestore_time' = s.safestore /\ late' = s.late
          /\ calls' = s.calls /\ next_job_call_time' = MaxTics /\ skipped' = s.skipped
          /\ SyncTypeOK'
          /\ active' => clock' = time_tics' /\ armed' /\ freeze_time_tics' = time_tics'
      BY <1>1, <1>3, <2>1, LoadKeeps
    <2>3. /\ Sched(s.time, s.frame, s.next, s.times, s.safestore, s.late, s.calls, s.skipped)
          /\ s.last \in 0 .. TerminateTime /\ s.time < s.frame /\ s.frame <= s.time + (s.skipped + 1) * Frame
      BY <2>2 DEF File
    <2>4. s.time \in 0 .. TerminateTime
      BY <2>3 DEF Sched
    <2>5. SchedInv'
      BY <2>2, <2>3 DEF SchedInv
    <2>6. Pass'
      BY <1>1, <2>2, <2>4, Numbers DEF Pass
    <2>7. FrameInv'
      BY <1>1, <2>2, <2>3 DEF FrameInv, AtMonitor
    <2>8. ClockInv' /\ TimerInv'
      BY <1>1, <2>2 DEF Inv, ClockInv, TimerInv, FrozenPlaces, AtMonitor
    <2>9. Types'
      BY <1>1, <2>2, <2>3, Numbers DEF Inv, Types
    <2>10. \A n \in DOMAIN files' : File(files'[n])
      BY <2>2 DEF Inv
    <2> QED
      BY <2>5, <2>6, <2>7, <2>8, <2>9, <2>10 DEF Inv
  <1> QED
    BY <1>2, <1>3 DEF FreezeLoad

\* One is loaded at the end of a frame in Run mode, which may skip that of the file.
LEMMA EndOfFrameInv == Inv /\ EndOfFrame => Inv'
  <1> SUFFICES ASSUME Inv, EndOfFrame PROVE Inv'
    OBVIOUS
  <1>1. /\ pc = "end" /\ pc' = "monitor" /\ UNCHANGED <<mode, cmds>> /\ async_freeze_command' = FALSE
        /\ exec_command' \in {exec_command, "FreezeCmd"} /\ mode = "Run"
    BY DEF EndOfFrame, Inv, Types, ClockInv, FrozenPlaces
  <1>2. CASE NothingToLoad /\ skipped' = 0 /\ UNCHANGED <<timeVars, jobVars, chkVars>>
    <2>1. /\ UNCHANGED <<time_tics, next_frame_check_tics, next_tics, next_job_call_time, calls,
                         checkpoint_times, safestore_time, late, files>>
          /\ UNCHANGED <<syncVars, load_file, time_last_pass_tics>> /\ skipped' = 0
      BY <1>2 DEF NothingToLoad, fileVars, timeVars, jobVars, chkVars
    <2>2. SchedInv'
      BY <2>1 DEF Inv, SchedInv, Sched
    <2>3. Pass' /\ \A n \in DOMAIN files' : File(files'[n])
      BY <1>1, <2>1 DEF Inv, Pass
    <2>4. FrameInv'
      BY <1>1, <2>1, Now, Numbers DEF Inv, FrameInv, AtMonitor
    <2>5. SyncTypeOK'
      BY <2>1, SyncKept, Now
    <2>6. ClockInv' /\ TimerInv'
      BY <1>1, <2>1 DEF Inv, ClockInv, TimerInv, FrozenPlaces, AtMonitor, syncVars, flagVars, timerVars
    <2>7. Types'
      BY <1>1, <2>1, <2>5 DEF Inv, Types
    <2> QED
      BY <2>2, <2>3, <2>4, <2>6, <2>7 DEF Inv
  <1>3. CASE LoadCheckpoint /\ skipped' = files[load_file].skipped + 1
    <2>1. PICK s : s = files[load_file]
      OBVIOUS
    <2>2. /\ File(s) /\ files' = files /\ load_file' = NoFile
          /\ time_tics' = s.time /\ time_last_pass_tics' = s.last /\ next_frame_check_tics' = s.frame
          /\ next_tics' = s.next /\ checkpoint_times' = s.times /\ safestore_time' = s.safestore /\ late' = s.late
          /\ calls' = s.calls /\ next_job_call_time' = MaxTics /\ skipped' = s.skipped + 1
          /\ SyncTypeOK'
          /\ active' => clock' = time_tics' /\ armed'
      BY <1>1, <1>3, <2>1, LoadKeeps
    <2>3. /\ Sched(s.time, s.frame, s.next, s.times, s.safestore, s.late, s.calls, s.skipped)
          /\ s.last \in 0 .. TerminateTime /\ s.time < s.frame /\ s.frame <= s.time + (s.skipped + 1) * Frame
      BY <2>2 DEF File
    <2>4. s.time \in 0 .. TerminateTime /\ s.time \in Nat /\ s.frame \in Nat /\ s.skipped \in Nat
      BY <2>3, Numbers DEF Sched
    <2>5. SchedInv'
      BY <2>2, <2>3, <2>4 DEF SchedInv, Sched
    <2>6. Pass'
      BY <1>1, <2>2, <2>4, Numbers DEF Pass
    <2>7. FrameInv'
      <3>1. s.frame <= s.time + (s.skipped + 1 + 1) * Frame
        <4>1. /\ (s.skipped + 1) * Frame \in Nat
              /\ (s.skipped + 1 + 1) * Frame = (s.skipped + 1) * Frame + Frame
          <5>1. PICK m \in Nat : m = s.skipped + 1
            BY <2>4
          <5>2. Frame \in Nat
            BY Numbers
          <5> QED
            BY <5>1, <5>2, Multiples
        <4>2. PICK x \in Nat : x = (s.skipped + 1) * Frame
          BY <4>1
        <4> QED
          BY <2>3, <2>4, <4>1, <4>2, Numbers
      <3> QED
        BY <1>1, <2>2, <2>3, <3>1 DEF FrameInv, AtMonitor
    <2>8. ClockInv' /\ TimerInv'
      BY <1>1, <2>2 DEF Inv, ClockInv, TimerInv, FrozenPlaces, AtMonitor
    <2>9. Types'
      BY <1>1, <2>2, <2>3, Numbers DEF Inv, Types
    <2>10. \A n \in DOMAIN files' : File(files'[n])
      BY <2>2 DEF Inv
    <2> QED
      BY <2>5, <2>6, <2>7, <2>8, <2>9, <2>10 DEF Inv
  <1> QED
    BY <1>2, <1>3 DEF EndOfFrame

\* One frame after the end of a frame is the end of the next.
LEMMA NextFrame ==
  ASSUME NEW n \in Nat, OnFrame(n)
  PROVE  OnFrame(n + Frame) /\ n % Frame = 0
  <1>1. PICK k \in Nat : n = k * Frame
    BY DEF OnFrame
  <1>2. PICK f \in Nat \ {0} : f = Frame
    BY Numbers
  <1>3. (k + 1) * f = k * f + f /\ k + 1 \in Nat
    BY <1>2, Multiples
  <1>4. OnFrame(n + Frame)
    BY <1>1, <1>2, <1>3, Zenon DEF OnFrame
  <1>5. (k * f) % f = 0
    BY <1>2, SMT
  <1> QED
    BY <1>1, <1>2, <1>4, <1>5

\* rt_monitor applies the requests and counts the frame.
LEMMA MonitorApplyInv == Inv /\ MonitorApply => Inv'
  <1> SUFFICES ASSUME Inv, MonitorApply PROVE Inv'
    OBVIOUS
  <1>1. /\ pc = "apply" /\ pc' = "top" /\ ApplyRequests(time_tics)
        /\ next_frame_check_tics' = next_frame_check_tics + Frame
        /\ UNCHANGED <<mode, exec_command, async_freeze_command, time_tics, time_last_pass_tics, next_tics,
                       next_job_call_time, calls, checkpoint_times, safestore_time, late, skipped, load_file, files, cmds>>
    BY DEF MonitorApply, execVars, jobVars, chkVars, fileVars
  <1>2. SchedInv'
    <2>1. OnFrame(next_frame_check_tics') /\ next_frame_check_tics' \in Nat /\ time_tics <= next_frame_check_tics'
      <3>1. OnFrame(next_frame_check_tics)
        BY DEF Inv, SchedInv, Sched
      <3>2. OnFrame(next_frame_check_tics')
        BY <1>1, <3>1, Now, NextFrame
      <3> QED
        BY <1>1, <3>2, Now, Numbers
    <2> QED
      BY <1>1, <2>1 DEF Inv, SchedInv, Sched
  <1>3. Pass'
    BY <1>1 DEF Inv, Pass
  <1>4. FrameInv'
    <2>1. skipped \in Nat /\ next_frame_check_tics <= time_tics + skipped * Frame
      BY <1>1 DEF Inv, FrameInv, AtMonitor, SchedInv, Sched
    <2>2. skipped * Frame \in Nat /\ (skipped + 1) * Frame = skipped * Frame + Frame
      BY <2>1, Multiples, Numbers
    <2>3. PICK x \in Nat : x = skipped * Frame
      BY <2>2
    <2>4. next_frame_check_tics' <= time_tics + (skipped + 1) * Frame /\ time_tics < next_frame_check_tics'
      BY <1>1, <2>1, <2>2, <2>3, Now, Numbers
    <2> QED
      BY <1>1, <2>4 DEF FrameInv, AtMonitor
  <1>5. SyncTypeOK'
    BY <1>1, SyncKept, Now
  <1>6. ClockInv'
    <2>1. active' => time_tics <= clock'
      <3>1. CASE active
        BY <1>1, <3>1 DEF ApplyRequests, StartRealtime, Inv, ClockInv
      <3>2. ASSUME ~active, active' PROVE clock' = time_tics
        BY <1>1, <3>2, Zenon DEF ApplyRequests, StartRealtime
      <3> QED
        BY <3>1, <3>2, Now
    <2> QED
      BY <1>1, <2>1 DEF Inv, ClockInv, FrozenPlaces, AtMonitor
  <1>7. TimerInv'
    <2>1. CASE ~active /\ enable_flag
      BY <1>1, <2>1 DEF ApplyRequests, StartRealtime, TimerStart, TimerInv
    <2>2. CASE ~(~active /\ enable_flag)
      BY <1>1, <2>2 DEF ApplyRequests, StartRealtime, timerVars, TimerInv, Inv
    <2> QED
      BY <2>1, <2>2
  <1>8. Types'
    BY <1>1, <1>5 DEF Inv, Types
  <1> QED
    BY <1>1, <1>2, <1>3, <1>4, <1>6, <1>7, <1>8 DEF Inv

\* A checkpoint is asked for, at any moment.
LEMMA CheckpointRequestInv == Inv /\ (\E t \in CheckpointArgs : CheckpointRequest(t)) => Inv'
  <1> SUFFICES ASSUME Inv, NEW t \in CheckpointArgs, CheckpointRequest(t) PROVE Inv'
    OBVIOUS
  <1>1. /\ UNCHANGED <<pc, mode, exec_command, async_freeze_command, time_tics, time_last_pass_tics,
                       next_frame_check_tics, next_job_call_time, calls, safestore_time, skipped, load_file, files>>
        /\ UNCHANGED syncVars
        /\ time_tics <= t /\ cmds < MaxCommands /\ cmds' = cmds + 1
        /\ checkpoint_times' = checkpoint_times \cup {t}
        /\ next_tics' = [next_tics EXCEPT ![WriteJob] = Sooner(t)]
        /\ late' = (late \/ TooLate(t))
    BY DEF CheckpointRequest, Requested, execVars, timeVars, fileVars
  <1>2. SchedInv
    BY DEF Inv
  <1>3. /\ checkpoint_times \in SUBSET CheckpointArgs /\ next_tics[WriteJob] = NextWrite(checkpoint_times)
        /\ (~late => \A c \in checkpoint_times : time_tics <= c) /\ checkpoint_times \subseteq Nat
    BY <1>2, Numbers DEF SchedInv, Sched
  <1>4. PICK w \in 0 .. MaxTics : w = next_tics[WriteJob]
    BY Now, Numbers
  <1>5. t \in 0 .. MaxTics /\ MaxTics \in Nat
    BY Numbers
  <1>6. Sooner(t) \in {w, t} /\ Sooner(t) <= w /\ Sooner(t) <= t
    <2>1. {w, t} \in SUBSET Nat
      BY <1>5
    <2>2. Min({w, t}) \in {w, t} /\ \A n \in {w, t} : Min({w, t}) <= n
      BY <2>1, MinIsLeast
    <2> QED
      BY <1>4, <2>2 DEF Sooner
  <1>7. /\ next_tics' \in [Job -> 0 .. MaxTics] /\ next_tics'[WriteJob] = Sooner(t)
        /\ (\A j \in UserJob : next_tics'[j] = next_tics[j]) /\ next_tics'[SafestoreJob] = next_tics[SafestoreJob]
    BY <1>1, <1>5, <1>6, Now, Numbers
  <1>8. /\ late' \in BOOLEAN /\ (~late' => ~late /\ ~TooLate(t))
        /\ checkpoint_times' \in SUBSET CheckpointArgs
        /\ ~late' => \A c \in checkpoint_times' : time_tics <= c
    <2>1. late' \in BOOLEAN /\ (~late' => ~late /\ ~TooLate(t))
      BY <1>1, Zenon
    <2> QED
      BY <1>1, <1>3, <2>1
  <1>9. Sooner(t) = NextWrite(checkpoint_times')
    <2>1. PICK times : times = checkpoint_times'
      OBVIOUS
    <2>2. times \in SUBSET CheckpointArgs /\ times # {} /\ times = checkpoint_times \cup {t}
      BY <1>1, <1>8, <2>1
    <2>3. NextWrite(times) \in times /\ \A c \in times : NextWrite(times) <= c
      BY <2>2, NextWriteIsFirst
    <2>4. /\ checkpoint_times = {} => w = MaxTics
          /\ checkpoint_times # {} => w \in checkpoint_times
          /\ \A c \in checkpoint_times : w <= c
      BY <1>3, <1>4, NextWriteIsFirst
    <2>5. NextWrite(times) \in Nat /\ t \in times /\ (checkpoint_times # {} => w \in times)
      BY <2>2, <2>3, <2>4, Numbers
    <2>6. NextWrite(times) <= t /\ (checkpoint_times # {} => NextWrite(times) <= w)
      BY <2>3, <2>5
    <2>7. NextWrite(times) = t \/ w <= NextWrite(times)
      BY <2>2, <2>3, <2>4
    <2> QED
      BY <1>5, <1>6, <2>1, <2>4, <2>5, <2>6, <2>7
  <1>10. SchedInv'
    BY <1>1, <1>2, <1>7, <1>8, <1>9 DEF SchedInv, Sched
  <1>11. Pass'
    <2>1. /\ \A j \in UserJob : Waits(j) => Waits(j)'
          /\ Waits(SafestoreJob) => Waits(SafestoreJob)'
      BY <1>1, <1>7 DEF Waits
    <2>2. ASSUME pc \in {"safe", "advance"}, ~late' PROVE InTime'
      <3>1. InTime /\ t # time_tics /\ ~(t < NextTime)
        BY <1>8, <2>2 DEF Inv, Pass, TooLate
      <3>2. NextTime' = NextTime
        BY <1>1 DEF NextTime
      <3>3. time_tics < next_frame_check_tics
        BY <2>2 DEF Inv, FrameInv, AtMonitor
      <3>4. NextTime = StopTime(time_tics, next_job_call_time, next_frame_check_tics)
        BY DEF NextTime, StopTime
      <3>5. NextTime \in Nat
        BY <3>3, <3>4, StopIsNext, Now
      <3>6. time_tics < t /\ NextTime <= t
        BY <1>1, <1>5, <3>1, <3>5, Now
      <3> QED
        BY <1>1, <3>1, <3>2, <3>6 DEF InTime
    <2> QED
      BY <1>1, <2>1, <2>2 DEF Inv, Pass
  <1>12. FrameInv'
    BY <1>1 DEF Inv, FrameInv, AtMonitor
  <1>13. SyncTypeOK'
    BY <1>1, SyncKept, Now
  <1>14. ClockInv' /\ TimerInv'
    BY <1>1 DEF Inv, ClockInv, TimerInv, AtMonitor, syncVars, flagVars, timerVars
  <1>15. Types'
    BY <1>1, <1>13, Numbers DEF Inv, Types
  <1> QED
    BY <1>1, <1>10, <1>11, <1>12, <1>14, <1>15 DEF Inv

\* The time moves on to the first of the calls and the end of the frame, over no call.
LEMMA AdvanceSimTimeInv == Inv /\ AdvanceSimTime => Inv'
  <1> SUFFICES ASSUME Inv, AdvanceSimTime PROVE Inv'
    OBVIOUS
  <1>1. /\ UNCHANGED <<mode, async_freeze_command, next_frame_check_tics, next_tics, calls, checkpoint_times,
                       safestore_time, late, skipped, load_file, files, cmds>>
        /\ UNCHANGED syncVars
        /\ pc = "advance" /\ exec_command # "FreezeCmd" /\ exec_command' \in {exec_command, "NoCmd"}
        /\ time_last_pass_tics' = time_tics /\ time_tics' = NextTime
        /\ next_job_call_time' = time_tics' + Frame
        /\ pc' = IF TerminateTime <= time_tics THEN "done"
                 ELSE IF time_tics' = next_frame_check_tics THEN "end" ELSE "top"
    BY NoFreezeInPass DEF AdvanceSimTime, chkVars, fileVars
  <1>2. PICK t \in 0 .. TerminateTime :
          /\ t = time_tics' /\ time_tics <= t /\ t <= next_frame_check_tics /\ t <= next_job_call_time
    <2>1. time_tics < next_frame_check_tics
      BY <1>1 DEF Inv, FrameInv, AtMonitor
    <2>2. NextTime = StopTime(time_tics, next_job_call_time, next_frame_check_tics)
      BY DEF NextTime, StopTime
    <2> QED
      BY <1>1, <2>1, <2>2, StopIsNext, Now
  <1>3. /\ SchedInv /\ (\A j \in UserJob : Waits(j)) /\ Waits(SafestoreJob)
        /\ ~late => \A c \in checkpoint_times : t <= c
    BY <1>1, <1>2 DEF Inv, Pass, InTime
  <1>4. SchedInv'
    <2>1. ASSUME NEW j \in UserJob PROVE t <= next_tics[j] /\ next_tics[j] <= t + Cycle[j]
      <3>1. time_tics < next_tics[j] /\ next_job_call_time <= next_tics[j] /\ next_tics[j] <= time_tics + Cycle[j]
        BY <1>3 DEF Waits, SchedInv, Sched
      <3>2. next_tics[j] \in Nat /\ Cycle[j] \in Nat
        BY Now, Numbers
      <3> QED
        BY <1>2, <3>1, <3>2, Now, Numbers
    <2>3. t <= next_tics[SafestoreJob] /\ next_tics[SafestoreJob] <= t + SafestorePeriod
      <3>1. /\ next_job_call_time <= next_tics[SafestoreJob]
            /\ next_tics[SafestoreJob] <= time_tics + SafestorePeriod
        BY <1>3 DEF Waits, SchedInv, Sched
      <3>2. next_tics[SafestoreJob] \in Nat /\ SafestorePeriod \in Nat
        BY Now, Numbers
      <3> QED
        BY <1>2, <3>1, <3>2, Now, Numbers
    <2> QED
      BY <1>1, <1>2, <1>3, <2>1, <2>3 DEF SchedInv, Sched
  <1>5. next_job_call_time' \in Nat /\ time_tics' < next_job_call_time' /\ time_last_pass_tics' \in 0 .. TerminateTime
    BY <1>1, <1>2, Now, Numbers
  <1>6. Pass'
    BY <1>1, <1>5 DEF Pass
  <1>7. FrameInv'
    <2>1. PICK x : x = (skipped + 1) * Frame
      OBVIOUS
    <2>2. x \in Nat
      <3>1. skipped + 1 \in Nat
        BY <1>3 DEF SchedInv, Sched
      <3> QED
        BY <2>1, <3>1, Multiples, Numbers
    <2>3. next_frame_check_tics <= time_tics + x
      BY <2>1 DEF Inv, FrameInv
    <2>4. next_frame_check_tics <= t + x
      BY <1>2, <2>2, <2>3, Now, Numbers
    <2>5. pc' \in {"top", "end", "done"} /\ (pc' = "end" => t = next_frame_check_tics)
          /\ (pc' = "top" => t < next_frame_check_tics)
      BY <1>1, <1>2, Now, Numbers
    <2> QED
      BY <1>1, <1>2, <2>1, <2>4, <2>5 DEF FrameInv, AtMonitor
  <1>8. SyncTypeOK' /\ ClockInv' /\ TimerInv'
    BY <1>1, PassSync
  <1>9. Types'
    BY <1>1, <1>5, <1>8 DEF Inv, Types
  <1> QED
    BY <1>1, <1>4, <1>6, <1>7, <1>8, <1>9 DEF Inv

\* Every step keeps it.
LEMMA InvNext == Inv /\ [Next]_vars => Inv'
  <1> SUFFICES ASSUME Inv, [Next]_vars PROVE Inv'
    OBVIOUS
  <1>1. CASE Loop
    BY <1>1, CallUserJobsInv, WriteCheckpointInv, SafestoreCheckpointInv, AdvanceSimTimeInv, EndOfFrameInv,
       MonitorInv, MonitorApplyInv, FreezeInv, FreezeLoadInv, Zenon DEF Loop
  <1>2. CASE UNCHANGED vars
    <2>1. UNCHANGED <<loopVars, fileVars, syncVars, execVars>> /\ UNCHANGED <<pc, cmds>>
      BY <1>2 DEF vars
    <2>2. /\ UNCHANGED <<loopVars, files, load_file, mode, exec_command, async_freeze_command>>
          /\ UNCHANGED <<time_tics, time_last_pass_tics, next_job_call_time>>
      BY <2>1 DEF fileVars, execVars, loopVars, timeVars, jobVars
    <2>3. SchedInv' /\ Pass' /\ FrameInv' /\ \A n \in DOMAIN files' : File(files'[n])
      BY <2>1, <2>2, QuietLoop DEF AtMonitor
    <2>4. SyncTypeOK'
      BY <2>1, SyncKept, Now
    <2>5. ClockInv' /\ TimerInv'
      BY <2>1, <2>2 DEF Inv, ClockInv, TimerInv, AtMonitor, syncVars, flagVars, timerVars
    <2>6. Types'
      BY <2>1, <2>2, <2>4 DEF Inv, Types
    <2> QED
      BY <2>3, <2>5, <2>6 DEF Inv
  <1> QED
    BY <1>1, <1>2, OutsideInv, CheckpointRequestInv, Zenon DEF Next

(***************************************************************************)
(* The theorems.                                                           *)
(***************************************************************************)
\* The count of multiples up to a time, from the next multiple.
LEMMA Quotient ==
  ASSUME NEW t \in Nat, NEW c \in Nat \ {0}, NEW q \in Nat, t < q * c, q * c <= t + c
  PROVE  q = t \div c + 1
  <1>1. PICK d \in Nat, r \in 0 .. c - 1 : d = t \div c /\ r = t % c /\ t = c * d + r
    BY SMT
  <1>2. c * d + r < q * c /\ q * c <= c * d + r + c
    BY <1>1
  <1>3. d < q
    <2>1. SUFFICES ASSUME q <= d PROVE FALSE
      BY <1>1
    <2>2. q * c <= c * d
      BY <1>1, <2>1, SMT
    <2> QED
      BY <1>1, <1>2, <2>2, SMT
  <1>4. q <= d + 1
    <2>1. SUFFICES ASSUME d + 2 <= q PROVE FALSE
      BY <1>1
    <2>2. c * d + 2 * c <= q * c
      BY <1>1, <2>1, SMT
    <2> QED
      BY <1>1, <1>2, <2>2, SMT
  <1> QED
    BY <1>1, <1>3, <1>4

\* Inv holds in every behaviour: among the rest, each checkpoint written holds a state in which a
\* pass may start, in spite of the jobs that have had their call of the present time when it is
\* written (write_checkpoint, load_checkpoint_job).
THEOREM RestartInvariant == Spec => []Inv
<1>1. Init => Inv
  BY InitInv
<1>2. Inv /\ [Next]_vars => Inv'
  BY InvNext
<1> QED
  BY <1>1, <1>2, PTL DEF Spec

\* ScheduleRestored holds in every behaviour: whatever load_checkpoint_job loads and whenever it
\* does, no call of a job is lost or made twice, and the frames stay where they were.
THEOREM ScheduleIsRestored == Spec => []ScheduleRestored
<1>1. ASSUME Inv PROVE AllCalled
  <2> SUFFICES ASSUME pc = "advance", NEW j \in UserJob PROVE calls[j] = time_tics \div Cycle[j] + 1
    BY DEF AllCalled
  <2>1. /\ time_tics < next_tics[j] /\ next_tics[j] <= time_tics + Cycle[j]
        /\ next_tics[j] = calls[j] * Cycle[j] /\ calls[j] \in Nat
    BY <1>1 DEF Inv, Pass, Waits, SchedInv, Sched
  <2>2. time_tics \in Nat /\ Cycle[j] \in Nat \ {0}
    BY <1>1, Now, Numbers
  <2>3. PICK q \in Nat, c \in Nat \ {0} : q = calls[j] /\ c = Cycle[j]
    BY <2>1, <2>2
  <2> QED
    BY <2>1, <2>2, <2>3, Quotient
<1>2. ASSUME Inv PROVE FramesKept
  <2>1. OnFrame(next_frame_check_tics)
    BY <1>2 DEF Inv, SchedInv, Sched
  <2>2. next_frame_check_tics % Frame = 0
    BY <1>2, <2>1, Now, NextFrame
  <2> QED
    BY <1>2, <2>2, Now DEF FramesKept, Inv, FrameInv
<1>3. ASSUME Inv PROVE TypeOK
  <2>1. /\ time_tics \in 0 .. TerminateTime /\ next_frame_check_tics \in Nat /\ next_tics \in [Job -> 0 .. MaxTics]
        /\ checkpoint_times \subseteq CheckpointArgs /\ safestore_time \in Nat /\ calls \in [UserJob -> Nat]
        /\ skipped \in Nat /\ late \in BOOLEAN
    BY <1>3 DEF Inv, SchedInv, Sched
  <2> QED
    BY <1>3, <2>1 DEF Inv, Types, TypeOK
<1>4. Inv => ScheduleRestored
  BY <1>1, <1>2, <1>3 DEF ScheduleRestored
<1> QED
  BY <1>4, RestartInvariant, PTL

\* CheckpointsDue holds in every behaviour, whenever the requests come: unless one of them was for a
\* time the loop was just leaving behind, a request is forgotten only when it has been written,
\* although the job that writes looks at the first of them only (checkpoint, write_checkpoint).
THEOREM CheckpointsAreDue == Spec => []CheckpointsDue
<1>1. ASSUME Inv PROVE CheckpointsDue
  <2> SUFFICES ASSUME pc = "advance"
               PROVE  /\ ~late => \A t \in checkpoint_times : t > time_tics
                      /\ next_tics[WriteJob] = NextWrite(checkpoint_times)
                      /\ next_tics[SafestoreJob] > time_tics /\ next_tics[SafestoreJob] <= time_tics + SafestorePeriod
    BY DEF CheckpointsDue
  <2>1. (~late => \A t \in checkpoint_times : time_tics < t) /\ time_tics < next_tics[SafestoreJob]
    BY <1>1 DEF Inv, Pass, Waits, InTime
  <2>2. next_tics[WriteJob] = NextWrite(checkpoint_times) /\ next_tics[SafestoreJob] <= time_tics + SafestorePeriod
    BY <1>1 DEF Inv, SchedInv, Sched
  <2>3. checkpoint_times \subseteq Nat /\ next_tics[SafestoreJob] \in Nat /\ time_tics \in Nat
    BY <1>1, Now, Numbers DEF Inv, SchedInv, Sched
  <2> QED
    BY <2>1, <2>2, <2>3
<1>2. Inv => CheckpointsDue
  BY <1>1
<1> QED
  BY <1>2, RestartInvariant, PTL

\* RealTimeKept holds of every behaviour: the process never sleeps without a timer that will wake
\* it, no frame starts early, and a freeze leaves the clock where it was (rt_monitor,
\* freeze_pause, unfreeze, adjust_ref_time).
THEOREM RealTimeIsKept == Spec => RealTimeKept
<1>1. ASSUME Inv PROVE SomethingWakes /\ NeverEarly
  <2>1. SomethingWakes
    BY <1>1 DEF Inv, TimerInv, SomethingWakes
  <2>2. NeverEarly
    <3>1. CASE pc = "apply"
      <4>1. mode # "Freeze" /\ (active => time_tics <= clock)
        BY <1>1, <3>1 DEF Inv, ClockInv, FrozenPlaces
      <4> QED
        BY <1>1, <3>1, <4>1, SyncTypes, Now DEF NeverEarly, Lead
    <3>2. CASE pc \in {"fload", "ftest"}
      <4>1. mode = "Freeze" /\ (active => freeze_time_tics <= clock)
        BY <1>1, <3>2 DEF Inv, ClockInv, FrozenPlaces
      <4> QED
        BY <1>1, <3>2, <4>1, SyncTypes DEF NeverEarly, Lead
    <3> QED
      BY <3>1, <3>2 DEF NeverEarly
  <2> QED
    BY <2>1, <2>2
<1>2. ASSUME Inv, [Next]_vars, mode' # mode, active, pc' # "done" PROVE Lead' = Lead
  <2>1. CASE FreezeLoop
    <3>1. mode' = "Freeze" /\ mode # "Freeze" /\ clock' = clock /\ freeze_time_tics' = time_tics
      BY <1>2, <2>1 DEF FreezeLoop, FreezeInit
    <3> QED
      BY <3>1 DEF Lead
  <2>2. CASE LeaveFreeze
    <3>1. /\ mode' = "Run" /\ mode = "Freeze" /\ time_tics' = time_tics
          /\ clock' = clock - (freeze_time_tics - time_tics)
      BY <1>2, <2>2 DEF LeaveFreeze, Unfreeze, AdjustRefTime, loopVars, timeVars, Inv, Types
    <3> QED
      BY <1>2, <3>1, SyncTypes, Now DEF Lead
  <2>3. FreezeLoop \/ LeaveFreeze
    BY <1>2 DEF Next, Loop, vars, execVars, Unmoved, CallUserJobs, WriteCheckpoint, SafestoreCheckpoint,
       AdvanceSimTime, EndOfFrame, MonitorOverrun, MonitorOnTime, MonitorInactive, MonitorPause, MonitorSpin,
       MonitorApply, FreezeLoad, FreezePause, FreezeSem, FreezeSpin, FreezeStays, ClockTicks, TimerExpires,
       FreezeRequest, EnableRequest, DisableRequest, RunRequest, CheckpointRequest, LoadRequest
  <2> QED
    BY <2>1, <2>2, <2>3
<1>3. Inv => SomethingWakes /\ NeverEarly
  BY <1>1
<1>4. Inv /\ [Next]_vars => [mode' # mode /\ active /\ pc' # "done" => Lead' = Lead]_vars
  BY <1>2
<1> QED
  BY <1>3, <1>4, RestartInvariant, PTL DEF RealTimeKept, FreezeKeepsLead, Spec
==============================================================================
