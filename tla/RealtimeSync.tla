---------------------------- MODULE RealtimeSync ----------------------------
(***************************************************************************)
(* How a simulation keeps step with a wall clock: RealtimeSync with its    *)
(* clock and the interval timer that lets the process sleep.  Once per     *)
(* frame rt_monitor waits for the clock, or counts an overrun; in freeze   *)
(* mode freeze_pause does the same against a time of its own.  The         *)
(* operators here are the jobs of the sync object; the executive that      *)
(* calls them, and the checkpoints that replace their state, are in        *)
(* CheckPointRestart.                                                      *)
(*                                                                         *)
(* Times are tics.  Frames are long enough for the timer (10 ms), and the  *)
(* limit on the time of an overrun is off, which is its default.           *)
(***************************************************************************)
EXTENDS Integers

CONSTANTS
  Frame, FreezeFrame,  \* software_frame and freeze_frame
  MaxOverruns,         \* rt_max_overrun_cnt
  MaxLate              \* bound: how far the clock runs past the end of a frame

ASSUME RealtimeSyncAssumption ==
  /\ {Frame, FreezeFrame, MaxOverruns} \subseteq Nat \ {0}
  /\ MaxLate \in Nat

VARIABLES
  enable_flag, disable_flag,  \* requests of clients
  active,
  freeze_time_tics,           \* the time that goes on in a freeze
  frame_overrun_cnt,
  freeze_shutdown,            \* too many overruns: the freeze is the end
  rt_overrun_freeze,          \* too many overruns are a freeze, not the end at once
  timer_active,               \* ITimer::active
  armed,                      \* the interval timer of the system is set
  posts,                      \* of the semaphore its signal posts
  clock                       \* clock_time(): the wall clock less ref_time_tics

timerVars == <<timer_active, armed, posts>>
flagVars  == <<enable_flag, disable_flag, active>>
countVars == <<frame_overrun_cnt, freeze_shutdown, rt_overrun_freeze>>
syncVars  == <<flagVars, countVars, freeze_time_tics, timerVars, clock>>

SyncTypeOK ==
  /\ {enable_flag, disable_flag, active, freeze_shutdown, rt_overrun_freeze} \subseteq BOOLEAN
  /\ {timer_active, armed} \subseteq BOOLEAN
  /\ {freeze_time_tics, frame_overrun_cnt, posts} \subseteq Nat /\ clock \in Int

(***************************************************************************)
(* The clock and the timer.                                                *)
(***************************************************************************)
Later(t, u) == IF t < u THEN u ELSE t

TimerStart == timer_active' = TRUE /\ armed' = TRUE /\ posts' = 0
TimerStopActive == armed' = FALSE /\ UNCHANGED <<timer_active, posts>>  \* the mutant
TimerStop  == timer_active' = FALSE /\ armed' = FALSE /\ UNCHANGED posts

\* The wall clock goes on, whatever the simulation does.
Tick(end_of_frame) ==
  /\ active /\ clock < end_of_frame + MaxLate
  /\ clock' = clock + 1
  /\ UNCHANGED <<flagVars, countVars, freeze_time_tics, timerVars>>

\* SIGALRM, for which the timer is set once: the handler posts the semaphore.
Alarm ==
  /\ armed /\ armed' = FALSE /\ posts' = posts + 1
  /\ UNCHANGED <<flagVars, countVars, freeze_time_tics, timer_active, clock>>

\* pause, where it waits.
SemWait ==
  /\ posts > 0 /\ posts' = posts - 1
  /\ UNCHANGED <<flagVars, countVars, freeze_time_tics, timer_active, armed, clock>>

(***************************************************************************)
(* Starting, and starting again after a checkpoint.                        *)
(***************************************************************************)
SyncInit(actives) ==
  /\ active \in actives /\ enable_flag = FALSE /\ disable_flag = FALSE
  /\ frame_overrun_cnt = 0 /\ freeze_shutdown = FALSE /\ rt_overrun_freeze \in BOOLEAN
  /\ freeze_time_tics = 0 /\ clock = 0
  /\ timer_active = active /\ armed = active /\ posts = 0

StartRealtime(starts, ref) ==
  IF starts THEN clock' = ref /\ TimerStart ELSE UNCHANGED <<clock, timerVars>>

\* What a checkpoint holds of the sync object and of the timer.
SyncState ==
  [enable |-> enable_flag, disable |-> disable_flag, active |-> active,
   overruns |-> frame_overrun_cnt, shutdown |-> freeze_shutdown, freeze |-> rt_overrun_freeze,
   freeze_time |-> freeze_time_tics, timer_active |-> timer_active]

\* The state s of a checkpoint is back; restart sets the clock and the timer anew.
RestartSync(s, frozen, ref) ==
  /\ enable_flag' = s.enable /\ disable_flag' = s.disable /\ active' = s.active
  /\ frame_overrun_cnt' = s.overruns /\ freeze_shutdown' = s.shutdown
  /\ rt_overrun_freeze' = s.freeze
  /\ freeze_time_tics' = IF frozen THEN ref ELSE s.freeze_time
  /\ clock' = ref
  /\ IF s.active THEN TimerStart ELSE timer_active' = s.timer_active /\ UNCHANGED <<armed, posts>>

(***************************************************************************)
(* rt_monitor, at the end of a frame: the overrun or the wait, then the    *)
(* requests of the clients.                                                *)
(***************************************************************************)
TooManyOverruns == frame_overrun_cnt + 1 >= MaxOverruns

Overrun(time) ==
  /\ active /\ clock > time
  /\ frame_overrun_cnt' = frame_overrun_cnt + 1
  /\ freeze_shutdown' = (freeze_shutdown \/ (TooManyOverruns /\ rt_overrun_freeze))
  /\ TimerStop
  /\ UNCHANGED <<flagVars, rt_overrun_freeze, freeze_time_tics, clock>>

OnTime(time) ==
  /\ active /\ clock <= time
  /\ frame_overrun_cnt' = 0
  /\ UNCHANGED <<flagVars, freeze_shutdown, rt_overrun_freeze, freeze_time_tics, timerVars, clock>>

\* clock_spin and the reset of the timer, when pause has returned.
SpinAndReset(time) ==
  /\ clock' = Later(clock, time) /\ TimerStart
  /\ UNCHANGED <<flagVars, countVars, freeze_time_tics>>

ApplyRequests(time) ==
  /\ active' = IF active THEN ~disable_flag ELSE enable_flag
  /\ enable_flag' = FALSE /\ disable_flag' = FALSE
  /\ StartRealtime(~active /\ enable_flag, time)
  /\ UNCHANGED <<countVars, freeze_time_tics>>

(***************************************************************************)
(* Freeze mode: freeze_init; freeze_pause up to the wait and after it,     *)
(* where the round in which it is turned off still waits; unfreeze.        *)
(***************************************************************************)
FreezeInit(time) ==
  /\ IF active THEN TimerStart ELSE UNCHANGED timerVars
  /\ freeze_time_tics' = time
  /\ UNCHANGED <<flagVars, countVars, clock>>

FreezePauseInactive ==
  /\ ~active /\ active' = enable_flag
  /\ enable_flag' = FALSE /\ disable_flag' = FALSE
  /\ StartRealtime(enable_flag, freeze_time_tics)
  /\ UNCHANGED <<countVars, freeze_time_tics>>

FreezePauseActive ==
  /\ active /\ active' = ~disable_flag
  /\ enable_flag' = FALSE /\ disable_flag' = FALSE
  /\ UNCHANGED <<countVars, freeze_time_tics, timerVars, clock>>

FreezeFrameEnd ==
  /\ freeze_time_tics' = freeze_time_tics + FreezeFrame
  /\ clock' = Later(clock, freeze_time_tics') /\ TimerStart
  /\ UNCHANGED <<flagVars, countVars>>

\* adjust_ref_time: the clock is set back by what the freeze took.
AdjustRefTime(tics) == clock' = clock - tics

Unfreeze(time) ==
  /\ IF active THEN AdjustRefTime(freeze_time_tics - time) /\ TimerStart
               ELSE UNCHANGED <<clock, timerVars>>
  /\ UNCHANGED <<flagVars, countVars, freeze_time_tics>>
=============================================================================
