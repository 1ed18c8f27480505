------------------------------ MODULE SysThread ------------------------------
(***************************************************************************)
(* The threads Trick makes for itself (ThreadBase, SysThread): how the     *)
(* main thread asks one to stop, waits for its end or gives it up, and     *)
(* makes it pause at the top of its loop while a checkpoint is reloaded.   *)
(*                                                                         *)
(* step[t] is the place of a thread in its own loop; "none" is a thread    *)
(* that was not created, "ended" one that called pthread_exit.  id[t] is   *)
(* (pthread_id # 0).  The condition variables are waited on in loops and   *)
(* signalled with every change of what they wait for, so a wait is a       *)
(* guard.  The threads here are not cancellable: cancel_thread only sets   *)
(* the flag.                                                               *)
(***************************************************************************)
EXTENDS Naturals, FiniteSets

CONSTANTS
  SysThreads   \* the threads of the class SysThread

VARIABLES
  step, id, should_shutdown, should_pause, has_paused,
  all_sys_threads,   \* the list of the threads that exist
  list_mutex,        \* its mutex: held over several steps by the main thread only
  shutdown_finished

pauseVars  == <<should_pause, has_paused>>
listVars   == <<all_sys_threads, list_mutex, shutdown_finished>>
threadVars == <<step, id, should_shutdown, pauseVars, listVars>>

ThreadTypeOK(Steps) ==
  /\ step \in [SysThreads -> Steps]
  /\ id \in [SysThreads -> BOOLEAN] /\ should_shutdown \in [SysThreads -> BOOLEAN]
  /\ should_pause \in [SysThreads -> BOOLEAN] /\ has_paused \in [SysThreads -> BOOLEAN]
  /\ all_sys_threads \subseteq SysThreads
  /\ list_mutex \in BOOLEAN /\ shutdown_finished \in BOOLEAN

\* The threads of Running exist and are at the top of their loops.
ThreadInit(Running) ==
  /\ step = [t \in SysThreads |-> IF t \in Running THEN "top" ELSE "none"]
  /\ id = [t \in SysThreads |-> t \in Running]
  /\ should_shutdown = [t \in SysThreads |-> FALSE]
  /\ should_pause = [t \in SysThreads |-> FALSE]
  /\ has_paused = [t \in SysThreads |-> TRUE]
  /\ all_sys_threads = Running
  /\ list_mutex = FALSE /\ shutdown_finished = FALSE

Goto(t, s) == step' = [step EXCEPT ![t] = s]
Set(f, t, v) == [f EXCEPT ![t] = v]

--------------------------------------------------------------------------------
(***************************************************************************)
(* Of the thread itself.                                                   *)
(***************************************************************************)
\* The constructor, which puts the object into the list of all threads.
NewThread(t) ==
  /\ ~list_mutex
  /\ step[t] = "none"
  /\ all_sys_threads' = all_sys_threads \cup {t}
  /\ UNCHANGED <<list_mutex, shutdown_finished>>

\* The destructor.
DeleteThread(t) ==
  /\ ~list_mutex
  /\ all_sys_threads' = IF shutdown_finished THEN all_sys_threads ELSE all_sys_threads \ {t}
  /\ UNCHANGED <<list_mutex, shutdown_finished>>

\* test_shutdown: the thread goes to quit if it was asked to, else on.
TestShutdown(t, quit, on) == Goto(t, IF should_shutdown[t] THEN quit ELSE on)

\* test_shutdown and then test_pause, at the top of a loop: the thread ends, or says that it has
\* paused and waits, or says that it runs.  (A request between the two tests is one before or after
\* both.)
TopOfLoop(t, quit, on) ==
  IF should_shutdown[t]
  THEN Goto(t, quit) /\ UNCHANGED pauseVars
  ELSE /\ Goto(t, IF should_pause[t] THEN "paused" ELSE on)
       /\ has_paused' = Set(has_paused, t, should_pause[t])
       /\ UNCHANGED should_pause

\* The end of the wait in test_pause.
WakeUp(t, on) ==
  /\ step[t] = "paused" /\ ~should_pause[t]
  /\ Goto(t, on)
  /\ has_paused' = Set(has_paused, t, FALSE)
  /\ UNCHANGED should_pause

(***************************************************************************)
(* Of the main thread.                                                     *)
(***************************************************************************)
\* force_thread_to_pause: the request, and the end of the wait for it.
RequestPause(t) == should_pause' = Set(should_pause, t, TRUE) /\ UNCHANGED has_paused
PausedUnasked(t) == TRUE
Paused(t) == has_paused[t]

Unpause(t) == should_pause' = Set(should_pause, t, FALSE) /\ UNCHANGED has_paused

\* request_shutdown and, for a thread that is not cancellable, cancel_thread.
RequestShutdown(T) ==
  should_shutdown' = [t \in SysThreads |-> should_shutdown[t] \/ t \in T]

\* join_thread returns: at once without an id, else when the thread has ended.
CanJoinAnyway(t) == TRUE
CanJoin(t) == id[t] => step[t] = "ended"
\* What is left behind by join_thread and by abandon_thread.
ClearId(t) == id' = Set(id, t, FALSE)

\* The beginning and the end of ensureAllShutdown, which holds the mutex of the list.
LockAndCancelAll ==
  /\ ~list_mutex /\ list_mutex' = TRUE
  /\ RequestShutdown(all_sys_threads)
  /\ UNCHANGED <<all_sys_threads, shutdown_finished>>

UnlockAllJoined ==
  /\ list_mutex' = FALSE /\ shutdown_finished' = TRUE
  /\ UNCHANGED all_sys_threads
==============================================================================
