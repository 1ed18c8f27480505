----------------------- MODULE VariableServer_proofs -----------------------
(***************************************************************************)
(* The inductive invariant of the variable server and of its threads, and  *)
(* with it that a reload is harmless, that no reference to a session       *)
(* outlives its use and that the maps hold the sessions that are served,   *)
(* for every set of clients and every number of reloads.                   *)
(***************************************************************************)
EXTENDS VariableServer, TLAPS

\* The steps of a session thread while it starts, and after status SUCCESS was told.
Starting == {"start", "add_vst", "accept", "fail", "reject", "add_session", "success"}
Serving == {"top", "paused", "message", "command", "apply", "blocked", "copy", "exit_session", "exit_vst", "cleanup"}
\* Where a session thread is in var_server_threads: from add_vst to delete_vst.
InMap == (Starting \ {"start", "add_vst", "reject"}) \cup (Serving \ {"cleanup"})
\* Where the main thread is from the first request to shut down on.
Stopping == {"request", "poll", "reap", "ensure", "join_all", "exited"}
\* The listener waits for the status of the session thread it made.
Accepting(s) == vst = s /\ step[Listener] = "accept"

\* The status a thread has told says where it is, and the listener waits while there is none; a
\* thread is deleted after it ended, and runs only while it is on the list of all threads.
StatusInv(s) ==
  /\ step[s] = "none" => ~id[s] /\ status[s] = "PENDING"
  /\ step[s] \in Starting => Accepting(s) /\ status[s] = "PENDING"
  /\ step[s] \in Serving => status[s] = "SUCCESS"
  /\ step[s] = "ended" /\ status[s] = "PENDING" => Accepting(s) /\ should_shutdown[s]
  /\ deleted[s] => step[s] = "ended"
  /\ step[s] \notin {"none", "ended"} => s \in all_sys_threads

\* A running thread is in the maps between its steps that add and remove it; only one cancelled
\* by the shutdown may leave itself in them.
MapInv(s) ==
  /\ step[s] \in InMap => s \in var_server_threads
  /\ s \in var_server_threads =>
       step[s] \in InMap \/ (~id[s] /\ step[s] \in {"cleanup", "ended"} /\ main \in Stopping)
  /\ s \in var_server_sessions =>
       s \in var_server_threads /\ step[s] \notin {"accept", "fail", "add_session"} /\ (step[s] = "exit_vst" => ~id[s])

\* A thread has lost its pthread id when it was never made, ended or is being shut down.
IdInv(s) ==
  /\ ~id[s] => step[s] \in {"none", "ended"} \/ should_shutdown[s]
  /\ ~id[s] /\ main \notin Stopping => step[s] = "none" \/ status[s] = "FAIL"
  /\ should_shutdown[s] => main \in Stopping

\* A thread holds a reference of a variable only while it serves, and a stale one only after it
\* left the map.
RefsInv(s) ==
  /\ refs[s] # "none" => step[s] \in Serving
  /\ refs[s] = "stale" => s \notin var_server_threads

\* The listener: the session it makes is not running yet, the one it joins has failed, and it is
\* paused only where it looks at should_pause.
ListenInv ==
  /\ step[Listener] \in {"create", "accept", "join", "delete"} => vst \in Session
  /\ step[Listener] = "create" => step[vst] = "none" /\ vst \in all_sys_threads
  /\ step[Listener] \in {"join", "delete"} => status[vst] = "FAIL"
  /\ Listener \in all_sys_threads
  /\ ~id[Listener] => step[Listener] = "ended"
  /\ should_shutdown[Listener] => main \in Stopping
  /\ has_paused[Listener] /\ ~should_shutdown[Listener] => step[Listener] \in {"top", "paused"}

\* The two mutexes are held by the main thread in just these steps.
MutexInv ==
  /\ map_mutex <=> (main \in {"copy", "suspend", "wait_session", "resume"})
  /\ list_mutex <=> (main = "join_all")

\* The sessions between suspendPreCheckpointReload and resumePostCheckpointReload, while the main
\* thread goes through the map.
Suspended ==
  CASE main \in {"suspend", "wait_session"} -> var_server_threads \ todo
    [] main \in {"reload", "resume_lock"} -> var_server_threads
    [] main = "resume" -> todo
    [] OTHER -> {}

\* A thread that says it has paused is at the top of its loop or has not reached it, and is
\* suspended with the wish of its client saved; all others do what their clients want.
PauseInv(s) ==
  /\ has_paused[s] /\ ~should_shutdown[s] => step[s] \in Starting \cup {"none", "ended", "top", "paused"}
  /\ IF s \in Suspended
     THEN /\ should_pause[s] /\ has_paused[s] /\ pause_cmd[s] /\ saved_pause[s] = {client_pause[s]}
          /\ refs[s] \in {"none", "bad"}
     ELSE pause_cmd[s] = client_pause[s]

\* The main thread: the listener is paused from the first suspension to the last, so that no
\* session appears in between, and what is left to visit is still in the map.
TodoInv ==
  /\ main \in {"suspend_lock", "suspend", "wait_session", "reload", "resume_lock", "resume", "resume_listen"} =>
       should_pause[Listener] /\ has_paused[Listener]
  /\ main = "pause_listen" => should_pause[Listener]
  /\ main \in {"pause_listen", "suspend_lock", "suspend", "wait_session", "reload"} => reloads < MaxReloads
  /\ main \in {"suspend", "wait_session", "resume"} => todo \subseteq var_server_threads
  /\ main = "wait_session" => curr \in todo /\ should_pause[curr]
  /\ main = "copy" => todo \subseteq var_server_sessions
  /\ main \in {"poll", "reap"} => \A s \in todo : s \in Session /\ should_shutdown[s]

\* The shutdown: every thread was told to stop, and those already joined have ended, or are a
\* session the listener made in the meantime and still waits for.
JoinInv ==
  /\ main \in {"join_all", "exited"} => \A t \in all_sys_threads : should_shutdown[t]
  /\ main = "join_all" => \A t \in all_sys_threads \ todo :
       ~id[t] \/ (t \in Session /\ Accepting(t) /\ step[t] \in {"start", "ended"} /\ status[t] = "PENDING")
  /\ main = "exited" => step[Listener] = "ended" /\ \A t \in all_sys_threads : ~id[t]

\* What is true of each session.
SessionInv(s) == StatusInv(s) /\ MapInv(s) /\ IdInv(s) /\ RefsInv(s) /\ PauseInv(s)

\* The inductive invariant.
Inv ==
  /\ TypeOK /\ ListenInv /\ MutexInv /\ TodoInv /\ JoinInv
  /\ \A s \in Session : SessionInv(s)

\* A Boolean function with one value replaced.
LEMMA SetBoolean ==
  ASSUME NEW S, NEW f \in [S -> BOOLEAN], NEW t \in S, NEW v \in BOOLEAN
  PROVE  [f EXCEPT ![t] = v] \in [S -> BOOLEAN]
OBVIOUS

\* The steps of a session thread keep the invariant.
LEMMA SessionSteps ==
  ASSUME VariableServerAssumption, Inv, NEW s \in Session, SessionRun(s) \/ BlockedReturns(s)
  PROVE  Inv'
<1> USE VariableServerAssumption
<1> USE DEF VariableServerAssumption, Inv, Goto, Set, TypeOK, ThreadTypeOK, ListenStep, SessionStep, MainStep,
            listVars, pauseVars, threadVars, mainVars, listenVars, mapVars, sessionVars, othersOfMain, MainGoto
<1> USE DEF Starting, Serving, InMap, Stopping, Accepting, Suspended
<1>1. CASE SessionStart(s)
  <2> USE <1>1 DEF SessionStart, TestShutdown
  <2>1. TypeOK'
    OBVIOUS
  <2>2. ListenInv' /\ MutexInv'
    BY DEF ListenInv, MutexInv, SessionInv, StatusInv
  <2>3. TodoInv' /\ JoinInv'
    BY DEF TodoInv, JoinInv, MutexInv, ListenInv, SessionInv, StatusInv, MapInv
  <2>4. ASSUME NEW u \in Session PROVE SessionInv(u)'
    BY DEF SessionInv, StatusInv, MapInv, IdInv, RefsInv, PauseInv, ListenInv, MutexInv, TodoInv, JoinInv
  <2> QED
    BY <2>1, <2>2, <2>3, <2>4
<1>2. CASE AddVst(s)
  <2> USE <1>2 DEF AddVst
  <2>1. TypeOK'
    OBVIOUS
  <2>2. ListenInv' /\ MutexInv'
    BY DEF ListenInv, MutexInv, SessionInv, StatusInv
  <2>3. TodoInv' /\ JoinInv'
    BY DEF TodoInv, JoinInv, MutexInv, ListenInv, SessionInv, StatusInv, MapInv
  <2>4. ASSUME NEW u \in Session PROVE SessionInv(u)'
    BY DEF SessionInv, StatusInv, MapInv, IdInv, RefsInv, PauseInv, ListenInv, MutexInv, TodoInv, JoinInv
  <2> QED
    BY <2>1, <2>2, <2>3, <2>4
<1>3. CASE AcceptConnection(s)
  <2> USE <1>3 DEF AcceptConnection
  <2>1. TypeOK'
    OBVIOUS
  <2>2. ListenInv' /\ MutexInv'
    BY DEF ListenInv, MutexInv, SessionInv, StatusInv
  <2>3. TodoInv' /\ JoinInv'
    BY DEF TodoInv, JoinInv, MutexInv, ListenInv, SessionInv, StatusInv, MapInv
  <2>4. ASSUME NEW u \in Session PROVE SessionInv(u)'
    BY DEF SessionInv, StatusInv, MapInv, IdInv, RefsInv, PauseInv, ListenInv, MutexInv, TodoInv, JoinInv
  <2> QED
    BY <2>1, <2>2, <2>3, <2>4
<1>4. CASE FailVst(s)
  <2> USE <1>4 DEF FailVst
  <2>1. TypeOK'
    OBVIOUS
  <2>2. ListenInv' /\ MutexInv'
    BY DEF ListenInv, MutexInv, SessionInv, StatusInv
  <2>3. TodoInv' /\ JoinInv'
    BY DEF TodoInv, JoinInv, MutexInv, ListenInv, SessionInv, StatusInv, MapInv
  <2>4. ASSUME NEW u \in Session PROVE SessionInv(u)'
    BY DEF SessionInv, StatusInv, MapInv, IdInv, RefsInv, PauseInv, ListenInv, MutexInv, TodoInv, JoinInv
  <2> QED
    BY <2>1, <2>2, <2>3, <2>4
<1>5. CASE AddSession(s)
  <2> USE <1>5 DEF AddSession
  <2>1. TypeOK'
    OBVIOUS
  <2>2. ListenInv' /\ MutexInv'
    BY DEF ListenInv, MutexInv, SessionInv, StatusInv
  <2>3. TodoInv' /\ JoinInv'
    BY DEF TodoInv, JoinInv, MutexInv, ListenInv, SessionInv, StatusInv, MapInv
  <2>4. ASSUME NEW u \in Session PROVE SessionInv(u)'
    BY DEF SessionInv, StatusInv, MapInv, IdInv, RefsInv, PauseInv, ListenInv, MutexInv, TodoInv, JoinInv
  <2> QED
    BY <2>1, <2>2, <2>3, <2>4
<1>6. CASE TellStatus(s)
  <2> USE <1>6 DEF TellStatus
  <2>1. TypeOK'
    OBVIOUS
  <2>2. ListenInv' /\ MutexInv'
    BY DEF ListenInv, MutexInv, SessionInv, StatusInv
  <2>3. TodoInv' /\ JoinInv'
    BY DEF TodoInv, JoinInv, MutexInv, ListenInv, SessionInv, StatusInv, MapInv
  <2>4. ASSUME NEW u \in Session PROVE SessionInv(u)'
    BY DEF SessionInv, StatusInv, MapInv, IdInv, RefsInv, PauseInv, ListenInv, MutexInv, TodoInv, JoinInv
  <2> QED
    BY <2>1, <2>2, <2>3, <2>4
<1>7. CASE SessionTop(s)
  <2> USE <1>7 DEF SessionTop, TopOfLoop, WakeUp
  <2>1. TypeOK'
    <3>1. step' \in [SysThreads -> ListenStep \cup SessionStep]
          /\ step'[Listener] \in ListenStep /\ \A u \in Session : step'[u] \in SessionStep
      OBVIOUS
    <3>2. has_paused' \in [SysThreads -> BOOLEAN]
      <4>1. should_pause[s] \in BOOLEAN /\ FALSE \in BOOLEAN /\ s \in SysThreads
        OBVIOUS
      <4> QED
        BY <4>1, SetBoolean
    <3> QED
      BY <3>1, <3>2
  <2>2. ListenInv' /\ MutexInv'
    BY DEF ListenInv, MutexInv, SessionInv, StatusInv
  <2>3. TodoInv' /\ JoinInv'
    BY DEF TodoInv, JoinInv, MutexInv, ListenInv, SessionInv, StatusInv, MapInv
  <2>4. ASSUME NEW u \in Session PROVE SessionInv(u)'
    BY DEF SessionInv, StatusInv, MapInv, IdInv, RefsInv, PauseInv, ListenInv, MutexInv, TodoInv, JoinInv
  <2> QED
    BY <2>1, <2>2, <2>3, <2>4
<1>8. CASE HandleMessage(s)
  <2> USE <1>8 DEF HandleMessage
  <2>1. TypeOK'
    OBVIOUS
  <2>2. ListenInv' /\ MutexInv'
    BY DEF ListenInv, MutexInv, SessionInv, StatusInv
  <2>3. TodoInv' /\ JoinInv'
    BY DEF TodoInv, JoinInv, MutexInv, ListenInv, SessionInv, StatusInv, MapInv
  <2>4. ASSUME NEW u \in Session PROVE SessionInv(u)'
    BY DEF SessionInv, StatusInv, MapInv, IdInv, RefsInv, PauseInv, ListenInv, MutexInv, TodoInv, JoinInv
  <2> QED
    BY <2>1, <2>2, <2>3, <2>4
<1>9. CASE GetSession(s)
  <2> USE <1>9 DEF GetSession
  <2>1. TypeOK'
    OBVIOUS
  <2>2. ListenInv' /\ MutexInv'
    BY DEF ListenInv, MutexInv, SessionInv, StatusInv
  <2>3. TodoInv' /\ JoinInv'
    BY DEF TodoInv, JoinInv, MutexInv, ListenInv, SessionInv, StatusInv, MapInv
  <2>4. ASSUME NEW u \in Session PROVE SessionInv(u)'
    BY DEF SessionInv, StatusInv, MapInv, IdInv, RefsInv, PauseInv, ListenInv, MutexInv, TodoInv, JoinInv
  <2> QED
    BY <2>1, <2>2, <2>3, <2>4
<1>10. CASE ApplyCommand(s)
  <2> USE <1>10 DEF ApplyCommand
  <2>1. TypeOK'
    OBVIOUS
  <2>2. ListenInv' /\ MutexInv'
    BY DEF ListenInv, MutexInv, SessionInv, StatusInv
  <2>3. TodoInv' /\ JoinInv'
    BY DEF TodoInv, JoinInv, MutexInv, ListenInv, SessionInv, StatusInv, MapInv
  <2>4. ASSUME NEW u \in Session PROVE SessionInv(u)'
    BY DEF SessionInv, StatusInv, MapInv, IdInv, RefsInv, PauseInv, ListenInv, MutexInv, TodoInv, JoinInv
  <2> QED
    BY <2>1, <2>2, <2>3, <2>4
<1>11. CASE BlockedReturns(s)
  <2> USE <1>11 DEF BlockedReturns
  <2>1. TypeOK'
    OBVIOUS
  <2>2. ListenInv' /\ MutexInv'
    BY DEF ListenInv, MutexInv, SessionInv, StatusInv
  <2>3. TodoInv' /\ JoinInv'
    BY DEF TodoInv, JoinInv, MutexInv, ListenInv, SessionInv, StatusInv, MapInv
  <2>4. ASSUME NEW u \in Session PROVE SessionInv(u)'
    BY DEF SessionInv, StatusInv, MapInv, IdInv, RefsInv, PauseInv, ListenInv, MutexInv, TodoInv, JoinInv
  <2> QED
    BY <2>1, <2>2, <2>3, <2>4
<1>12. CASE CopyAndWriteAsync(s)
  <2> USE <1>12 DEF CopyAndWriteAsync, Staged
  <2>1. TypeOK'
    OBVIOUS
  <2>2. ListenInv' /\ MutexInv'
    BY DEF ListenInv, MutexInv, SessionInv, StatusInv
  <2>3. TodoInv' /\ JoinInv'
    BY DEF TodoInv, JoinInv, MutexInv, ListenInv, SessionInv, StatusInv, MapInv
  <2>4. ASSUME NEW u \in Session PROVE SessionInv(u)'
    BY DEF SessionInv, StatusInv, MapInv, IdInv, RefsInv, PauseInv, ListenInv, MutexInv, TodoInv, JoinInv
  <2> QED
    BY <2>1, <2>2, <2>3, <2>4
<1>13. CASE ExitSession(s)
  <2> USE <1>13 DEF ExitSession
  <2>1. TypeOK'
    OBVIOUS
  <2>2. ListenInv' /\ MutexInv'
    BY DEF ListenInv, MutexInv, SessionInv, StatusInv
  <2>3. TodoInv' /\ JoinInv'
    BY DEF TodoInv, JoinInv, MutexInv, ListenInv, SessionInv, StatusInv, MapInv
  <2>4. ASSUME NEW u \in Session PROVE SessionInv(u)'
    BY DEF SessionInv, StatusInv, MapInv, IdInv, RefsInv, PauseInv, ListenInv, MutexInv, TodoInv, JoinInv
  <2> QED
    BY <2>1, <2>2, <2>3, <2>4
<1>14. CASE ExitVst(s)
  <2> USE <1>14 DEF ExitVst
  <2>1. TypeOK'
    OBVIOUS
  <2>2. ListenInv' /\ MutexInv'
    BY DEF ListenInv, MutexInv, SessionInv, StatusInv
  <2>3. TodoInv' /\ JoinInv'
    BY DEF TodoInv, JoinInv, MutexInv, ListenInv, SessionInv, StatusInv, MapInv
  <2>4. ASSUME NEW u \in Session PROVE SessionInv(u)'
    BY DEF SessionInv, StatusInv, MapInv, IdInv, RefsInv, PauseInv, ListenInv, MutexInv, TodoInv, JoinInv
  <2> QED
    BY <2>1, <2>2, <2>3, <2>4
<1>15. CASE Cleanup(s)
  <2> USE <1>15 DEF Cleanup
  <2>1. TypeOK'
    OBVIOUS
  <2>2. ListenInv' /\ MutexInv'
    BY DEF ListenInv, MutexInv, SessionInv, StatusInv
  <2>3. TodoInv' /\ JoinInv'
    BY DEF TodoInv, JoinInv, MutexInv, ListenInv, SessionInv, StatusInv, MapInv
  <2>4. ASSUME NEW u \in Session PROVE SessionInv(u)'
    <3>1. StatusInv(u)' /\ MapInv(u)' /\ IdInv(u)'
      BY DEF SessionInv, StatusInv, MapInv, IdInv
    <3>2. RefsInv(u)'
      BY DEF SessionInv, RefsInv
    <3>3. PauseInv(u)'
      <4>1. s \notin Suspended /\ pause_cmd[s] = client_pause[s]
        BY DEF SessionInv, PauseInv, TodoInv, MapInv, IdInv
      <4>2. Suspended' = Suspended
        BY <4>1
      <4>3. CASE u = s
        BY <4>1, <4>2, <4>3 DEF SessionInv, PauseInv
      <4>4. CASE u # s
        BY <4>2, <4>4 DEF SessionInv, PauseInv
      <4> QED
        BY <4>3, <4>4
    <3> QED
      BY <3>1, <3>2, <3>3 DEF SessionInv
  <2> QED
    BY <2>1, <2>2, <2>3, <2>4
<1> QED
  BY <1>1, <1>2, <1>3, <1>4, <1>5, <1>6, <1>7, <1>8, <1>9, <1>10, <1>11, <1>12, <1>13, <1>14, <1>15 DEF SessionRun

\* The steps of the listener keep it.
LEMMA ListenSteps ==
  ASSUME VariableServerAssumption, Inv, Listen
  PROVE  Inv'
<1> USE VariableServerAssumption
<1> USE DEF VariableServerAssumption, Inv, Goto, Set, TypeOK, ThreadTypeOK, ListenStep, SessionStep, MainStep,
            listVars, pauseVars, threadVars, mainVars, listenVars, mapVars, sessionVars, othersOfMain, MainGoto
<1> USE DEF Starting, Serving, InMap, Stopping, Accepting, Suspended
<1>1. CASE ListenTop
  <2> USE <1>1 DEF ListenTop, TopOfLoop, WakeUp
  <2>1. TypeOK'
    <3>1. step' \in [SysThreads -> ListenStep \cup SessionStep]
          /\ step'[Listener] \in ListenStep /\ \A u \in Session : step'[u] \in SessionStep
      OBVIOUS
    <3>2. has_paused' \in [SysThreads -> BOOLEAN]
      <4>1. should_pause[Listener] \in BOOLEAN /\ FALSE \in BOOLEAN /\ Listener \in SysThreads
        OBVIOUS
      <4> QED
        BY <4>1, SetBoolean
    <3> QED
      BY <3>1, <3>2
  <2>2. ListenInv' /\ MutexInv'
    BY DEF ListenInv, MutexInv, SessionInv, StatusInv
  <2>3. TodoInv' /\ JoinInv'
    BY DEF TodoInv, JoinInv, MutexInv, ListenInv, SessionInv, StatusInv, MapInv
  <2>4. ASSUME NEW u \in Session PROVE SessionInv(u)'
    BY DEF SessionInv, StatusInv, MapInv, IdInv, RefsInv, PauseInv, ListenInv, MutexInv, TodoInv, JoinInv
  <2> QED
    BY <2>1, <2>2, <2>3, <2>4
<1>2. CASE ListenLook
  <2> USE <1>2 DEF ListenLook
  <2>1. TypeOK'
    OBVIOUS
  <2>2. ListenInv' /\ MutexInv'
    BY DEF ListenInv, MutexInv, SessionInv, StatusInv
  <2>3. TodoInv' /\ JoinInv'
    BY DEF TodoInv, JoinInv, MutexInv, ListenInv, SessionInv, StatusInv, MapInv
  <2>4. ASSUME NEW u \in Session PROVE SessionInv(u)'
    BY DEF SessionInv, StatusInv, MapInv, IdInv, RefsInv, PauseInv, ListenInv, MutexInv, TodoInv, JoinInv
  <2> QED
    BY <2>1, <2>2, <2>3, <2>4
<1>3. CASE ListenLock
  <2> USE <1>3 DEF ListenLock
  <2>1. TypeOK'
    OBVIOUS
  <2>2. ListenInv' /\ MutexInv'
    BY DEF ListenInv, MutexInv, SessionInv, StatusInv
  <2>3. TodoInv' /\ JoinInv'
    BY DEF TodoInv, JoinInv, MutexInv, ListenInv, SessionInv, StatusInv, MapInv
  <2>4. ASSUME NEW u \in Session PROVE SessionInv(u)'
    BY DEF SessionInv, StatusInv, MapInv, IdInv, RefsInv, PauseInv, ListenInv, MutexInv, TodoInv, JoinInv
  <2> QED
    BY <2>1, <2>2, <2>3, <2>4
<1>4. ASSUME NEW s \in Session, ListenNew(s) PROVE Inv'
  <2> USE <1>4 DEF ListenNew, NewThread
  <2>1. TypeOK'
    OBVIOUS
  <2>2. ListenInv' /\ MutexInv'
    BY DEF ListenInv, MutexInv, SessionInv, StatusInv
  <2>3. TodoInv' /\ JoinInv'
    BY DEF TodoInv, JoinInv, MutexInv, ListenInv, SessionInv, StatusInv, MapInv
  <2>4. ASSUME NEW u \in Session PROVE SessionInv(u)'
    BY DEF SessionInv, StatusInv, MapInv, IdInv, RefsInv, PauseInv, ListenInv, MutexInv, TodoInv, JoinInv
  <2> QED
    BY <2>1, <2>2, <2>3, <2>4
<1>5. CASE ListenCreate
  <2> USE <1>5 DEF ListenCreate
  <2>1. TypeOK'
    OBVIOUS
  <2>2. ListenInv' /\ MutexInv'
    BY DEF ListenInv, MutexInv, SessionInv, StatusInv
  <2>3. TodoInv' /\ JoinInv'
    BY DEF TodoInv, JoinInv, MutexInv, ListenInv, SessionInv, StatusInv, MapInv
  <2>4. ASSUME NEW u \in Session PROVE SessionInv(u)'
    BY DEF SessionInv, StatusInv, MapInv, IdInv, RefsInv, PauseInv, ListenInv, MutexInv, TodoInv, JoinInv
  <2> QED
    BY <2>1, <2>2, <2>3, <2>4
<1>6. CASE ListenAccept
  <2> USE <1>6 DEF ListenAccept
  <2>1. TypeOK'
    OBVIOUS
  <2>2. ListenInv' /\ MutexInv'
    BY DEF ListenInv, MutexInv, SessionInv, StatusInv
  <2>3. TodoInv' /\ JoinInv'
    BY DEF TodoInv, JoinInv, MutexInv, ListenInv, SessionInv, StatusInv, MapInv
  <2>4. ASSUME NEW u \in Session PROVE SessionInv(u)'
    BY DEF SessionInv, StatusInv, MapInv, IdInv, RefsInv, PauseInv, ListenInv, MutexInv, TodoInv, JoinInv
  <2> QED
    BY <2>1, <2>2, <2>3, <2>4
<1>7. CASE ListenJoin
  <2> USE <1>7 DEF ListenJoin, CanJoin, ClearId
  <2>1. TypeOK'
    OBVIOUS
  <2>2. ListenInv' /\ MutexInv'
    BY DEF ListenInv, MutexInv, SessionInv, StatusInv
  <2>3. TodoInv' /\ JoinInv'
    BY DEF TodoInv, JoinInv, MutexInv, ListenInv, SessionInv, StatusInv, MapInv
  <2>4. ASSUME NEW u \in Session PROVE SessionInv(u)'
    BY DEF SessionInv, StatusInv, MapInv, IdInv, RefsInv, PauseInv, ListenInv, MutexInv, TodoInv, JoinInv
  <2> QED
    BY <2>1, <2>2, <2>3, <2>4
<1>8. CASE ListenDelete
  <2> USE <1>8 DEF ListenDelete, DeleteThread
  <2>1. TypeOK'
    OBVIOUS
  <2>2. ListenInv' /\ MutexInv'
    BY DEF ListenInv, MutexInv, SessionInv, StatusInv
  <2>3. TodoInv' /\ JoinInv'
    BY DEF TodoInv, JoinInv, MutexInv, ListenInv, SessionInv, StatusInv, MapInv
  <2>4. ASSUME NEW u \in Session PROVE SessionInv(u)'
    BY DEF SessionInv, StatusInv, MapInv, IdInv, RefsInv, PauseInv, ListenInv, MutexInv, TodoInv, JoinInv
  <2> QED
    BY <2>1, <2>2, <2>3, <2>4
<1>9. CASE ListenUnlock
  <2> USE <1>9 DEF ListenUnlock
  <2>1. TypeOK'
    OBVIOUS
  <2>2. ListenInv' /\ MutexInv'
    BY DEF ListenInv, MutexInv, SessionInv, StatusInv
  <2>3. TodoInv' /\ JoinInv'
    BY DEF TodoInv, JoinInv, MutexInv, ListenInv, SessionInv, StatusInv, MapInv
  <2>4. ASSUME NEW u \in Session PROVE SessionInv(u)'
    BY DEF SessionInv, StatusInv, MapInv, IdInv, RefsInv, PauseInv, ListenInv, MutexInv, TodoInv, JoinInv
  <2> QED
    BY <2>1, <2>2, <2>3, <2>4
<1> QED
  BY <1>1, <1>2, <1>3, <1>4, <1>5, <1>6, <1>7, <1>8, <1>9 DEF Listen

\* The jobs of the main thread that copy and write the sessions keep it.
LEMMA CopySteps ==
  ASSUME VariableServerAssumption, Inv, CopyJob
  PROVE  Inv'
<1> USE VariableServerAssumption
<1> USE DEF VariableServerAssumption, Inv, Goto, Set, TypeOK, ThreadTypeOK, ListenStep, SessionStep, MainStep,
            listVars, pauseVars, threadVars, mainVars, listenVars, mapVars, sessionVars, othersOfMain, MainGoto
<1> USE DEF Starting, Serving, InMap, Stopping, Accepting, Suspended
<1>1. CASE LockMap("run", "copy", var_server_sessions)
  <2> USE <1>1 DEF LockMap
  <2>1. TypeOK'
    OBVIOUS
  <2>2. ListenInv' /\ MutexInv'
    BY DEF ListenInv, MutexInv, SessionInv, StatusInv
  <2>3. TodoInv' /\ JoinInv'
    BY DEF TodoInv, JoinInv, MutexInv, ListenInv, SessionInv, StatusInv, MapInv
  <2>4. ASSUME NEW u \in Session PROVE SessionInv(u)'
    BY DEF SessionInv, StatusInv, MapInv, IdInv, RefsInv, PauseInv, ListenInv, MutexInv, TodoInv, JoinInv
  <2> QED
    BY <2>1, <2>2, <2>3, <2>4
<1>2. ASSUME NEW s \in Session, CopyOne(s) PROVE Inv'
  <2> USE <1>2 DEF CopyOne, Staged
  <2>1. TypeOK'
    OBVIOUS
  <2>2. ListenInv' /\ MutexInv'
    BY DEF ListenInv, MutexInv, SessionInv, StatusInv
  <2>3. TodoInv' /\ JoinInv'
    BY DEF TodoInv, JoinInv, MutexInv, ListenInv, SessionInv, StatusInv, MapInv
  <2>4. ASSUME NEW u \in Session PROVE SessionInv(u)'
    BY DEF SessionInv, StatusInv, MapInv, IdInv, RefsInv, PauseInv, ListenInv, MutexInv, TodoInv, JoinInv
  <2> QED
    BY <2>1, <2>2, <2>3, <2>4
<1>3. CASE UnlockMap("copy", "run")
  <2> USE <1>3 DEF UnlockMap
  <2>1. TypeOK'
    OBVIOUS
  <2>2. ListenInv' /\ MutexInv'
    BY DEF ListenInv, MutexInv, SessionInv, StatusInv
  <2>3. TodoInv' /\ JoinInv'
    BY DEF TodoInv, JoinInv, MutexInv, ListenInv, SessionInv, StatusInv, MapInv
  <2>4. ASSUME NEW u \in Session PROVE SessionInv(u)'
    BY DEF SessionInv, StatusInv, MapInv, IdInv, RefsInv, PauseInv, ListenInv, MutexInv, TodoInv, JoinInv
  <2> QED
    BY <2>1, <2>2, <2>3, <2>4
<1> QED
  BY <1>1, <1>2, <1>3 DEF CopyJob

\* The suspension of the sessions, the load of the checkpoint and the resumption keep it.
LEMMA ReloadSteps ==
  ASSUME VariableServerAssumption, Inv, Reload
  PROVE  Inv'
<1> USE VariableServerAssumption
<1> USE DEF VariableServerAssumption, Inv, Goto, Set, TypeOK, ThreadTypeOK, ListenStep, SessionStep, MainStep,
            listVars, pauseVars, threadVars, mainVars, listenVars, mapVars, sessionVars, othersOfMain, MainGoto
<1> USE DEF Starting, Serving, InMap, Stopping, Accepting, Suspended
<1>1. CASE PauseListening
  <2> USE <1>1 DEF PauseListening, RequestPause, Paused
  <2>1. TypeOK'
    OBVIOUS
  <2>2. ListenInv' /\ MutexInv'
    BY DEF ListenInv, MutexInv, SessionInv, StatusInv
  <2>3. TodoInv' /\ JoinInv'
    BY DEF TodoInv, JoinInv, MutexInv, ListenInv, SessionInv, StatusInv, MapInv
  <2>4. ASSUME NEW u \in Session PROVE SessionInv(u)'
    BY DEF SessionInv, StatusInv, MapInv, IdInv, RefsInv, PauseInv, ListenInv, MutexInv, TodoInv, JoinInv
  <2> QED
    BY <2>1, <2>2, <2>3, <2>4
<1>2. CASE LockMap("suspend_lock", "suspend", var_server_threads)
  <2> USE <1>2 DEF LockMap
  <2>1. TypeOK'
    OBVIOUS
  <2>2. ListenInv' /\ MutexInv'
    BY DEF ListenInv, MutexInv, SessionInv, StatusInv
  <2>3. TodoInv' /\ JoinInv'
    BY DEF TodoInv, JoinInv, MutexInv, ListenInv, SessionInv, StatusInv, MapInv
  <2>4. ASSUME NEW u \in Session PROVE SessionInv(u)'
    BY DEF SessionInv, StatusInv, MapInv, IdInv, RefsInv, PauseInv, ListenInv, MutexInv, TodoInv, JoinInv
  <2> QED
    BY <2>1, <2>2, <2>3, <2>4
<1>3. ASSUME NEW s \in Session, SuspendOne(s) PROVE Inv'
  <2> USE <1>3 DEF SuspendOne, RequestPause
  <2>1. TypeOK'
    OBVIOUS
  <2>2. ListenInv' /\ MutexInv'
    BY DEF ListenInv, MutexInv, SessionInv, StatusInv
  <2>3. TodoInv' /\ JoinInv'
    BY DEF TodoInv, JoinInv, MutexInv, ListenInv, SessionInv, StatusInv, MapInv
  <2>4. ASSUME NEW u \in Session PROVE SessionInv(u)'
    BY DEF SessionInv, StatusInv, MapInv, IdInv, RefsInv, PauseInv, ListenInv, MutexInv, TodoInv, JoinInv
  <2> QED
    BY <2>1, <2>2, <2>3, <2>4
<1>4. CASE DisconnectReferences
  <2> USE <1>4 DEF DisconnectReferences, Paused
  <2>1. TypeOK'
    <3>1. curr \in Session /\ TRUE \in BOOLEAN /\ pause_cmd[curr] \in BOOLEAN
      BY DEF TodoInv
    <3>3. pause_cmd' \in [Session -> BOOLEAN]
      <4>1. [pause_cmd EXCEPT ![curr] = TRUE] \in [Session -> BOOLEAN]
        BY <3>1, SetBoolean
      <4>2. pause_cmd' = [pause_cmd EXCEPT ![curr] = TRUE] \/ pause_cmd' = pause_cmd
        OBVIOUS
      <4> QED
        BY <4>1, <4>2
    <3>4. saved_pause' \in [Session -> SUBSET BOOLEAN]
      BY <3>1
    <3>2. refs' \in [Session -> {"none", "good", "bad", "stale"}]
      OBVIOUS
    <3> QED
      BY <3>1, <3>2, <3>3, <3>4
  <2>2. ListenInv' /\ MutexInv'
    BY DEF ListenInv, MutexInv, SessionInv, StatusInv
  <2>3. TodoInv' /\ JoinInv'
    BY DEF TodoInv, JoinInv, MutexInv, ListenInv, SessionInv, StatusInv, MapInv
  <2>4. ASSUME NEW u \in Session PROVE SessionInv(u)'
    BY DEF SessionInv, StatusInv, MapInv, IdInv, RefsInv, PauseInv, ListenInv, MutexInv, TodoInv, JoinInv
  <2> QED
    BY <2>1, <2>2, <2>3, <2>4
<1>5. CASE UnlockMap("suspend", "reload")
  <2> USE <1>5 DEF UnlockMap
  <2>1. TypeOK'
    OBVIOUS
  <2>2. ListenInv' /\ MutexInv'
    BY DEF ListenInv, MutexInv, SessionInv, StatusInv
  <2>3. TodoInv' /\ JoinInv'
    BY DEF TodoInv, JoinInv, MutexInv, ListenInv, SessionInv, StatusInv, MapInv
  <2>4. ASSUME NEW u \in Session PROVE SessionInv(u)'
    BY DEF SessionInv, StatusInv, MapInv, IdInv, RefsInv, PauseInv, ListenInv, MutexInv, TodoInv, JoinInv
  <2> QED
    BY <2>1, <2>2, <2>3, <2>4
<1>6. CASE ReloadCheckpoint
  <2> USE <1>6 DEF ReloadCheckpoint
  <2>1. TypeOK'
    <3>1. refs' \in [Session -> {"none", "good", "bad", "stale"}]
      OBVIOUS
    <3>2. reloads' \in 0 .. MaxReloads
      BY DEF TodoInv
    <3> QED
      BY <3>1, <3>2
  <2>2. ListenInv' /\ MutexInv'
    BY DEF ListenInv, MutexInv, SessionInv, StatusInv
  <2>3. TodoInv' /\ JoinInv'
    BY DEF TodoInv, JoinInv, MutexInv, ListenInv, SessionInv, StatusInv, MapInv
  <2>4. ASSUME NEW u \in Session PROVE SessionInv(u)'
    BY DEF SessionInv, StatusInv, MapInv, IdInv, RefsInv, PauseInv, ListenInv, MutexInv, TodoInv, JoinInv
  <2> QED
    BY <2>1, <2>2, <2>3, <2>4
<1>7. CASE LockMap("resume_lock", "resume", var_server_threads)
  <2> USE <1>7 DEF LockMap
  <2>1. TypeOK'
    OBVIOUS
  <2>2. ListenInv' /\ MutexInv'
    BY DEF ListenInv, MutexInv, SessionInv, StatusInv
  <2>3. TodoInv' /\ JoinInv'
    BY DEF TodoInv, JoinInv, MutexInv, ListenInv, SessionInv, StatusInv, MapInv
  <2>4. ASSUME NEW u \in Session PROVE SessionInv(u)'
    BY DEF SessionInv, StatusInv, MapInv, IdInv, RefsInv, PauseInv, ListenInv, MutexInv, TodoInv, JoinInv
  <2> QED
    BY <2>1, <2>2, <2>3, <2>4
<1>8. ASSUME NEW s \in Session, ResumeOne(s) PROVE Inv'
  <2> USE <1>8 DEF ResumeOne, Unpause
  <2>1. TypeOK'
    OBVIOUS
  <2>2. ListenInv' /\ MutexInv'
    BY DEF ListenInv, MutexInv, SessionInv, StatusInv
  <2>3. TodoInv' /\ JoinInv'
    BY DEF TodoInv, JoinInv, MutexInv, ListenInv, SessionInv, StatusInv, MapInv
  <2>4. ASSUME NEW u \in Session PROVE SessionInv(u)'
    BY DEF SessionInv, StatusInv, MapInv, IdInv, RefsInv, PauseInv, ListenInv, MutexInv, TodoInv, JoinInv
  <2> QED
    BY <2>1, <2>2, <2>3, <2>4
<1>9. CASE UnlockMap("resume", "resume_listen")
  <2> USE <1>9 DEF UnlockMap
  <2>1. TypeOK'
    OBVIOUS
  <2>2. ListenInv' /\ MutexInv'
    BY DEF ListenInv, MutexInv, SessionInv, StatusInv
  <2>3. TodoInv' /\ JoinInv'
    BY DEF TodoInv, JoinInv, MutexInv, ListenInv, SessionInv, StatusInv, MapInv
  <2>4. ASSUME NEW u \in Session PROVE SessionInv(u)'
    BY DEF SessionInv, StatusInv, MapInv, IdInv, RefsInv, PauseInv, ListenInv, MutexInv, TodoInv, JoinInv
  <2> QED
    BY <2>1, <2>2, <2>3, <2>4
<1>10. CASE RestartListening
  <2> USE <1>10 DEF RestartListening, Unpause
  <2>1. TypeOK'
    OBVIOUS
  <2>2. ListenInv' /\ MutexInv'
    BY DEF ListenInv, MutexInv, SessionInv, StatusInv
  <2>3. TodoInv' /\ JoinInv'
    BY DEF TodoInv, JoinInv, MutexInv, ListenInv, SessionInv, StatusInv, MapInv
  <2>4. ASSUME NEW u \in Session PROVE SessionInv(u)'
    BY DEF SessionInv, StatusInv, MapInv, IdInv, RefsInv, PauseInv, ListenInv, MutexInv, TodoInv, JoinInv
  <2> QED
    BY <2>1, <2>2, <2>3, <2>4
<1> QED
  BY <1>1, <1>2, <1>3, <1>4, <1>5, <1>6, <1>7, <1>8, <1>9, <1>10 DEF Reload

\* The shutdown of the sessions and of all threads keeps it.
LEMMA ShutdownSteps ==
  ASSUME VariableServerAssumption, Inv, Shutdown
  PROVE  Inv'
<1> USE VariableServerAssumption
<1> USE DEF VariableServerAssumption, Inv, Goto, Set, TypeOK, ThreadTypeOK, ListenStep, SessionStep, MainStep,
            listVars, pauseVars, threadVars, mainVars, listenVars, mapVars, sessionVars, othersOfMain, MainGoto
<1> USE DEF Starting, Serving, InMap, Stopping, Accepting, Suspended
<1>1. CASE ShutdownConnections
  <2> USE <1>1 DEF ShutdownConnections
  <2>1. TypeOK'
    OBVIOUS
  <2>2. ListenInv' /\ MutexInv'
    BY DEF ListenInv, MutexInv, SessionInv, StatusInv
  <2>3. TodoInv' /\ JoinInv'
    BY DEF TodoInv, JoinInv, MutexInv, ListenInv, SessionInv, StatusInv, MapInv
  <2>4. ASSUME NEW u \in Session PROVE SessionInv(u)'
    BY DEF SessionInv, StatusInv, MapInv, IdInv, RefsInv, PauseInv, ListenInv, MutexInv, TodoInv, JoinInv
  <2> QED
    BY <2>1, <2>2, <2>3, <2>4
<1>2. CASE CancelListen
  <2> USE <1>2 DEF CancelListen, RequestShutdown
  <2>1. TypeOK'
    OBVIOUS
  <2>2. ListenInv' /\ MutexInv'
    BY DEF ListenInv, MutexInv, SessionInv, StatusInv
  <2>3. TodoInv' /\ JoinInv'
    BY DEF TodoInv, JoinInv, MutexInv, ListenInv, SessionInv, StatusInv, MapInv
  <2>4. ASSUME NEW u \in Session PROVE SessionInv(u)'
    BY DEF SessionInv, StatusInv, MapInv, IdInv, RefsInv, PauseInv, ListenInv, MutexInv, TodoInv, JoinInv
  <2> QED
    BY <2>1, <2>2, <2>3, <2>4
<1>3. CASE RequestSessions
  <2> USE <1>3 DEF RequestSessions, RequestShutdown
  <2>1. TypeOK'
    OBVIOUS
  <2>2. ListenInv' /\ MutexInv'
    BY DEF ListenInv, MutexInv, SessionInv, StatusInv
  <2>3. TodoInv' /\ JoinInv'
    BY DEF TodoInv, JoinInv, MutexInv, ListenInv, SessionInv, StatusInv, MapInv
  <2>4. ASSUME NEW u \in Session PROVE SessionInv(u)'
    BY DEF SessionInv, StatusInv, MapInv, IdInv, RefsInv, PauseInv, ListenInv, MutexInv, TodoInv, JoinInv
  <2> QED
    BY <2>1, <2>2, <2>3, <2>4
<1>4. CASE SessionsStopped
  <2> USE <1>4 DEF SessionsStopped
  <2>1. TypeOK'
    OBVIOUS
  <2>2. ListenInv' /\ MutexInv'
    BY DEF ListenInv, MutexInv, SessionInv, StatusInv
  <2>3. TodoInv' /\ JoinInv'
    BY DEF TodoInv, JoinInv, MutexInv, ListenInv, SessionInv, StatusInv, MapInv
  <2>4. ASSUME NEW u \in Session PROVE SessionInv(u)'
    BY DEF SessionInv, StatusInv, MapInv, IdInv, RefsInv, PauseInv, ListenInv, MutexInv, TodoInv, JoinInv
  <2> QED
    BY <2>1, <2>2, <2>3, <2>4
<1>5. ASSUME NEW s \in Session, ReapSession(s) PROVE Inv'
  <2> USE <1>5 DEF ReapSession, CanJoin, ClearId
  <2>1. TypeOK'
    OBVIOUS
  <2>2. ListenInv' /\ MutexInv'
    BY DEF ListenInv, MutexInv, SessionInv, StatusInv
  <2>3. TodoInv' /\ JoinInv'
    BY DEF TodoInv, JoinInv, MutexInv, ListenInv, SessionInv, StatusInv, MapInv
  <2>4. ASSUME NEW u \in Session PROVE SessionInv(u)'
    BY DEF SessionInv, StatusInv, MapInv, IdInv, RefsInv, PauseInv, ListenInv, MutexInv, TodoInv, JoinInv
  <2> QED
    BY <2>1, <2>2, <2>3, <2>4
<1>6. CASE Reaped
  <2> USE <1>6 DEF Reaped
  <2>1. TypeOK'
    OBVIOUS
  <2>2. ListenInv' /\ MutexInv'
    BY DEF ListenInv, MutexInv, SessionInv, StatusInv
  <2>3. TodoInv' /\ JoinInv'
    BY DEF TodoInv, JoinInv, MutexInv, ListenInv, SessionInv, StatusInv, MapInv
  <2>4. ASSUME NEW u \in Session PROVE SessionInv(u)'
    BY DEF SessionInv, StatusInv, MapInv, IdInv, RefsInv, PauseInv, ListenInv, MutexInv, TodoInv, JoinInv
  <2> QED
    BY <2>1, <2>2, <2>3, <2>4
<1>7. CASE CancelAll
  <2> USE <1>7 DEF CancelAll, LockAndCancelAll, RequestShutdown
  <2>1. TypeOK'
    OBVIOUS
  <2>2. ListenInv' /\ MutexInv'
    BY DEF ListenInv, MutexInv, SessionInv, StatusInv
  <2>3. TodoInv' /\ JoinInv'
    BY DEF TodoInv, JoinInv, MutexInv, ListenInv, SessionInv, StatusInv, MapInv
  <2>4. ASSUME NEW u \in Session PROVE SessionInv(u)'
    BY DEF SessionInv, StatusInv, MapInv, IdInv, RefsInv, PauseInv, ListenInv, MutexInv, TodoInv, JoinInv
  <2> QED
    BY <2>1, <2>2, <2>3, <2>4
<1>8. ASSUME NEW t \in SysThreads, JoinThread(t) PROVE Inv'
  <2> USE <1>8 DEF JoinThread, CanJoin, ClearId
  <2>1. TypeOK'
    OBVIOUS
  <2>2. ListenInv' /\ MutexInv'
    BY DEF ListenInv, MutexInv, SessionInv, StatusInv
  <2>3. TodoInv' /\ JoinInv'
    BY DEF TodoInv, JoinInv, MutexInv, ListenInv, SessionInv, StatusInv, MapInv
  <2>4. ASSUME NEW u \in Session PROVE SessionInv(u)'
    BY DEF SessionInv, StatusInv, MapInv, IdInv, RefsInv, PauseInv, ListenInv, MutexInv, TodoInv, JoinInv
  <2> QED
    BY <2>1, <2>2, <2>3, <2>4
<1>9. CASE AllJoined
  <2> USE <1>9 DEF AllJoined, UnlockAllJoined
  <2>1. TypeOK'
    OBVIOUS
  <2>2. ListenInv' /\ MutexInv'
    BY DEF ListenInv, MutexInv, SessionInv, StatusInv
  <2>3. TodoInv' /\ JoinInv'
    BY DEF TodoInv, JoinInv, MutexInv, ListenInv, SessionInv, StatusInv, MapInv
  <2>4. ASSUME NEW u \in Session PROVE SessionInv(u)'
    BY DEF SessionInv, StatusInv, MapInv, IdInv, RefsInv, PauseInv, ListenInv, MutexInv, TodoInv, JoinInv
  <2> QED
    BY <2>1, <2>2, <2>3, <2>4
<1> QED
  BY <1>1, <1>2, <1>3, <1>4, <1>5, <1>6, <1>7, <1>8, <1>9 DEF Shutdown

\* The invariant holds when nothing runs yet.
LEMMA ServerInit == ASSUME VariableServerAssumption, Init PROVE Inv
<1> USE VariableServerAssumption DEF VariableServerAssumption, Init, ThreadInit
<1>1. TypeOK
  <2>1. /\ id \in [SysThreads -> BOOLEAN]
        /\ should_shutdown \in [SysThreads -> BOOLEAN] /\ should_pause \in [SysThreads -> BOOLEAN]
        /\ has_paused \in [SysThreads -> BOOLEAN]
    OBVIOUS
  <2>2. /\ pause_cmd \in [Session -> BOOLEAN] /\ saved_pause \in [Session -> SUBSET BOOLEAN]
        /\ client_pause \in [Session -> BOOLEAN] /\ deleted \in [Session -> BOOLEAN]
    BY Zenon
  <2>3. ThreadTypeOK(ListenStep \cup SessionStep)
    BY <2>1 DEF ThreadTypeOK, ListenStep, SessionStep
  <2>4. step[Listener] \in ListenStep /\ \A s \in Session : step[s] \in SessionStep
    BY DEF ListenStep, SessionStep
  <2>5. /\ main \in MainStep /\ todo \subseteq SysThreads /\ curr \in SysThreads /\ vst \in SysThreads
        /\ map_mutex \in BOOLEAN /\ connectionMutex \in BOOLEAN /\ allow_connections \in BOOLEAN
        /\ var_server_threads \subseteq Session /\ var_server_sessions \subseteq Session
    BY DEF MainStep
  <2>6. /\ status \in [Session -> {"PENDING", "SUCCESS", "FAIL"}]
        /\ refs \in [Session -> {"none", "good", "bad", "stale"}]
        /\ reloads \in 0 .. MaxReloads
    OBVIOUS
  <2> QED
    BY <2>2, <2>3, <2>4, <2>5, <2>6 DEF TypeOK
<1>2. ListenInv /\ MutexInv /\ TodoInv /\ JoinInv
  BY DEF ListenInv, MutexInv, TodoInv, JoinInv
<1>3. ASSUME NEW s \in Session PROVE SessionInv(s)
  BY DEF SessionInv, StatusInv, MapInv, IdInv, RefsInv, PauseInv, Suspended, Starting, Serving, InMap
<1> QED
  BY <1>1, <1>2, <1>3 DEF Inv

\* Every step keeps it.
LEMMA ServerSteps == ASSUME VariableServerAssumption, Inv, [Next]_vars PROVE Inv'
<1>1. CASE Main
  BY <1>1, CopySteps, ReloadSteps, ShutdownSteps DEF Main
<1>2. CASE Listen
  BY <1>2, ListenSteps
<1>3. ASSUME NEW s \in Session, SessionRun(s) \/ BlockedReturns(s) PROVE Inv'
  BY <1>3, SessionSteps
<1>4. CASE UNCHANGED vars
  <2> USE <1>4 DEF Inv, vars, threadVars, pauseVars, listVars, mainVars, listenVars, mapVars, sessionVars
  <2>1. TypeOK' /\ ListenInv' /\ MutexInv'
    BY DEF TypeOK, ThreadTypeOK, ListenInv, MutexInv
  <2>2. TodoInv' /\ JoinInv'
    BY DEF TodoInv, JoinInv, Accepting
  <2>3. ASSUME NEW s \in Session PROVE SessionInv(s)'
    BY DEF SessionInv, StatusInv, MapInv, IdInv, RefsInv, PauseInv, Suspended, Accepting
  <2> QED
    BY <2>1, <2>2, <2>3
<1> QED
  BY <1>1, <1>2, <1>3, <1>4 DEF Next

\* The listener, the session threads and the jobs of the main thread agree at every step on where each
\* session is: its status, its place in the maps, its pthread id, its references and its pause.
THEOREM ServerInvariant == ASSUME VariableServerAssumption PROVE Spec => []Inv
<1>1. Init => Inv
  BY ServerInit
<1>2. Inv /\ [Next]_vars => Inv'
  BY ServerSteps
<1> QED
  BY <1>1, <1>2, PTL DEF Spec

\* No session that a thread can still reach holds a reference into memory that a reload replaced:
\* preload_checkpoint has let go of those of every session in the map, each paused when it did, and
\* the paused listener let no session in afterwards.
THEOREM ReferencesAreLetGo == ASSUME VariableServerAssumption PROVE Spec => []NoStaleReference
<1>1. Inv => NoStaleReference
  BY DEF Inv, TypeOK, NoStaleReference, SessionInv, RefsInv, MapInv
<1> QED
  BY <1>1, ServerInvariant, PTL

\* While the memory is replaced no session works and the listener lets nobody in, and once the reload
\* is over every session is paused or not just as its client asked, though _saved_pause_cmd has no
\* initial value.
THEOREM ReloadIsHarmless == ASSUME VariableServerAssumption PROVE Spec => []ReloadHarmless
<1>1. Inv => ReloadQuiet
  <2> SUFFICES ASSUME Inv, main \in {"reload", "resume_lock"}
               PROVE  /\ \A s \in Session : ~Working(s)
                      /\ step[Listener] \in {"top", "paused"}
    BY DEF ReloadQuiet
  <2>1. ASSUME NEW s \in Session, Working(s) PROVE FALSE
    <3>1. s \in Suspended
      BY <2>1 DEF Working, Inv, SessionInv, MapInv, InMap, Serving, Suspended
    <3> QED
      BY <2>1, <3>1 DEF Working, Inv, SessionInv, PauseInv, IdInv, Starting, Stopping
  <2>2. step[Listener] \in {"top", "paused"}
    BY DEF Inv, TodoInv, ListenInv, Stopping
  <2> QED
    BY <2>1, <2>2
<1>2. Inv => PauseRestored
  BY DEF Inv, PauseRestored, SessionInv, PauseInv, Suspended
<1> QED
  BY <1>1, <1>2, ServerInvariant, PTL DEF ReloadHarmless

\* The jobs of the main thread never meet a deleted session, unless its thread was abandoned, and no
\* thread outlives the shutdown but those abandoned in a command.
THEOREM SessionsAreAccountedFor ==
  ASSUME VariableServerAssumption PROVE Spec => []SessionsAccountedFor
<1>1. Inv => SessionsAlive
  BY DEF Inv, TypeOK, TodoInv, SessionInv, StatusInv, MapInv, IdInv, SessionsAlive, InMap, Starting, Serving, Stopping
<1>2. Inv => NoneOutlivesShutdown
  BY DEF Inv, NoneOutlivesShutdown, JoinInv, SessionInv, StatusInv
<1> QED
  BY <1>1, <1>2, ServerInvariant, PTL DEF SessionsAccountedFor, Inv
============================================================================
