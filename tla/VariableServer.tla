---------------------------- MODULE VariableServer ----------------------------
(***************************************************************************)
(* The variable server: the listen thread, which makes a session thread    *)
(* for every client, the session threads, and the jobs of the main thread  *)
(* that touch them: the copies at the top of a frame or on schedule, the   *)
(* suspension while a checkpoint is reloaded, and the shutdown.            *)
(*                                                                         *)
(* A session stands for one VariableServerSessionThread object with its    *)
(* session; it is used for one client.  The main thread holds map_mutex    *)
(* over several steps; the other threads only within a step, so the mutex  *)
(* is a Boolean: does the main thread hold it?                             *)
(***************************************************************************)
EXTENDS SysThread

CONSTANTS
  Listener,      \* the listen thread
  Session,       \* the session threads that may come to be
  Commands,      \* [Session -> SUBSET CommandKind]: what the client of a session may send
  MaxReloads     \* bound: how often a checkpoint is reloaded

\* A "long" command may block inside a model call.
CommandKind == {"var_add", "var_pause", "var_exit", "long"}

ASSUME VariableServerAssumption ==
  /\ Listener \notin Session
  /\ SysThreads = {Listener} \cup Session
  /\ Commands \in [Session -> SUBSET CommandKind]
  /\ MaxReloads \in Nat

VARIABLES
  main,                  \* the place of the main thread
  todo,                  \* the threads the main thread has yet to visit in its loop
  curr,                  \* the session whose pause the main thread awaits
  vst,                   \* the session the listen thread makes
  map_mutex,
  var_server_threads, var_server_sessions,   \* the two maps, as sets of sessions
  connectionMutex,       \* does the listen thread hold it?
  allow_connections,
  status,                \* _connection_status of each session
  refs,                  \* what the variable references of a session point at
  pause_cmd,
  saved_pause,           \* the values _saved_pause_cmd may have: it is not initialised
  client_pause,          \* ghost: the last of var_pause and var_unpause of the client
  deleted,               \* was the session object deleted?
  reloads                \* ghost: the number of reloads

mainVars    == <<main, todo, curr, reloads>>
listenVars  == <<vst, connectionMutex>>
mapVars     == <<map_mutex, var_server_threads, var_server_sessions>>
sessionVars == <<status, refs, pause_cmd, saved_pause, client_pause, deleted>>
vars == <<threadVars, mainVars, listenVars, mapVars, allow_connections, sessionVars>>

ListenStep  == {"top", "paused", "look", "lock", "new", "create", "accept",
                "join", "delete", "unlock", "ended"}
SessionStep == {"none", "start", "add_vst", "accept", "fail", "reject", "add_session",
                "success", "top", "paused", "message", "command", "apply", "blocked",
                "copy", "exit_session", "exit_vst", "cleanup", "ended"}
MainStep    == {"run", "copy", "pause_listen", "suspend_lock", "suspend", "wait_session",
                "reload", "resume_lock", "resume", "resume_listen", "connections",
                "cancel_listen", "request", "poll", "reap", "ensure", "join_all", "exited"}

\* The types of the variables; the listen thread is in its own loop.
TypeOK ==
  /\ ThreadTypeOK(ListenStep \cup SessionStep)
  /\ step[Listener] \in ListenStep /\ \A s \in Session : step[s] \in SessionStep
  /\ main \in MainStep /\ todo \subseteq SysThreads /\ curr \in SysThreads /\ vst \in SysThreads
  /\ map_mutex \in BOOLEAN /\ connectionMutex \in BOOLEAN
  /\ var_server_threads \subseteq Session /\ var_server_sessions \subseteq Session
  /\ allow_connections \in BOOLEAN
  /\ status \in [Session -> {"PENDING", "SUCCESS", "FAIL"}]
  /\ refs \in [Session -> {"none", "good", "bad", "stale"}]
  /\ pause_cmd \in [Session -> BOOLEAN]
  /\ saved_pause \in [Session -> SUBSET BOOLEAN]
  /\ client_pause \in [Session -> BOOLEAN]
  /\ deleted \in [Session -> BOOLEAN]
  /\ reloads \in 0 .. MaxReloads

Init ==
  /\ ThreadInit({Listener})
  /\ main = "run" /\ todo = {} /\ curr = Listener /\ vst = Listener
  /\ map_mutex = FALSE /\ connectionMutex = FALSE
  /\ var_server_threads = {} /\ var_server_sessions = {}
  /\ allow_connections = TRUE
  /\ status = [s \in Session |-> "PENDING"]
  /\ refs = [s \in Session |-> "none"]
  /\ pause_cmd = [s \in Session |-> FALSE] /\ saved_pause = [s \in Session |-> BOOLEAN]
  /\ client_pause = [s \in Session |-> FALSE]
  /\ deleted = [s \in Session |-> FALSE]
  /\ reloads = 0

--------------------------------------------------------------------------------
(***************************************************************************)
(* The listen thread.                                                      *)
(***************************************************************************)
ListenTop ==
  /\ \/ step[Listener] = "top" /\ TopOfLoop(Listener, "ended", "look")
     \/ WakeUp(Listener, "look")
  /\ UNCHANGED <<id, should_shutdown, listVars, mainVars, listenVars, mapVars,
                 allow_connections, sessionVars>>

\* checkForNewConnections finds no client, or one that is taken or turned away.
ListenLook ==
  /\ step[Listener] = "look"
  /\ \/ Goto(Listener, "top")
     \/ /\ allow_connections
        /\ \E s \in Session : step[s] = "none"
        /\ Goto(Listener, "lock")
  /\ UNCHANGED <<id, should_shutdown, pauseVars, listVars, mainVars, listenVars, mapVars,
                 allow_connections, sessionVars>>

\* From here to ListenUnlock pendingConnections is 1 and connectionMutex is held.
ListenLock ==
  /\ step[Listener] = "lock" /\ ~connectionMutex
  /\ connectionMutex' = TRUE /\ Goto(Listener, "new")
  /\ UNCHANGED <<id, should_shutdown, pauseVars, listVars, mainVars, vst, mapVars,
                 allow_connections, sessionVars>>

ListenNew(s) ==
  /\ step[Listener] = "new" /\ NewThread(s)
  /\ vst' = s /\ Goto(Listener, "create")
  /\ UNCHANGED <<id, should_shutdown, pauseVars, mainVars, connectionMutex, mapVars,
                 allow_connections, sessionVars>>

\* create_thread
ListenCreate ==
  /\ step[Listener] = "create"
  /\ step' = [step EXCEPT ![Listener] = "accept", ![vst] = "start"]
  /\ id' = Set(id, vst, TRUE)
  /\ UNCHANGED <<should_shutdown, pauseVars, listVars, mainVars, listenVars, mapVars,
                 allow_connections, sessionVars>>

\* wait_for_accept
ListenAccept ==
  /\ step[Listener] = "accept" /\ status[vst] # "PENDING"
  /\ Goto(Listener, IF status[vst] = "FAIL" THEN "join" ELSE "unlock")
  /\ UNCHANGED <<id, should_shutdown, pauseVars, listVars, mainVars, listenVars, mapVars,
                 allow_connections, sessionVars>>

ListenJoin ==
  /\ step[Listener] = "join" /\ CanJoin(vst) /\ ClearId(vst)
  /\ Goto(Listener, "delete")
  /\ UNCHANGED <<should_shutdown, pauseVars, listVars, mainVars, listenVars, mapVars,
                 allow_connections, sessionVars>>

ListenDelete ==
  /\ step[Listener] = "delete" /\ DeleteThread(vst)
  /\ deleted' = Set(deleted, vst, TRUE) /\ Goto(Listener, "unlock")
  /\ UNCHANGED <<id, should_shutdown, pauseVars, mainVars, listenVars, mapVars, allow_connections,
                 status, refs, pause_cmd, saved_pause, client_pause>>

ListenUnlock ==
  /\ step[Listener] = "unlock"
  /\ connectionMutex' = FALSE /\ vst' = Listener /\ Goto(Listener, "top")
  /\ UNCHANGED <<id, should_shutdown, pauseVars, listVars, mainVars, mapVars, allow_connections,
                 sessionVars>>

Listen ==
  \/ ListenTop \/ ListenLook \/ ListenLock \/ (\E s \in Session : ListenNew(s))
  \/ ListenCreate \/ ListenAccept \/ ListenJoin \/ ListenDelete \/ ListenUnlock

--------------------------------------------------------------------------------
(***************************************************************************)
(* A session thread.                                                       *)
(***************************************************************************)
SessionStart(s) ==
  /\ step[s] = "start" /\ TestShutdown(s, "ended", "add_vst")
  /\ UNCHANGED <<id, should_shutdown, pauseVars, listVars, mainVars, listenVars, mapVars,
                 allow_connections, sessionVars>>

AddVst(s) ==
  /\ step[s] = "add_vst" /\ ~map_mutex
  /\ var_server_threads' = var_server_threads \cup {s}
  /\ Goto(s, "accept")
  /\ UNCHANGED <<id, should_shutdown, pauseVars, listVars, mainVars, listenVars, map_mutex,
                 var_server_sessions, allow_connections, sessionVars>>

\* The connection is made, or it fails or comes from an address that is not allowed.
AcceptConnection(s) ==
  /\ step[s] = "accept"
  /\ Goto(s, "add_session") \/ Goto(s, "fail")
  /\ UNCHANGED <<id, should_shutdown, pauseVars, listVars, mainVars, listenVars, mapVars,
                 allow_connections, sessionVars>>

\* delete_vst after a failure, by the id of the thread that runs.
FailVst(s) ==
  /\ step[s] = "fail" /\ ~map_mutex
  /\ var_server_threads' = var_server_threads \ {s}
  /\ Goto(s, "reject")
  /\ UNCHANGED <<id, should_shutdown, pauseVars, listVars, mainVars, listenVars, map_mutex,
                 var_server_sessions, allow_connections, sessionVars>>

AddSession(s) ==
  /\ step[s] = "add_session" /\ ~map_mutex
  /\ var_server_sessions' = var_server_sessions \cup {s}
  /\ Goto(s, "success")
  /\ UNCHANGED <<id, should_shutdown, pauseVars, listVars, mainVars, listenVars, map_mutex,
                 var_server_threads, allow_connections, sessionVars>>

\* The listen thread is told what became of the connection.
TellStatus(s) ==
  /\ \/ step[s] = "reject" /\ status' = Set(status, s, "FAIL") /\ Goto(s, "ended")
     \/ step[s] = "success" /\ status' = Set(status, s, "SUCCESS") /\ Goto(s, "top")
  /\ UNCHANGED <<id, should_shutdown, pauseVars, listVars, mainVars, listenVars, mapVars,
                 allow_connections, refs, pause_cmd, saved_pause, client_pause, deleted>>

SessionTop(s) ==
  /\ \/ step[s] = "top" /\ TopOfLoop(s, "exit_session", "message")
     \/ WakeUp(s, "message")
  /\ UNCHANGED <<id, should_shutdown, listVars, mainVars, listenVars, mapVars,
                 allow_connections, sessionVars>>

\* handle_message: the client sends nothing or a command, which may block in a model call; or the
\* session is over, because the client has gone, the server was disabled (get_enabled) or a write
\* of the main thread failed (get_exit_cmd).
HandleMessage(s) ==
  /\ step[s] = "message"
  /\ \/ Goto(s, "exit_session")
     \/ Goto(s, "copy")
     \/ Commands[s] \ {"long"} # {} /\ Goto(s, "command")
     \/ "long" \in Commands[s] /\ Goto(s, "blocked")
  /\ UNCHANGED <<id, should_shutdown, pauseVars, listVars, mainVars, listenVars, mapVars,
                 allow_connections, sessionVars>>

\* Every var_ command begins with get_session, which finds the session of a running thread.
GetSession(s) ==
  /\ step[s] = "command" /\ ~map_mutex
  /\ Goto(s, "apply")
  /\ UNCHANGED <<id, should_shutdown, pauseVars, listVars, mainVars, listenVars, mapVars,
                 allow_connections, sessionVars>>

\* var_add, var_pause and var_unpause, var_exit; get_exit_cmd is tested after the message.
ApplyCommand(s) ==
  /\ step[s] = "apply"
  /\ \/ /\ "var_add" \in Commands[s]
        /\ refs' = Set(refs, s, IF refs[s] = "none" THEN "good" ELSE refs[s]) /\ Goto(s, "copy")
        /\ UNCHANGED <<pause_cmd, client_pause>>
     \/ \E on_off \in BOOLEAN :
          /\ "var_pause" \in Commands[s]
          /\ pause_cmd' = Set(pause_cmd, s, on_off)
          /\ client_pause' = Set(client_pause, s, on_off)
          /\ Goto(s, "copy") /\ UNCHANGED refs
     \/ /\ "var_exit" \in Commands[s] /\ Goto(s, "exit_session")
        /\ UNCHANGED <<refs, pause_cmd, client_pause>>
  /\ UNCHANGED <<id, should_shutdown, pauseVars, listVars, mainVars, listenVars, mapVars,
                 allow_connections, status, saved_pause, deleted>>

\* The model call returns after all.  Nothing says that it will.
BlockedReturns(s) ==
  /\ step[s] = "blocked" /\ Goto(s, "copy")
  /\ UNCHANGED <<id, should_shutdown, pauseVars, listVars, mainVars, listenVars, mapVars,
                 allow_connections, sessionVars>>

\* stageValue looks a reference that was tagged as invalid up again, in the memory of now.
Staged(r) == IF r = "bad" THEN "good" ELSE r

\* copy_and_write_async: copies in the modes that do, writes unless paused; a write that fails
\* ends the session.
CopyAndWriteAsync(s) ==
  /\ step[s] = "copy"
  /\ refs' \in {refs, Set(refs, s, Staged(refs[s]))}
  /\ Goto(s, "top") \/ (~pause_cmd[s] /\ Goto(s, "exit_session"))
  /\ UNCHANGED <<id, should_shutdown, pauseVars, listVars, mainVars, listenVars, mapVars,
                 allow_connections, status, pause_cmd, saved_pause, client_pause, deleted>>

\* exit_var_thread, after which the fields of the session are gone.  The maps are searched by
\* get_pthread_id(), which is 0 for a thread that was abandoned; 0 is no key of theirs.
ExitSession(s) ==
  /\ step[s] = "exit_session" /\ ~map_mutex
  /\ var_server_sessions' = IF id[s] THEN var_server_sessions \ {s} ELSE var_server_sessions
  /\ Goto(s, "exit_vst")
  /\ UNCHANGED <<id, should_shutdown, pauseVars, listVars, mainVars, listenVars, map_mutex,
                 var_server_threads, allow_connections, sessionVars>>

ExitVst(s) ==
  /\ step[s] = "exit_vst" /\ ~map_mutex
  /\ var_server_threads' = IF id[s] THEN var_server_threads \ {s} ELSE var_server_threads
  /\ Goto(s, "cleanup")
  /\ UNCHANGED <<id, should_shutdown, pauseVars, listVars, mainVars, listenVars, map_mutex,
                 var_server_sessions, allow_connections, sessionVars>>

Cleanup(s) ==
  /\ step[s] = "cleanup" /\ Goto(s, "ended")
  /\ deleted' = Set(deleted, s, TRUE) /\ refs' = Set(refs, s, "none")
  /\ pause_cmd' = Set(pause_cmd, s, FALSE) /\ client_pause' = Set(client_pause, s, FALSE)
  /\ UNCHANGED <<id, should_shutdown, pauseVars, listVars, mainVars, listenVars, mapVars,
                 allow_connections, status, saved_pause>>

SessionRun(s) ==
  \/ SessionStart(s) \/ AddVst(s) \/ AcceptConnection(s) \/ FailVst(s) \/ AddSession(s)
  \/ TellStatus(s) \/ SessionTop(s) \/ HandleMessage(s) \/ GetSession(s)
  \/ ApplyCommand(s) \/ CopyAndWriteAsync(s) \/ ExitSession(s) \/ ExitVst(s) \/ Cleanup(s)

--------------------------------------------------------------------------------
(***************************************************************************)
(* The jobs of the main thread.                                            *)
(***************************************************************************)
othersOfMain == <<listenVars, allow_connections>>

MainGoto(from, to) == main = from /\ main' = to

\* A job that holds map_mutex goes over the threads of a map.
LockMap(from, to, map) ==
  /\ MainGoto(from, to) /\ ~map_mutex
  /\ map_mutex' = TRUE /\ todo' = map
  /\ UNCHANGED <<threadVars, curr, reloads, var_server_threads, var_server_sessions,
                 othersOfMain, sessionVars>>

UnlockMap(from, to) ==
  /\ MainGoto(from, to) /\ todo = {}
  /\ map_mutex' = FALSE
  /\ UNCHANGED <<threadVars, todo, curr, reloads, var_server_threads, var_server_sessions,
                 othersOfMain, sessionVars>>

\* copy_and_write_top, copy_and_write_scheduled and those of the freeze: the sessions in
\* the mode of the job are copied.
CopyOne(s) ==
  /\ main = "copy" /\ s \in todo
  /\ todo' = todo \ {s}
  /\ refs' \in {refs, Set(refs, s, Staged(refs[s]))}
  /\ UNCHANGED <<threadVars, main, curr, reloads, mapVars, othersOfMain, status, pause_cmd,
                 saved_pause, client_pause, deleted>>

CopyJob ==
  \/ LockMap("run", "copy", var_server_sessions)
  \/ \E s \in Session : CopyOne(s)
  \/ UnlockMap("copy", "run")

\* pause_listening, in its two steps.
PauseUnheeded ==
  /\ reloads < MaxReloads /\ MainGoto("run", "suspend_lock") /\ RequestPause(Listener)
  /\ UNCHANGED <<step, id, should_shutdown, listVars, todo, curr, reloads, mapVars,
                 othersOfMain, sessionVars>>
PauseListening ==
  /\ \/ reloads < MaxReloads /\ MainGoto("run", "pause_listen") /\ RequestPause(Listener)
     \/ MainGoto("pause_listen", "suspend_lock") /\ Paused(Listener) /\ UNCHANGED pauseVars
  /\ UNCHANGED <<step, id, should_shutdown, listVars, todo, curr, reloads, mapVars,
                 othersOfMain, sessionVars>>

\* preload_checkpoint of a session: its thread is made to pause, ...
SuspendOne(s) ==
  /\ MainGoto("suspend", "wait_session") /\ s \in todo
  /\ RequestPause(s) /\ curr' = s
  /\ UNCHANGED <<step, id, should_shutdown, listVars, todo, reloads, mapVars, othersOfMain,
                 sessionVars>>

\* ... and what its references point at is let go.  A paused thread does not hold the mutex
\* of the copies.
DisconnectReferences ==
  /\ MainGoto("wait_session", "suspend") /\ Paused(curr)
  /\ todo' = todo \ {curr} /\ curr' = Listener
  /\ IF status[curr] = "SUCCESS"
     THEN /\ saved_pause' = Set(saved_pause, curr, {pause_cmd[curr]})
          /\ pause_cmd' = Set(pause_cmd, curr, TRUE)
          /\ refs' = Set(refs, curr, IF refs[curr] = "none" THEN "none" ELSE "bad")
     ELSE UNCHANGED <<saved_pause, pause_cmd, refs>>
  /\ UNCHANGED <<threadVars, reloads, mapVars, othersOfMain, status, client_pause,
                 deleted>>

\* The memory of the simulation is replaced: what still points into it is stale.
ReloadCheckpoint ==
  /\ MainGoto("reload", "resume_lock") /\ reloads' = reloads + 1
  /\ refs' = [s \in Session |-> IF refs[s] = "good" THEN "stale" ELSE refs[s]]
  /\ UNCHANGED <<threadVars, todo, curr, mapVars, othersOfMain, status, pause_cmd, saved_pause,
                 client_pause, deleted>>

\* restart of a session.
ResumeOne(s) ==
  /\ main = "resume" /\ s \in todo
  /\ todo' = todo \ {s} /\ Unpause(s)
  /\ IF status[s] # "SUCCESS" THEN UNCHANGED pause_cmd
     ELSE \E on_off \in saved_pause[s] : pause_cmd' = Set(pause_cmd, s, on_off)
  /\ UNCHANGED <<step, id, should_shutdown, listVars, main, curr, reloads, mapVars, othersOfMain,
                 status, refs, saved_pause, client_pause, deleted>>

RestartListening ==
  /\ MainGoto("resume_listen", "run") /\ Unpause(Listener)
  /\ UNCHANGED <<step, id, should_shutdown, listVars, todo, curr, reloads, mapVars, othersOfMain,
                 sessionVars>>

\* suspendPreCheckpointReload, the reload, resumePostCheckpointReload.
Reload ==
  \/ PauseListening
  \/ LockMap("suspend_lock", "suspend", var_server_threads)
  \/ \E s \in Session : SuspendOne(s)
  \/ DisconnectReferences
  \/ UnlockMap("suspend", "reload")
  \/ ReloadCheckpoint
  \/ LockMap("resume_lock", "resume", var_server_threads)
  \/ \E s \in Session : ResumeOne(s)
  \/ UnlockMap("resume", "resume_listen")
  \/ RestartListening

--------------------------------------------------------------------------------
(***************************************************************************)
(* Executive::shutdown, as far as it concerns these threads.               *)
(***************************************************************************)
\* shutdownConnections.  A connection is pending only while the listen thread holds the mutex, so
\* the wait for it is one for the mutex.
ShutdownConnections ==
  /\ \/ MainGoto("run", "connections") /\ UNCHANGED allow_connections
     \/ MainGoto("connections", "cancel_listen") /\ ~connectionMutex /\ allow_connections' = FALSE
  /\ UNCHANGED <<threadVars, todo, curr, reloads, listenVars, mapVars, sessionVars>>

\* VariableServer::shutdown: cancel_thread of the listen thread, ...
CancelListen ==
  /\ MainGoto("cancel_listen", "request") /\ RequestShutdown({Listener})
  /\ UNCHANGED <<step, id, pauseVars, listVars, todo, curr, reloads, mapVars, othersOfMain,
                 sessionVars>>

\* ... every session in the map is asked to stop and remembered, ...
RequestSessions ==
  /\ MainGoto("request", "poll") /\ ~map_mutex
  /\ RequestShutdown(var_server_threads) /\ todo' = var_server_threads
  /\ UNCHANGED <<step, id, pauseVars, listVars, curr, reloads, mapVars, othersOfMain, sessionVars>>

\* ... until the map is empty, or the time is over.  The time is long for a thread that is not
\* blocked in a command.
StoppedOnly ==
  /\ MainGoto("poll", "reap") /\ ~map_mutex /\ var_server_threads = {}
  /\ UNCHANGED <<threadVars, todo, curr, reloads, mapVars, othersOfMain, sessionVars>>
SessionsStopped ==
  /\ MainGoto("poll", "reap") /\ ~map_mutex
  /\ \/ var_server_threads = {}
     \/ \A s \in todo \cap var_server_threads : step[s] = "blocked"
  /\ UNCHANGED <<threadVars, todo, curr, reloads, mapVars, othersOfMain, sessionVars>>

\* A remembered thread that is still in the map is abandoned, another one joined.
ReapSession(s) ==
  /\ main = "reap" /\ s \in todo
  /\ (id[s] /\ s \in var_server_threads) \/ CanJoin(s)
  /\ ClearId(s) /\ todo' = todo \ {s}
  /\ UNCHANGED <<step, should_shutdown, pauseVars, listVars, main, curr, reloads, mapVars,
                 othersOfMain, sessionVars>>

Reaped ==
  /\ MainGoto("reap", "ensure") /\ todo = {}
  /\ UNCHANGED <<threadVars, todo, curr, reloads, mapVars, othersOfMain, sessionVars>>

\* ensureAllShutdown
CancelAll ==
  /\ MainGoto("ensure", "join_all") /\ LockAndCancelAll
  /\ todo' = all_sys_threads
  /\ UNCHANGED <<step, id, pauseVars, curr, reloads, mapVars, othersOfMain, sessionVars>>

JoinThread(t) ==
  /\ main = "join_all" /\ t \in todo /\ CanJoin(t)
  /\ ClearId(t) /\ todo' = todo \ {t}
  /\ UNCHANGED <<step, should_shutdown, pauseVars, listVars, main, curr, reloads, mapVars,
                 othersOfMain, sessionVars>>

AllJoined ==
  /\ MainGoto("join_all", "exited") /\ todo = {} /\ UnlockAllJoined
  /\ UNCHANGED <<step, id, should_shutdown, pauseVars, todo, curr, reloads, mapVars, othersOfMain,
                 sessionVars>>

Shutdown ==
  \/ ShutdownConnections \/ CancelListen \/ RequestSessions \/ SessionsStopped
  \/ (\E s \in Session : ReapSession(s)) \/ Reaped
  \/ CancelAll \/ (\E t \in SysThreads : JoinThread(t)) \/ AllJoined

--------------------------------------------------------------------------------
Main == CopyJob \/ Reload \/ Shutdown

Next == Main \/ Listen \/ \E s \in Session : SessionRun(s) \/ BlockedReturns(s)

Spec == Init /\ [][Next]_vars

\* The threads are scheduled; what main has begun it goes on with.  No fairness for the return of
\* a blocked command, nor for the beginning of a job.
FairSpec ==
  /\ Spec
  /\ WF_vars(main # "run" /\ Main)
  /\ WF_vars(Listen)
  /\ \A s \in Session : WF_vars(SessionRun(s))

--------------------------------------------------------------------------------
(***************************************************************************)
(* Properties.                                                             *)
(***************************************************************************)
Reloading == main \in {"pause_listen", "suspend_lock", "suspend", "wait_session", "reload",
                       "resume_lock", "resume", "resume_listen"}

\* A session thread executes a command or copies: it may touch the memory of the simulation.
Working(s) == step[s] \in {"message", "command", "apply", "blocked", "copy"}

\* preload_checkpoint (VariableServerSessionThread.cpp:81) exists so that no reference of a client
\* survives the replacement of the memory it points into: whatever thread would stage it next
\* would read memory that is gone.
NoStaleReference == \A s \in var_server_threads \cup var_server_sessions : refs[s] # "stale"

\* From the end of suspendPreCheckpointReload until a session is resumed no session works and the
\* listen thread lets nobody in (test_pause, SysThread.cpp:97).
ReloadQuiet ==
  main \in {"reload", "resume_lock"} =>
    /\ \A s \in Session : ~Working(s)
    /\ step[Listener] \in {"top", "paused"}

\* A reload leaves each session as its client wants it, paused or not, whatever the order in which
\* threads were created, suspended and resumed (the saved state has no initial value).
PauseRestored == main = "run" => \A s \in Session : ~deleted[s] => pause_cmd[s] = client_pause[s]

\* The main thread never goes over a session that its thread has deleted: sessions leave the maps
\* first (exit_var_thread), unless their thread was abandoned.
SessionsAlive ==
  /\ \A s \in var_server_sessions \cup var_server_threads : id[s] => ~deleted[s]
  /\ main = "copy" => \A s \in todo : ~deleted[s]

\* When the process goes on to its end every thread has ended, but those abandoned in a command.
NoneOutlivesShutdown ==
  main = "exited" =>
    /\ step[Listener] = "ended"
    /\ \A s \in Session : step[s] \in {"none", "ended"} \/ (should_shutdown[s] /\ ~id[s])

\* A reload disturbs no session in its work, and leaves none paused that was not.
ReloadHarmless == ReloadQuiet /\ PauseRestored

\* Each session is in the maps exactly while it lives, and gone at the end.
SessionsAccountedFor == TypeOK /\ SessionsAlive /\ NoneOutlivesShutdown

\* A reload ends, or waits for a session thread that itself needs the mutex the main thread holds
\* or that is blocked in a command.
WaitsInVain ==
  main = "wait_session" /\ step[curr] \in {"command", "exit_session", "exit_vst", "blocked"}
ReloadEndsOrBlocks == Reloading ~> (main = "run" \/ WaitsInVain)

\* VariableServer::shutdown returns, whatever the clients do: its wait is bounded.
ServerShutdownReturns ==
  main \in {"connections", "cancel_listen", "request", "poll", "reap"} ~> main = "ensure"

\* Neither job of the main thread is held up, but by a mutex that a comment overlooks.
MainGoesOn == ReloadEndsOrBlocks /\ ServerShutdownReturns

\* A comment (VariableServer_restart.cpp:23) says that a checkpoint can be reloaded while a client
\* is connected.
ReloadReturns == Reloading ~> main = "run"

\* A comment (VariableServer_shutdown.cpp:38) says that when the shutdown job returns the
\* well-behaved sessions are gone.
SessionsGone == main = "ensure" => \A s \in var_server_threads : ~id[s]

\* The threads of the process all end, so the simulation can.
ShutdownReturns == main = "connections" ~> main = "exited"
==============================================================================
