----------------------------- MODULE MasterSlave -----------------------------
(***************************************************************************)
(* A master simulation and its slaves: at the end of every frame, and once *)
(* per round of the freeze loop, each slave tells the master its command   *)
(* and reads the time and the command of the master.  The freeze, the run  *)
(* and the end of one spread to the others this way, and no simulation     *)
(* runs ahead of the others.                                               *)
(*                                                                         *)
(* The connections are sockets: what one side wrote the other reads in     *)
(* that order, and may read late.  A simulation may die, and a read that   *)
(* has a limit may give up.  reconnect_wait_limit is 0, its default.       *)
(***************************************************************************)
EXTENDS Integers, Sequences, FiniteSets, Functions

CONSTANTS
  Slaves,               \* the sequence of slaves, in the order of the master's vector
  Limited,              \* those with a sync_wait_limit; the slave has the master's
  SyncErrorTerminate,   \* the slaves for which the master ends when it loses them
  SlaveTerminates,      \* the slaves that end when they lose the master
  AutoDump,             \* the slaves with chkpnt_dump_auto
  Period,               \* time is counted modulo this number of frames
  AnyMoment,            \* do clients command at any moment, or only between the exchanges?
  Bound, MaxTroubles    \* bounds: how often each of Troubles happens, and all together

Slave == {Slaves[i] : i \in DOMAIN Slaves}
Main == "master"
Sim == {Main} \cup Slave
Command == {"NoCmd", "FreezeCmd", "RunCmd", "ExitCmd"}

\* A command of a client, a death, a checkpoint, and a read that times out.
Troubles == {"command", "death", "checkpoint", "master", "slave"}

ASSUME MasterSlaveAssumption ==
  /\ Main \notin Slave /\ Slaves \in Seq(Slave) /\ Cardinality(Slave) = Len(Slaves)
  /\ Limited \cup SyncErrorTerminate \cup SlaveTerminates \cup AutoDump \subseteq Slave
  /\ Period \in Nat \ {0, 1} /\ AnyMoment \in BOOLEAN
  /\ Bound \in [Troubles -> Nat] /\ MaxTroubles \in Nat

VARIABLES
  mode,            \* [Sim -> "run", "freeze", "exit" or "gone"]
  time,            \* [Sim -> the frame it is in]
  exec_command,    \* [Sim -> Command], or "Dump" while the master writes it
  async_freeze,    \* the simulations with async_freeze_command
  blocking,        \* those whose reads have no limit, as they froze
  pc,              \* [Sim -> where it is]
  turn, why,       \* of the master: the slave it is at, the exchange it is in
  save_command,    \* of the master, see WriteDump
  slave_command,   \* [Slave -> what it wrote last]
  activated,       \* the slaves that are activated for the master
  in_sync,         \* those that are activated for themselves
  up, down,        \* [Slave -> what is on the way to the master, and to the slave]
  bounds           \* ghost: the numbers of each kind of trouble

simVars == <<mode, time, exec_command, async_freeze, blocking, pc>>
masterVars == <<turn, why, save_command, activated>>
slaveVars == <<slave_command, in_sync>>
vars == <<simVars, masterVars, slaveVars, up, down, bounds>>

Item(kind, v) == [kind |-> kind, v |-> v]
IsItem(m) == CASE m.kind = "time"    -> m.v \in 0 .. Period - 1
               [] m.kind = "command" -> m.v \in Command \cup {"Dump"}
               [] OTHER              -> m = Item("name", "chkpnt")

\* Of the variables.
TypeOK ==
  /\ mode \in [Sim -> {"run", "freeze", "exit", "gone"}] /\ time \in [Sim -> 0 .. Period - 1]
  /\ exec_command \in [Sim -> Command \cup {"Dump"}] /\ \A s \in Slave : exec_command[s] # "Dump"
  /\ async_freeze \subseteq Sim /\ blocking \subseteq Sim
  /\ turn \in 1 .. Len(Slaves) + 1 /\ why \in {"frame", "checkpoint", "shutdown"}
  /\ save_command \in Command /\ slave_command \in [Slave -> Command]
  /\ activated \subseteq Slave /\ in_sync \subseteq Slave
  /\ bounds \in [Troubles -> Nat] /\ \A k \in Troubles : bounds[k] <= Bound[k]
  /\ \A s \in Slave : up[s] \in Seq(Command) /\ \A i \in DOMAIN down[s] : IsItem(down[s][i])

\* loop sets mode to Run; init has connected and activated everyone.
Init ==
  /\ mode = [p \in Sim |-> "run"] /\ time = [p \in Sim |-> 0] /\ pc = [p \in Sim |-> "work"]
  /\ exec_command = [p \in Sim |-> "NoCmd"] /\ async_freeze = {} /\ blocking = {}
  /\ turn = 1 /\ why = "frame" /\ save_command = "NoCmd"
  /\ slave_command = [s \in Slave |-> "NoCmd"] /\ activated = Slave /\ in_sync = Slave
  /\ up = [s \in Slave |-> <<>>] /\ down = [s \in Slave |-> <<>>]
  /\ bounds = [k \in Troubles |-> 0]

Gone(p) == mode[p] = "gone"
Happens(k) ==
  /\ bounds[k] < Bound[k] /\ SumFunction(bounds) < MaxTroubles
  /\ bounds' = [bounds EXCEPT ![k] = @ + 1]
GoTo(p, l) == pc' = [pc EXCEPT ![p] = l]

--------------------------------------------------------------------------------
(***************************************************************************)
(* What all the simulations do: the frame, and the tests of the command.   *)
(***************************************************************************)
\* The jobs of a frame up to its end, where async_freeze_to_exec_command runs.  RunCmd is
\* cleared on the way.
Frame(p) ==
  /\ time' = [time EXCEPT ![p] = (@ + 1) % Period]
  /\ exec_command' = [exec_command EXCEPT ![p] =
       IF p \in async_freeze THEN "FreezeCmd" ELSE IF @ = "RunCmd" THEN "NoCmd" ELSE @]
  /\ async_freeze' = async_freeze \ {p}

\* The top of the loop: FreezeCmd starts the freeze loop, and freeze_init lifts the limits.
TestRunning(p) ==
  /\ mode[p] = "run"
  /\ IF exec_command[p] = "FreezeCmd"
     THEN /\ mode' = [mode EXCEPT ![p] = "freeze"] /\ blocking' = blocking \cup {p}
          /\ exec_command' = [exec_command EXCEPT ![p] = "NoCmd"]
     ELSE UNCHANGED <<mode, blocking, exec_command>>

\* The end of a round of the freeze loop; unfreeze sets the limits again.
TestFrozen(p) ==
  /\ mode[p] = "freeze" /\ exec_command[p] # "ExitCmd"
  /\ IF exec_command[p] = "RunCmd"
     THEN mode' = [mode EXCEPT ![p] = "run"] /\ blocking' = blocking \ {p}
     ELSE UNCHANGED <<mode, blocking>>
  /\ exec_command' = [exec_command EXCEPT ![p] = IF @ \in {"RunCmd", "FreezeCmd"} THEN "NoCmd" ELSE @]

Test(p) ==
  /\ pc[p] = "test" /\ (TestRunning(p) \/ TestFrozen(p)) /\ GoTo(p, "work")
  /\ UNCHANGED <<time, async_freeze, masterVars, slaveVars, up, down, bounds>>

\* ExitCmd is tested before the end of a frame, and at the end of a round of the freeze loop.
Exits(p) ==
  /\ exec_command[p] = "ExitCmd"
  /\ (mode[p] = "run" /\ pc[p] = "work") \/ (mode[p] = "freeze" /\ pc[p] = "test")

--------------------------------------------------------------------------------
(***************************************************************************)
(* The master: all the slaves are read, then all are written.              *)
(***************************************************************************)
Exchange(w) == GoTo(Main, "read") /\ turn' = 1 /\ why' = w

\* The jobs up to the exchange, at the end of the frame or of the round of the freeze loop.
MasterWork ==
  /\ pc[Main] = "work" /\ mode[Main] \in {"run", "freeze"} /\ ~Exits(Main) /\ Exchange("frame")
  /\ IF mode[Main] = "run" THEN Frame(Main) ELSE UNCHANGED <<time, exec_command, async_freeze>>
  /\ UNCHANGED <<mode, blocking, save_command, activated, slaveVars, up, down, bounds>>

\* checkpoint, the job of that class: one is taken while the frame runs.
MasterCheckpoint ==
  /\ pc[Main] = "work" /\ mode[Main] = "run" /\ ~Exits(Main) /\ Exchange("checkpoint")
  /\ Happens("checkpoint")
  /\ UNCHANGED <<mode, time, exec_command, async_freeze, blocking, save_command, activated, slaveVars, up, down>>

\* exec_terminate_with_return: out of the loop, to the shutdown job; and out of that job.
Terminate ==
  IF mode[Main] = "exit"
  THEN mode' = [mode EXCEPT ![Main] = "gone"] /\ GoTo(Main, "gone") /\ UNCHANGED <<turn, why>>
  ELSE mode' = [mode EXCEPT ![Main] = "exit"] /\ Exchange("shutdown")

MasterExits ==
  /\ Exits(Main) /\ Terminate
  /\ UNCHANGED <<time, exec_command, async_freeze, blocking, save_command, activated, slaveVars, up, down, bounds>>

At == Slaves[turn]
InExchange(l) == pc[Main] = l /\ turn <= Len(Slaves) /\ At \in activated
NextSlave == turn' = turn + 1 /\ UNCHANGED <<mode, pc, why>>

\* Mutant of Receive: the end of the connection goes unnoticed.
ReceiveBlind(s, c) ==
  IF up[s] # <<>> THEN c = Head(up[s]) /\ up' = [up EXCEPT ![s] = Tail(@)] /\ UNCHANGED bounds
  ELSE /\ c = "Error" /\ UNCHANGED up
       /\ s \in Limited /\ Main \notin blocking /\ Happens("master")

\* read_command: what the slave wrote, or MS_ErrorCmd when it is gone or too late.
Receive(s, c) ==
  IF up[s] # <<>> THEN c = Head(up[s]) /\ up' = [up EXCEPT ![s] = Tail(@)] /\ UNCHANGED bounds
  ELSE /\ c = "Error" /\ UNCHANGED up
       /\ IF Gone(s) THEN UNCHANGED bounds
          ELSE s \in Limited /\ Main \notin blocking /\ Happens("master")

\* A slave that is lost or leaves: the master ends too, or goes on without it.
Lose(s) ==
  IF s \in SyncErrorTerminate THEN Terminate /\ UNCHANGED activated
  ELSE activated' = activated \ {s} /\ NextSlave

\* Mutant of Join: the freeze of a slave is its own.
JoinNobody(c) == UNCHANGED exec_command

\* "if the current slave is freezing, freeze the master too"
Join(c) ==
  exec_command' = [exec_command EXCEPT ![Main] = IF c = "FreezeCmd" /\ @ # "ExitCmd" THEN "FreezeCmd" ELSE @]

\* read_slave_status
ReadSlave ==
  /\ InExchange("read")
  /\ \E c \in Command \cup {"Error"} :
       /\ Receive(At, c)
       /\ IF exec_command[Main] # "ExitCmd" /\ c \in {"Error", "ExitCmd"}
          THEN Lose(At) ELSE NextSlave /\ UNCHANGED activated
       /\ Join(c)
  /\ UNCHANGED <<time, async_freeze, blocking, save_command, slaveVars, down>>

SkipSlave ==
  /\ pc[Main] \in {"read", "write"} /\ turn <= Len(Slaves) /\ At \notin activated /\ NextSlave
  /\ UNCHANGED <<time, exec_command, async_freeze, blocking, save_command, activated, slaveVars, up, down, bounds>>

ReadAll ==
  /\ pc[Main] = "read" /\ turn > Len(Slaves) /\ GoTo(Main, "write") /\ turn' = 1
  /\ save_command' = exec_command[Main]
  /\ UNCHANGED <<mode, time, exec_command, async_freeze, blocking, why, activated, slaveVars, up, down, bounds>>

\* write_master_status
Status(c) == <<Item("time", time[Main]), Item("command", c)>>

WriteSlave ==
  /\ InExchange("write") /\ (why = "checkpoint" => At \notin AutoDump)
  /\ down' = [down EXCEPT ![At] = @ \o Status(exec_command[Main])] /\ NextSlave
  /\ UNCHANGED <<time, exec_command, async_freeze, blocking, save_command, activated, slaveVars, up, bounds>>

\* The command of the executive is changed for as long as it is written, and the name follows.
WriteDump ==
  /\ InExchange("write") /\ why = "checkpoint" /\ At \in AutoDump /\ GoTo(Main, "name")
  /\ exec_command' = [exec_command EXCEPT ![Main] = "Dump"]
  /\ down' = [down EXCEPT ![At] = @ \o Status("Dump")]
  /\ UNCHANGED <<mode, time, async_freeze, blocking, masterVars, slaveVars, up, bounds>>

\* The command is restored after each slave.
Restored == exec_command' = [exec_command EXCEPT ![Main] = save_command]

WriteName ==
  /\ pc[Main] = "name" /\ GoTo(Main, "write") /\ turn' = turn + 1
  /\ down' = [down EXCEPT ![At] = Append(@, Item("name", "chkpnt"))]
  /\ Restored
  /\ UNCHANGED <<mode, time, async_freeze, blocking, why, save_command, activated, slaveVars, up, bounds>>

WrittenAll ==
  /\ pc[Main] = "write" /\ turn > Len(Slaves)
  /\ GoTo(Main, CASE why = "frame" -> "test" [] why = "checkpoint" -> "work" [] OTHER -> "gone")
  /\ mode' = [mode EXCEPT ![Main] = IF why = "shutdown" THEN "gone" ELSE @]
  /\ UNCHANGED <<time, exec_command, async_freeze, blocking, masterVars, slaveVars, up, down, bounds>>

MasterStep ==
  \/ MasterWork \/ MasterExits \/ Test(Main)
  \/ ReadSlave \/ SkipSlave \/ ReadAll \/ WriteSlave \/ WriteDump \/ WriteName \/ WrittenAll

--------------------------------------------------------------------------------
(***************************************************************************)
(* A slave.                                                                *)
(***************************************************************************)
\* The jobs up to end_of_frame, or freeze, which first clears the command.
SlaveWork(s) ==
  /\ pc[s] = "work" /\ mode[s] \in {"run", "freeze"} /\ ~Exits(s)
  /\ IF mode[s] = "run" THEN Frame(s)
     ELSE exec_command' = [exec_command EXCEPT ![s] = "NoCmd"] /\ UNCHANGED <<time, async_freeze>>
  /\ GoTo(s, IF s \in in_sync THEN "tell" ELSE "test")
  /\ UNCHANGED <<mode, blocking, masterVars, slaveVars, up, down, bounds>>

Write(s, c) == up' = [up EXCEPT ![s] = Append(@, c)]

Tell(s) ==
  /\ pc[s] = "tell" /\ GoTo(s, "time")
  /\ Write(s, exec_command[s]) /\ slave_command' = [slave_command EXCEPT ![s] = exec_command[s]]
  /\ UNCHANGED <<mode, time, exec_command, async_freeze, blocking, masterVars, in_sync, down, bounds>>

\* The shutdown job writes ExitCmd.
Ends(s) ==
  /\ mode' = [mode EXCEPT ![s] = "gone"] /\ GoTo(s, "gone") /\ Write(s, "ExitCmd")
  /\ UNCHANGED exec_command

SlaveExits(s) ==
  /\ Exits(s) /\ Ends(s)
  /\ UNCHANGED <<time, async_freeze, blocking, masterVars, slaveVars, down, bounds>>

\* read_time, read_command and read_name.
Hear(s, kind) ==
  /\ pc[s] = kind /\ down[s] # <<>> /\ down' = [down EXCEPT ![s] = Tail(@)]
  /\ exec_command' = [exec_command EXCEPT ![s] =
       IF kind = "command" /\ Head(down[s]).v # "Dump" THEN Head(down[s]).v ELSE @]
  /\ GoTo(s, CASE kind = "time" -> "command"
               [] kind = "command" /\ Head(down[s]).v = "Dump" -> "name"
               [] OTHER -> "test")
  /\ UNCHANGED <<mode, time, async_freeze, blocking, masterVars, slaveVars, up, bounds>>

\* The read fails: the master is gone, or too late.
Fails(s) ==
  /\ down[s] = <<>>
  /\ IF Gone(Main) THEN UNCHANGED bounds
     ELSE s \in Limited /\ s \notin blocking /\ Happens("slave")

\* The slave freezes by itself, and tells the master so.
Alone(s) ==
  /\ in_sync' = in_sync \ {s} /\ exec_command' = [exec_command EXCEPT ![s] = "FreezeCmd"]
  /\ Write(s, "FreezeCmd") /\ GoTo(s, "test") /\ UNCHANGED mode

\* One that is about to freeze anyway goes on to the next read.
LostMaster(s) ==
  /\ pc[s] \in {"time", "command"} /\ Fails(s)
  /\ \/ s \in SlaveTerminates /\ Ends(s) /\ UNCHANGED in_sync
     \/ s \notin SlaveTerminates /\ slave_command[s] # "FreezeCmd" /\ Alone(s)
     \/ /\ s \notin SlaveTerminates /\ slave_command[s] = "FreezeCmd"
        /\ GoTo(s, IF pc[s] = "time" THEN "command" ELSE "test") /\ UNCHANGED <<mode, exec_command, in_sync, up>>
  /\ UNCHANGED <<time, async_freeze, blocking, masterVars, slave_command, down>>

\* get_checkpoint_name does not look at the result: it goes on with the name of the last time.  That
\* of a name that is only late, which the next read takes for a time, is left out.
NoName(s) ==
  /\ pc[s] = "name" /\ Gone(Main) /\ Fails(s) /\ GoTo(s, "test")
  /\ UNCHANGED <<mode, time, exec_command, async_freeze, blocking, masterVars, slaveVars, up, down>>

SlaveStep(s) ==
  \/ SlaveWork(s) \/ Tell(s) \/ SlaveExits(s) \/ Test(s)
  \/ Hear(s, "time") \/ Hear(s, "command") \/ Hear(s, "name") \/ LostMaster(s) \/ NoName(s)

--------------------------------------------------------------------------------
(***************************************************************************)
(* The clients of a simulation, and its death.                             *)
(***************************************************************************)
MayCommand(p) ==
  /\ mode[p] \in {"run", "freeze"} /\ Happens("command")
  /\ UNCHANGED <<mode, time, blocking, pc, masterVars, slaveVars, up, down>>

\* Mutant of Freeze: the command at once, without waiting for the end of the frame.
FreezeAtOnce(p) ==
  /\ mode[p] = "run" /\ MayCommand(p)
  /\ exec_command' = [exec_command EXCEPT ![p] = "FreezeCmd"] /\ UNCHANGED async_freeze

\* freeze: a flag, which the end of the frame makes a command (async_freeze_to_exec_command).
Freeze(p) ==
  /\ mode[p] = "run" /\ MayCommand(p)
  /\ async_freeze' = async_freeze \cup {p} /\ UNCHANGED exec_command

\* run and stop: the command itself.
Commands(p, c) ==
  /\ AnyMoment \/ pc[p] = "work"
  /\ c = "RunCmd" => mode[p] = "freeze"
  /\ MayCommand(p)
  /\ exec_command' = [exec_command EXCEPT ![p] = c] /\ UNCHANGED async_freeze

\* The end without a word.
Dies(p) ==
  /\ ~Gone(p) /\ Happens("death")
  /\ mode' = [mode EXCEPT ![p] = "gone"] /\ GoTo(p, "gone")
  /\ UNCHANGED <<time, exec_command, async_freeze, blocking, masterVars, slaveVars, up, down>>

Next ==
  \/ MasterStep \/ MasterCheckpoint
  \/ \E s \in Slave : SlaveStep(s)
  \/ \E p \in Sim : Freeze(p) \/ Commands(p, "RunCmd") \/ Commands(p, "ExitCmd") \/ Dies(p)

\* Each simulation is a process that goes on unless it is in a read.
Fairness == WF_vars(MasterStep) /\ \A s \in Slave : WF_vars(SlaveStep(s))

Spec == Init /\ [][Next]_vars /\ Fairness

--------------------------------------------------------------------------------
(***************************************************************************)
(* Properties.                                                             *)
(***************************************************************************)
Together(s) == s \in activated /\ s \in in_sync /\ {mode[Main], mode[s]} \subseteq {"run", "freeze"}

\* "Slaves ... will sync with the master's time at the end of each frame": the time a slave reads
\* is its own, whatever froze, ran, ended or was lost in between.
InStepAlways ==
  \A s \in Slave : (Together(s) /\ pc[s] = "time" /\ down[s] # <<>>) => Head(down[s]) = Item("time", time[s])

\* It is so as long as no checkpoint was taken while the frame ran.
InStep == bounds["checkpoint"] = 0 => InStepAlways

\* Between two exchanges the master and the slaves in sync with it are in the same mode and in the
\* same frame: "a slave that goes into freeze mode will cause the master to go into freeze mode
\* (which will propagate freeze mode to all slaves)".  After a checkpoint they are a frame apart.
ModesAgree ==
  \A s \in Slave :
    (bounds["checkpoint"] = 0 /\ Together(s) /\ pc[Main] = "work" /\ pc[s] = "work" /\ up[s] = <<>> /\ down[s] = <<>>)
      => mode[s] = mode[Main] /\ time[s] = time[Main]

\* Commands that cross, freezes and lost partners leave the simulations in step.
SameFrameAndMode == TypeOK /\ InStep /\ ModesAgree

\* The master is never stuck in an exchange, whatever slave is lost, and when.
MasterGoesOn == []<>(pc[Main] \in {"test", "gone"})

\* No slave runs on without the master.
SlavesStop == \A s \in Slave : Gone(Main) ~> (Gone(s) \/ mode[s] = "freeze")

\* Losing a partner holds nobody up, and nobody runs on alone.
NobodyStuck == MasterGoesOn /\ SlavesStop

\* A freeze of one slave freezes the master, unless the master has ended or dropped that slave.
FreezeSpreads ==
  \A s \in Slave : slave_command[s] = "FreezeCmd" ~> (mode[Main] # "run" \/ s \notin activated)

==============================================================================
