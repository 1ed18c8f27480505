-------------------------- MODULE MasterSlave_proofs --------------------------
(***************************************************************************)
(* The master and each slave that is in sync with it are in the same frame *)
(* and the same mode, for any number of slaves, whatever freezes, runs,    *)
(* ends, dies or is late, when clients command between the exchanges       *)
(* (~AnyMoment) and a slave with a limit terminates when it loses the      *)
(* master (Limited \subseteq SlaveTerminates).                             *)
(*                                                                         *)
(* In the middle of an exchange the two are apart: one has tested the      *)
(* command, or begun a frame, before the other.  What does not change is   *)
(* the mode and the time they will enter the next exchange with.           *)
(***************************************************************************)
EXTENDS MasterSlave, FiniteSetTheorems, SequenceTheorems, TLAPS

\* What travels to a slave.
Message == {Item("time", t) : t \in 0 .. Period - 1} \cup {Item("command", c) : c \in Command \cup {"Dump"}}
           \cup {Item("name", "chkpnt")}

MasterPlace == {"work", "read", "write", "name", "test", "gone"}
SlavePlace  == {"work", "tell", "time", "command", "name", "test", "gone"}

Types ==
  /\ mode \in [Sim -> {"run", "freeze", "exit", "gone"}] /\ time \in [Sim -> 0 .. Period - 1]
  /\ exec_command \in [Sim -> Command \cup {"Dump"}] /\ \A s \in Slave : exec_command[s] # "Dump"
  /\ pc \in [Sim -> MasterPlace \cup SlavePlace]
  /\ async_freeze \subseteq Sim /\ blocking \subseteq Sim
  /\ turn \in 1 .. Len(Slaves) + 1 /\ why \in {"frame", "checkpoint", "shutdown"}
  /\ save_command \in Command /\ slave_command \in [Slave -> Command]
  /\ activated \subseteq Slave /\ in_sync \subseteq Slave
  /\ bounds \in [Troubles -> Nat] /\ \A k \in Troubles : bounds[k] <= Bound[k]
  /\ up \in [Slave -> Seq(Command)] /\ down \in [Slave -> Seq(Message)]

\* The master: where it is in each mode, and why it is in the exchange.  In Run mode it has ExitCmd
\* between the exchanges only.
MasterInv ==
  /\ pc[Main] \in MasterPlace /\ (pc[Main] = "gone" <=> Gone(Main))
  /\ mode[Main] = "freeze" => Main \in blocking
  /\ mode[Main] \in {"run", "freeze"} => why # "shutdown"
  /\ mode[Main] = "exit" => pc[Main] \in {"read", "write"} /\ why = "shutdown"
  /\ bounds["checkpoint"] = 0 => why # "checkpoint"
  /\ pc[Main] = "name" => why = "checkpoint" /\ turn <= Len(Slaves)
  /\ mode[Main] = "run" /\ pc[Main] # "work" => exec_command[Main] # "ExitCmd"
  /\ mode[Main] = "run" /\ pc[Main] \in {"write", "name"} => save_command # "ExitCmd"
  /\ exec_command[Main] = "Dump" => pc[Main] \in {"name", "gone"}

\* Where a slave may be.
SlaveInv(s) == pc[s] \in SlavePlace /\ (pc[s] = "gone" <=> Gone(s)) /\ mode[s] # "exit"

\* The master is about to write the name of a checkpoint to the slave.
Naming(s) == pc[Main] = "name" /\ At = s

\* A slave always finds what it reads for: a time, then a command, and a name after "Dump".
After(m) == CASE m.kind = "time" -> "command"
              [] m = Item("command", "Dump") -> "name"
              [] OTHER -> "time"
Reads(l) == IF l \in {"command", "name"} THEN l ELSE "time"
StreamInv(s) ==
  /\ down[s] # <<>> /\ pc[s] # "gone" => down[s][1].kind = Reads(pc[s])
  /\ \A i \in 1 .. Len(down[s]) - 1 : down[s][i + 1].kind = After(down[s][i])
  /\ down[s] # <<>> => \/ After(down[s][Len(down[s])]) = "time"
                       \/ After(down[s][Len(down[s])]) = "name" /\ (Naming(s) \/ Gone(Main))
  /\ down[s] = <<>> => /\ pc[s] = "command" => Gone(Main)
                       /\ pc[s] = "name" => Naming(s) \/ Gone(Main)
  /\ Naming(s) => IF down[s] = <<>> THEN pc[s] \in {"name", "gone"} ELSE After(down[s][Len(down[s])]) = "name"

\* What a frame does to the time, and the test of the command to the mode.
Advance(m, t) == IF m = "run" THEN (t + 1) % Period ELSE t
Tested(m, c) == IF m = "run" THEN IF c = "FreezeCmd" THEN "freeze" ELSE "run"
                ELSE IF c = "RunCmd" THEN "run" ELSE "freeze"

\* The master has been at the slave in this round of reads or of writes, owes it an answer, or has
\* given it and not yet tested the command.
Passed(s)  == \E i \in 1 .. turn - 1 : Slaves[i] = s
Owing(s)   == (pc[Main] = "read" /\ Passed(s)) \/ (pc[Main] = "write" /\ ~Passed(s))
Leaving(s) == pc[Main] = "test" \/ (pc[Main] = "write" /\ Passed(s))

\* The mode and the time of the master when it next reads the slave, or did when it owes the answer.
MasterMode(s) == IF Leaving(s) THEN Tested(mode[Main], exec_command[Main]) ELSE mode[Main]
MasterTime(s) == IF pc[Main] = "work" \/ Leaving(s) THEN Advance(MasterMode(s), time[Main]) ELSE time[Main]

\* The master has answered the slave, which may not have read it yet or not tested it.
Answered(s) == pc[s] \in {"command", "test"} \/ (pc[s] = "time" /\ down[s] # <<>>)
Answer(s) == CASE pc[s] = "test" -> exec_command[s]
               [] pc[s] = "command" -> down[s][1].v
               [] OTHER -> down[s][2].v

\* The mode and the time of the slave when it next tells the master, or did when it has no answer.
SlaveMode(s) == IF Answered(s) THEN Tested(mode[s], Answer(s)) ELSE mode[s]
SlaveTime(s) == IF pc[s] = "work" \/ Answered(s) THEN Advance(SlaveMode(s), time[s]) ELSE time[s]

\* What is on the way between the two.
Wire(s) ==
  /\ pc[s] \in {"work", "tell", "time", "command", "test"}
  /\ Owing(s) => pc[s] = "time" /\ up[s] = <<>> /\ down[s] = <<>>
  /\ ~Owing(s) /\ pc[s] = "time" =>
       \/ Len(up[s]) = 1 /\ down[s] = <<>>
       \/ up[s] = <<>> /\ \E c \in Command : down[s] = <<Item("time", time[s]), Item("command", c)>>
  /\ pc[s] = "command" => up[s] = <<>> /\ \E c \in Command : down[s] = <<Item("command", c)>>
  /\ pc[s] \in {"work", "tell", "test"} => up[s] = <<>> /\ down[s] = <<>>

Paired(s) == bounds["checkpoint"] = 0 /\ Together(s)
PairInv(s) == Paired(s) => SlaveMode(s) = MasterMode(s) /\ SlaveTime(s) = MasterTime(s) /\ Wire(s)

\* The inductive invariant.
Inv ==
  /\ Types /\ MasterInv
  /\ \A s \in Slave : SlaveInv(s) /\ StreamInv(s) /\ PairInv(s)

--------------------------------------------------------------------------------
(***************************************************************************)
(* The slaves in their order, and what is on the way.                      *)
(***************************************************************************)
\* The constants.
LEMMA Constants ==
  /\ Main \notin Slave /\ Sim = {Main} \cup Slave /\ Period \in Nat \ {0}
  /\ Len(Slaves) \in Nat /\ \A i \in 1 .. Len(Slaves) : Slaves[i] \in Slave
  /\ \A s \in Slave : \E i \in 1 .. Len(Slaves) : Slaves[i] = s
  /\ Bound \in [Troubles -> Nat]
<1>1. DOMAIN Slaves = 1 .. Len(Slaves) /\ Len(Slaves) \in Nat
  BY MasterSlaveAssumption
<1> QED
  BY <1>1, MasterSlaveAssumption DEF Slave, Sim

\* No slave is in the vector twice.
LEMMA OneTurn ==
  ASSUME NEW i \in 1 .. Len(Slaves), NEW k \in 1 .. Len(Slaves), Slaves[i] = Slaves[k]
  PROVE  i = k
<1> SUFFICES ASSUME i # k PROVE FALSE
  OBVIOUS
<1> DEFINE D == 1 .. Len(Slaves)
           E == D \ {k}
<1>1. IsFiniteSet(D) /\ Cardinality(D) = Len(Slaves)
  <2>1. Len(Slaves) \in Nat /\ Len(Slaves) \in Int /\ 1 \in Int
    BY Constants
  <2>2. IsFiniteSet(D) /\ Cardinality(D) = IF 1 > Len(Slaves) THEN 0 ELSE Len(Slaves) - 1 + 1
    BY <2>1, FS_Interval, Zenon
  <2> HIDE DEF D
  <2> QED
    BY <2>1, <2>2
<1>2. IsFiniteSet(E) /\ Cardinality(E) = Len(Slaves) - 1
  BY <1>1, FS_RemoveElement
<1>3. Slave = {Slaves[j] : j \in E}
  <2>1. DOMAIN Slaves = D
    BY MasterSlaveAssumption
  <2> QED
    BY <2>1 DEF Slave
<1>4. Cardinality({Slaves[j] : j \in E}) <= Cardinality(E)
  <2> DEFINE f == [j \in E |-> Slaves[j]]
  <2>1. f \in Surjection(E, {Slaves[j] : j \in E})
    BY DEF Surjection
  <2> QED
    BY <1>2, <2>1, FS_Surjection
<1>5. Cardinality(Slave) = Len(Slaves)
  BY MasterSlaveAssumption
<1> QED
  <2>1. Cardinality(Slave) <= Cardinality(E)
    BY <1>3, <1>4
  <2> HIDE DEF E
  <2> QED
    BY <1>2, <1>5, <2>1, Constants

\* What a message may be.
LEMMA Messages ==
  /\ \A t \in 0 .. Period - 1 : Item("time", t) \in Message
  /\ \A c \in Command \cup {"Dump"} : Item("command", c) \in Message
  /\ Item("name", "chkpnt") \in Message
  /\ \A m \in Message : \/ m.kind = "time" /\ m.v \in 0 .. Period - 1
                        \/ m.kind = "command" /\ m.v \in Command \cup {"Dump"}
                        \/ m = Item("name", "chkpnt") /\ m.kind = "name"
  /\ \A m \in Message : After(m) \in {"time", "command", "name"} /\ (After(m) = "command" <=> m.kind = "time")
                        /\ (After(m) = "name" <=> m.kind = "command" /\ m.v = "Dump")
<1>1. \A m \in Message : \/ (\E t \in 0 .. Period - 1 : m = [kind |-> "time", v |-> t])
                         \/ (\E c \in Command \cup {"Dump"} : m = [kind |-> "command", v |-> c])
                         \/ m = [kind |-> "name", v |-> "chkpnt"]
  BY DEF Message, Item
<1>2. \A t \in 0 .. Period - 1 : Item("time", t) \in Message
  BY DEF Message
<1>3. \A c \in Command \cup {"Dump"} : Item("command", c) \in Message
  BY DEF Message
<1>4. Item("name", "chkpnt") \in Message
  BY DEF Message
<1>5. \A m \in Message : \/ m.kind = "time" /\ m.v \in 0 .. Period - 1
                         \/ m.kind = "command" /\ m.v \in Command \cup {"Dump"}
                         \/ m = Item("name", "chkpnt") /\ m.kind = "name"
  BY <1>1 DEF Item
<1>6. ASSUME NEW m \in Message
      PROVE  /\ After(m) \in {"time", "command", "name"} /\ (After(m) = "command" <=> m.kind = "time")
             /\ (After(m) = "name" <=> m.kind = "command" /\ m.v = "Dump")
  <2>1. CASE \E t \in 0 .. Period - 1 : m = [kind |-> "time", v |-> t]
    BY <2>1 DEF After, Item
  <2>2. CASE m = [kind |-> "name", v |-> "chkpnt"]
    BY <2>2 DEF After, Item
  <2>3. ASSUME NEW c \in Command \cup {"Dump"}, m = [kind |-> "command", v |-> c]
        PROVE  m = Item("command", "Dump") <=> c = "Dump"
    BY <2>3 DEF Item
  <2>4. CASE \E c \in Command \cup {"Dump"} : m = [kind |-> "command", v |-> c]
    BY <2>4, <2>3 DEF After
  <2> QED
    BY <1>1, <2>1, <2>2, <2>4
<1> QED
  BY <1>2, <1>3, <1>4, <1>5, <1>6

\* The types are those of the model.
LEMMA TypesOK == Types => TypeOK
<1> SUFFICES ASSUME Types PROVE \A s \in Slave : up[s] \in Seq(Command) /\ \A i \in DOMAIN down[s] : IsItem(down[s][i])
  BY DEF Types, TypeOK
<1>1. \A m \in Message : IsItem(m)
  BY Messages DEF IsItem
<1>2. \A s \in Slave : \A i \in DOMAIN down[s] : down[s][i] \in Message
  BY DEF Types
<1> QED
  BY <1>1, <1>2 DEF Types

\* What a read takes off, and a write adds.
LEMMA Taken ==
  ASSUME NEW S, NEW q \in Seq(S), q # <<>>
  PROVE  /\ Head(q) = q[1] /\ Head(q) \in S /\ Tail(q) \in Seq(S) /\ Len(q) \in Nat \ {0} /\ Len(Tail(q)) = Len(q) - 1
         /\ \A i \in 1 .. Len(q) - 1 : Tail(q)[i] = q[i + 1]
BY SMT

\* Append keeps what is there, and one item comes after it.
LEMMA Added ==
  ASSUME NEW S, NEW q \in Seq(S), NEW a \in S
  PROVE  /\ Append(q, a) \in Seq(S) /\ Len(Append(q, a)) = Len(q) + 1 /\ Append(q, a)[Len(q) + 1] = a
         /\ \A i \in 1 .. Len(q) : Append(q, a)[i] = q[i]
BY SMT

\* The two items of write_master_status come after what is there.
LEMMA AddedTwo ==
  ASSUME NEW S, NEW q \in Seq(S), NEW a \in S, NEW b \in S
  PROVE  /\ q \o <<a, b>> \in Seq(S) /\ Len(q \o <<a, b>>) = Len(q) + 2
         /\ (q \o <<a, b>>)[Len(q) + 1] = a /\ (q \o <<a, b>>)[Len(q) + 2] = b
         /\ \A i \in 1 .. Len(q) : (q \o <<a, b>>)[i] = q[i]
BY SMT

--------------------------------------------------------------------------------
(***************************************************************************)
(* The types.                                                              *)
(***************************************************************************)
\* A trouble is counted.
LEMMA Counted ==
  ASSUME Types, NEW k \in Troubles, Happens(k)
  PROVE  /\ bounds' \in [Troubles -> Nat] /\ \A j \in Troubles : bounds'[j] <= Bound[j]
         /\ \A j \in Troubles : bounds'[j] = (IF j = k THEN bounds[j] + 1 ELSE bounds[j])
<1>1. bounds[k] < Bound[k] /\ bounds' = [bounds EXCEPT ![k] = @ + 1]
  BY DEF Happens
<1>2. bounds \in [Troubles -> Nat] /\ \A j \in Troubles : bounds[j] <= Bound[j]
  BY DEF Types
<1>3. \A j \in Troubles : bounds'[j] = (IF j = k THEN bounds[j] + 1 ELSE bounds[j])
  BY <1>1, <1>2
<1>4. bounds' \in [Troubles -> Nat]
  BY <1>1, <1>2
<1>5. \A j \in Troubles : bounds'[j] <= Bound[j]
  BY <1>1, <1>2, <1>3, Constants
<1> QED
  BY <1>3, <1>4, <1>5

\* The clients, and a death.
LEMMA ClientTypes ==
  ASSUME Types, NEW p \in Sim, Freeze(p) \/ Commands(p, "RunCmd") \/ Commands(p, "ExitCmd") \/ Dies(p)
  PROVE  Types'
<1>1. CASE Freeze(p)
  BY <1>1, Counted DEF Types, Freeze, MayCommand, Troubles, masterVars, slaveVars
<1>2. ASSUME NEW c \in {"RunCmd", "ExitCmd"}, Commands(p, c) PROVE Types'
  BY <1>2, Counted DEF Types, Commands, MayCommand, Troubles, masterVars, slaveVars, Command
<1>3. CASE Dies(p)
  BY <1>3, Counted DEF Types, Dies, Troubles, GoTo, masterVars, slaveVars, MasterPlace
<1> QED
  BY <1>1, <1>2, <1>3

\* What a frame, and the test of the command, do to the types.
LEMMA FrameTypes ==
  ASSUME Types, NEW p \in Sim, Frame(p)
  PROVE  /\ time' \in [Sim -> 0 .. Period - 1] /\ async_freeze' \subseteq Sim
         /\ exec_command' \in [Sim -> Command \cup {"Dump"}] /\ \A s \in Slave : exec_command'[s] # "Dump"
<1>1. \A t \in 0 .. Period - 1 : (t + 1) % Period \in 0 .. Period - 1
  BY Constants, SMT
<1>2. time' \in [Sim -> 0 .. Period - 1] /\ async_freeze' \subseteq Sim
  BY <1>1 DEF Types, Frame
<1>3. exec_command' \in [Sim -> Command \cup {"Dump"}] /\ \A s \in Slave : exec_command'[s] # "Dump"
  BY Constants DEF Types, Frame, Command
<1> QED
  BY <1>2, <1>3

\* The test of the command, of the master or of a slave, keeps the types.
LEMMA TestTypes == ASSUME Types, NEW p \in Sim, Test(p) PROVE Types'
<1>1. exec_command' \in [Sim -> Command \cup {"Dump"}] /\ \A s \in Slave : exec_command'[s] # "Dump"
  BY Constants DEF Types, Test, TestRunning, TestFrozen, Command
<1>2. mode' \in [Sim -> {"run", "freeze", "exit", "gone"}] /\ blocking' \subseteq Sim
  BY DEF Types, Test, TestRunning, TestFrozen
<1>3. pc' \in [Sim -> MasterPlace \cup SlavePlace]
  BY DEF Types, Test, GoTo, MasterPlace
<1> QED
  BY <1>1, <1>2, <1>3 DEF Types, Test, masterVars, slaveVars

\* The steps of the master.
LEMMA MasterTypes == ASSUME Inv, MasterStep \/ MasterCheckpoint PROVE Types'
<1>0. Types /\ MasterInv /\ Main \in Sim /\ Main \notin Slave
  BY Constants DEF Inv
<1>t. 1 \in 1 .. Len(Slaves) + 1 /\ (turn <= Len(Slaves) => turn + 1 \in 1 .. Len(Slaves) + 1 /\ At \in Slave)
  BY <1>0, Constants DEF Types, At
<1>1. CASE MasterWork
  BY <1>0, <1>1, <1>t, FrameTypes DEF Types, MasterWork, Exchange, GoTo, slaveVars, MasterPlace
<1>2. CASE MasterCheckpoint
  BY <1>0, <1>2, <1>t, Counted DEF Types, MasterCheckpoint, Exchange, GoTo, Troubles, slaveVars, MasterPlace
<1>3. CASE MasterExits
  BY <1>0, <1>3, <1>t DEF Types, MasterExits, Terminate, Exchange, GoTo, slaveVars, MasterPlace
<1>4. CASE Test(Main)
  BY <1>0, <1>4, TestTypes
<1>5. CASE ReadSlave
  <2>1. PICK c \in Command \cup {"Error"} :
             /\ Receive(At, c) /\ Join(c)
             /\ IF exec_command[Main] # "ExitCmd" /\ c \in {"Error", "ExitCmd"}
                THEN Lose(At) ELSE NextSlave /\ UNCHANGED activated
    BY <1>5 DEF ReadSlave
  <2>2. At \in Slave /\ turn + 1 \in 1 .. Len(Slaves) + 1
    BY <1>5, <1>t DEF ReadSlave, InExchange
  <2>3. up' \in [Slave -> Seq(Command)] /\ bounds' \in [Troubles -> Nat] /\ \A k \in Troubles : bounds'[k] <= Bound[k]
    <3>1. up[At] # <<>> => Tail(up[At]) \in Seq(Command)
      BY <1>0, <2>2, Taken DEF Types
    <3>2. Happens("master") => bounds' \in [Troubles -> Nat] /\ \A k \in Troubles : bounds'[k] <= Bound[k]
      BY <1>0, Constants DEF Types, Happens, Troubles
    <3> QED
      BY <1>0, <2>1, <2>2, <3>1, <3>2 DEF Types, Receive
  <2>4. exec_command' \in [Sim -> Command \cup {"Dump"}] /\ \A s \in Slave : exec_command'[s] # "Dump"
    BY <1>0, <2>1 DEF Types, Join, Command
  <2>5. /\ mode' \in [Sim -> {"run", "freeze", "exit", "gone"}] /\ pc' \in [Sim -> MasterPlace \cup SlavePlace]
        /\ turn' \in 1 .. Len(Slaves) + 1 /\ why' \in {"frame", "checkpoint", "shutdown"} /\ activated' \subseteq Slave
    BY <1>0, <1>t, <2>1, <2>2 DEF Types, Lose, Terminate, NextSlave, Exchange, GoTo, MasterPlace
  <2> QED
    BY <1>0, <1>5, <2>3, <2>4, <2>5 DEF Types, ReadSlave, slaveVars
<1>6. CASE SkipSlave
  BY <1>0, <1>6, <1>t DEF Types, SkipSlave, NextSlave, slaveVars
<1>7. CASE ReadAll
  BY <1>0, <1>7, <1>t DEF Types, ReadAll, GoTo, slaveVars, MasterPlace, MasterInv
<1>8. ASSUME WriteSlave \/ WriteDump \/ WriteName PROVE down' \in [Slave -> Seq(Message)]
  <2>1. At \in Slave
    BY <1>0, <1>8, <1>t DEF WriteSlave, WriteDump, WriteName, InExchange, MasterInv
  <2>2. /\ Item("time", time[Main]) \in Message /\ Item("command", exec_command[Main]) \in Message
        /\ Item("command", "Dump") \in Message /\ Item("name", "chkpnt") \in Message
    BY <1>0, Messages DEF Types
  <2>3. down \in [Slave -> Seq(Message)]
    BY <1>0 DEF Types
  <2>4. /\ down[At] \o Status(exec_command[Main]) \in Seq(Message) /\ down[At] \o Status("Dump") \in Seq(Message)
        /\ Append(down[At], Item("name", "chkpnt")) \in Seq(Message)
    BY <2>1, <2>2, <2>3, Added, AddedTwo DEF Status
  <2> QED
    BY <1>8, <2>3, <2>4 DEF WriteSlave, WriteDump, WriteName
<1>9. CASE WriteSlave
  BY <1>0, <1>8, <1>9, <1>t DEF Types, WriteSlave, NextSlave, InExchange, slaveVars
<1>10. CASE WriteDump
  BY <1>0, <1>8, <1>10 DEF Types, WriteDump, GoTo, masterVars, slaveVars, MasterPlace
<1>11. CASE WriteName
  BY <1>0, <1>8, <1>11, <1>t DEF Types, WriteName, Restored, GoTo, slaveVars, MasterPlace, MasterInv
<1>12. CASE WrittenAll
  BY <1>0, <1>12 DEF Types, WrittenAll, GoTo, masterVars, slaveVars, MasterPlace
<1> QED
  BY <1>1, <1>2, <1>3, <1>4, <1>5, <1>6, <1>7, <1>9, <1>10, <1>11, <1>12 DEF MasterStep

\* The steps of a slave: what it hears is a command where it looks for one.
LEMMA SlaveTypes == ASSUME Inv, NEW s \in Slave, SlaveStep(s) PROVE Types'
<1>0. Types /\ SlaveInv(s) /\ StreamInv(s) /\ s \in Sim /\ s # Main
  BY Constants DEF Inv
<1>c. exec_command[s] \in Command
  BY <1>0 DEF Types
<1>u. \A c \in Command : Append(up[s], c) \in Seq(Command)
  BY <1>0, Added DEF Types
<1>1. CASE SlaveWork(s)
  <2>1. /\ time' \in [Sim -> 0 .. Period - 1] /\ async_freeze' \subseteq Sim
        /\ exec_command' \in [Sim -> Command \cup {"Dump"}] /\ \A t \in Slave : exec_command'[t] # "Dump"
    <3>1. CASE mode[s] = "run"
      BY <1>0, <1>1, <3>1, FrameTypes DEF SlaveWork
    <3>2. CASE mode[s] # "run"
      BY <1>0, <1>1, <3>2, Constants DEF Types, SlaveWork, Command
    <3> QED
      BY <3>1, <3>2
  <2> QED
    BY <1>0, <1>1, <2>1 DEF Types, SlaveWork, GoTo, masterVars, slaveVars, SlavePlace
<1>2. CASE Tell(s)
  BY <1>0, <1>2, <1>c, <1>u DEF Types, Tell, Write, GoTo, masterVars, SlavePlace
<1>e. Ends(s) => /\ mode' \in [Sim -> {"run", "freeze", "exit", "gone"}] /\ pc' \in [Sim -> MasterPlace \cup SlavePlace]
                 /\ up' \in [Slave -> Seq(Command)]
  BY <1>0, <1>u DEF Types, Ends, Write, GoTo, SlavePlace, Command
<1>3. CASE SlaveExits(s)
  BY <1>0, <1>3, <1>e DEF Types, SlaveExits, Ends, masterVars, slaveVars
<1>4. CASE Test(s)
  BY <1>0, <1>4, TestTypes
<1>5. ASSUME NEW kind \in {"time", "command", "name"}, Hear(s, kind) PROVE Types'
  <2>1. Head(down[s]) = down[s][1] /\ Head(down[s]) \in Message /\ Tail(down[s]) \in Seq(Message)
    BY <1>0, <1>5, Taken DEF Types, Hear
  <2>2. kind = "command" => Head(down[s]).v \in Command \cup {"Dump"}
    <3>1. kind = "command" => Head(down[s]).kind = "command"
      BY <1>0, <1>5, <2>1 DEF Hear, StreamInv, Reads
    <3> QED
      BY <2>1, <3>1, Messages
  <2>3. exec_command' \in [Sim -> Command \cup {"Dump"}] /\ \A t \in Slave : exec_command'[t] # "Dump"
    BY <1>0, <1>5, <2>2 DEF Types, Hear
  <2> QED
    BY <1>0, <1>5, <2>1, <2>3 DEF Types, Hear, GoTo, masterVars, slaveVars, SlavePlace
<1>6. CASE LostMaster(s)
  <2>1. bounds' \in [Troubles -> Nat] /\ \A k \in Troubles : bounds'[k] <= Bound[k]
    BY <1>0, <1>6, Counted DEF Types, LostMaster, Fails, Troubles
  <2>2. /\ mode' \in [Sim -> {"run", "freeze", "exit", "gone"}] /\ pc' \in [Sim -> MasterPlace \cup SlavePlace]
        /\ up' \in [Slave -> Seq(Command)] /\ in_sync' \subseteq Slave
        /\ exec_command' \in [Sim -> Command \cup {"Dump"}] /\ \A t \in Slave : exec_command'[t] # "Dump"
    <3>1. CASE Ends(s) /\ UNCHANGED in_sync
      BY <1>0, <1>e, <3>1 DEF Types, Ends
    <3>2. CASE Alone(s)
      BY <1>0, <1>u, <3>2 DEF Types, Alone, Write, GoTo, SlavePlace, Command
    <3>3. CASE ~Alone(s) /\ ~(Ends(s) /\ UNCHANGED in_sync)
      BY <1>0, <1>6, <3>3 DEF Types, LostMaster, GoTo, SlavePlace
    <3> QED
      BY <3>1, <3>2, <3>3
  <2> QED
    BY <1>0, <1>6, <2>1, <2>2 DEF Types, LostMaster, masterVars
<1>7. CASE NoName(s)
  BY <1>0, <1>7 DEF Types, NoName, Fails, GoTo, masterVars, slaveVars, SlavePlace
<1> QED
  BY <1>1, <1>2, <1>3, <1>4, <1>5, <1>6, <1>7 DEF SlaveStep

--------------------------------------------------------------------------------
(***************************************************************************)
(* Where the master is.                                                    *)
(***************************************************************************)
\* Its own steps keep mode, place and reason of the exchange together.
LEMMA MasterStepInv == ASSUME Inv, MasterStep \/ MasterCheckpoint PROVE MasterInv'
<1>0. Types /\ MasterInv /\ Main \in Sim
  BY Constants DEF Inv
<1>t. turn \in Nat /\ Len(Slaves) \in Nat
  BY <1>0, Constants DEF Types
<1>1. CASE MasterWork
  BY <1>0, <1>1 DEF Types, MasterInv, MasterWork, Exchange, GoTo, Exits, Frame, Gone, MasterPlace
<1>2. CASE MasterCheckpoint
  <2>1. bounds'["checkpoint"] # 0
    BY <1>0, <1>2, Counted DEF Types, MasterCheckpoint, Troubles
  <2> QED
    BY <1>0, <1>2, <2>1 DEF Types, MasterInv, MasterCheckpoint, Exchange, GoTo, Exits, Gone, MasterPlace
<1>3. CASE MasterExits
  BY <1>0, <1>3 DEF Types, MasterInv, MasterExits, Terminate, Exchange, GoTo, Exits, Gone, MasterPlace
<1>4. CASE Test(Main)
  BY <1>0, <1>4 DEF Types, MasterInv, Test, TestRunning, TestFrozen, GoTo, Gone, MasterPlace, masterVars
<1>5. CASE ReadSlave
  <2>1. PICK c \in Command \cup {"Error"} :
             /\ Receive(At, c) /\ Join(c)
             /\ IF exec_command[Main] # "ExitCmd" /\ c \in {"Error", "ExitCmd"}
                THEN Lose(At) ELSE NextSlave /\ UNCHANGED activated
    BY <1>5 DEF ReadSlave
  <2>2. bounds'["checkpoint"] = bounds["checkpoint"]
    BY <1>0, <2>1, Counted DEF Types, Receive, Troubles
  <2>3. pc[Main] = "read" /\ UNCHANGED <<blocking, save_command>>
    BY <1>5 DEF ReadSlave, InExchange
  <2>4. (exec_command'[Main] = "ExitCmd" => exec_command[Main] = "ExitCmd") /\ exec_command'[Main] # "Dump"
    BY <1>0, <2>1, <2>3 DEF Types, Join, MasterInv
  <2>5. CASE Terminate
    BY <1>0, <2>2, <2>3, <2>4, <2>5 DEF Types, MasterInv, Terminate, Exchange, GoTo, Gone, MasterPlace
  <2>6. CASE NextSlave
    BY <1>0, <2>2, <2>3, <2>4, <2>6 DEF MasterInv, NextSlave, Gone
  <2> QED
    BY <2>1, <2>5, <2>6 DEF Lose
<1>6. CASE SkipSlave
  BY <1>0, <1>6 DEF MasterInv, SkipSlave, NextSlave, Gone
<1>7. CASE ReadAll
  BY <1>0, <1>7 DEF Types, MasterInv, ReadAll, GoTo, Gone, MasterPlace
<1>8. CASE WriteSlave
  BY <1>0, <1>8 DEF MasterInv, WriteSlave, NextSlave, InExchange, Gone
<1>9. CASE WriteDump
  BY <1>0, <1>9 DEF Types, MasterInv, WriteDump, InExchange, GoTo, Gone, MasterPlace, masterVars
<1>10. CASE WriteName
  BY <1>0, <1>10, <1>t DEF Types, MasterInv, WriteName, Restored, GoTo, Gone, MasterPlace, Command
<1>11. CASE WrittenAll
  BY <1>0, <1>11 DEF Types, MasterInv, WrittenAll, GoTo, Gone, MasterPlace, masterVars
<1> QED
  BY <1>1, <1>2, <1>3, <1>4, <1>5, <1>6, <1>7, <1>8, <1>9, <1>10, <1>11 DEF MasterStep

\* The slaves do not move it, and the clients command it between the exchanges.
LEMMA OthersMasterInv ==
  ASSUME Inv, ~AnyMoment,
         \/ \E s \in Slave : SlaveStep(s)
         \/ \E p \in Sim : Freeze(p) \/ Commands(p, "RunCmd") \/ Commands(p, "ExitCmd") \/ Dies(p)
  PROVE  MasterInv'
<1>0. Types /\ MasterInv /\ Main \in Sim /\ Main \notin Slave
  BY Constants DEF Inv
<1>1. ASSUME NEW s \in Slave, SlaveStep(s) PROVE MasterInv'
  <2>1. s # Main
    BY <1>0
  <2>2. bounds'["checkpoint"] = bounds["checkpoint"]
    BY <1>0, <1>1, Counted DEF Types, SlaveStep, SlaveWork, Tell, SlaveExits, Test, Hear, LostMaster, NoName, Fails, Troubles
  <2>3. pc'[Main] = pc[Main] /\ mode'[Main] = mode[Main] /\ exec_command'[Main] = exec_command[Main] /\ UNCHANGED masterVars
    BY <1>0, <1>1, <2>1 DEF Types, SlaveStep, SlaveWork, Tell, SlaveExits, Test, TestRunning, TestFrozen, Hear, LostMaster, NoName,
       Frame, Ends, Alone, GoTo
  <2>4. Main \in blocking => Main \in blocking'
    BY <1>1, <2>1 DEF SlaveStep, SlaveWork, Tell, SlaveExits, Test, TestRunning, TestFrozen, Hear, LostMaster, NoName
  <2> QED
    BY <1>0, <2>2, <2>3, <2>4 DEF MasterInv, Gone, masterVars
<1>2. ASSUME NEW p \in Sim, Freeze(p) \/ Commands(p, "RunCmd") \/ Commands(p, "ExitCmd") \/ Dies(p) PROVE MasterInv'
  <2>1. bounds'["checkpoint"] = bounds["checkpoint"]
    BY <1>0, <1>2, Counted DEF Types, Freeze, Commands, Dies, MayCommand, Troubles
  <2>2. CASE Freeze(p)
    BY <1>0, <2>1, <2>2 DEF MasterInv, Freeze, MayCommand, Gone, masterVars
  <2>3. ASSUME NEW c \in {"RunCmd", "ExitCmd"}, Commands(p, c) PROVE MasterInv'
    BY <1>0, <2>1, <2>3 DEF Types, MasterInv, Commands, MayCommand, Gone, masterVars
  <2>4. CASE Dies(p)
    BY <1>0, <2>1, <2>4 DEF Types, MasterInv, Dies, GoTo, Gone, MasterPlace, masterVars
  <2> QED
    BY <1>2, <2>2, <2>3, <2>4
<1> QED
  BY <1>1, <1>2

--------------------------------------------------------------------------------
(***************************************************************************)
(* Where the slaves are, and what they find on the wire.                   *)
(***************************************************************************)
\* Who does a step leaves the others as they are.
LEMMA MasterAlone ==
  ASSUME Inv, MasterStep \/ MasterCheckpoint, NEW s \in Slave
  PROVE  /\ mode'[s] = mode[s] /\ time'[s] = time[s] /\ exec_command'[s] = exec_command[s] /\ pc'[s] = pc[s]
         /\ UNCHANGED slaveVars
<1>0. Types /\ Main \in Sim /\ s \in Sim /\ s # Main
  BY Constants DEF Inv
<1>1. CASE MasterWork \/ MasterCheckpoint \/ MasterExits \/ Test(Main)
  BY <1>0, <1>1 DEF Types, MasterWork, MasterCheckpoint, MasterExits, Test, TestRunning, TestFrozen, Frame, Terminate,
     Exchange, GoTo, slaveVars
<1>2. CASE ReadSlave
  BY <1>0, <1>2 DEF Types, ReadSlave, Lose, NextSlave, Join, Terminate, Exchange, GoTo, slaveVars
<1>3. CASE SkipSlave \/ ReadAll \/ WriteSlave \/ WriteDump \/ WriteName \/ WrittenAll
  BY <1>0, <1>3 DEF Types, SkipSlave, ReadAll, WriteSlave, WriteDump, WriteName, WrittenAll, NextSlave, Restored, GoTo, slaveVars
<1> QED
  BY <1>1, <1>2, <1>3 DEF MasterStep

\* A step of a slave does not touch the other simulations, nor their connections.
LEMMA SlaveAlone ==
  ASSUME Inv, NEW t \in Slave, SlaveStep(t)
  PROVE  /\ \A p \in Sim : p # t => mode'[p] = mode[p] /\ time'[p] = time[p] /\ exec_command'[p] = exec_command[p] /\ pc'[p] = pc[p]
         /\ \A s \in Slave : s # t => up'[s] = up[s] /\ down'[s] = down[s]
         /\ in_sync' \subseteq in_sync /\ UNCHANGED masterVars /\ bounds'["checkpoint"] = bounds["checkpoint"]
<1>0. Types /\ t \in Sim
  BY Constants DEF Inv
<1>1. CASE SlaveWork(t) \/ Tell(t) \/ SlaveExits(t) \/ Test(t)
  BY <1>0, <1>1 DEF Types, SlaveWork, Tell, SlaveExits, Test, TestRunning, TestFrozen, Frame, Ends, Write, GoTo, slaveVars
<1>2. CASE Hear(t, "time") \/ Hear(t, "command") \/ Hear(t, "name")
  BY <1>0, <1>2 DEF Types, Hear, GoTo, slaveVars
<1>3. CASE LostMaster(t) \/ NoName(t)
  <2>1. bounds'["checkpoint"] = bounds["checkpoint"]
    BY <1>0, <1>3, Counted DEF LostMaster, NoName, Fails, Troubles
  <2> QED
    BY <1>0, <1>3, <2>1 DEF Types, LostMaster, NoName, Alone, Ends, Write, GoTo, slaveVars
<1> QED
  BY <1>1, <1>2, <1>3 DEF SlaveStep

\* A client, or a death, does not touch the other simulations, nor any connection.
LEMMA ClientAlone ==
  ASSUME Inv, NEW p \in Sim, Freeze(p) \/ Commands(p, "RunCmd") \/ Commands(p, "ExitCmd") \/ Dies(p)
  PROVE  /\ UNCHANGED <<time, up, down, masterVars, slaveVars>> /\ bounds'["checkpoint"] = bounds["checkpoint"]
         /\ \A q \in Sim : q # p => mode'[q] = mode[q] /\ exec_command'[q] = exec_command[q] /\ pc'[q] = pc[q]
         /\ Dies(p) \/ (mode'[p] = mode[p] /\ pc'[p] = pc[p])
<1>0. Types
  BY DEF Inv
<1>1. bounds'["checkpoint"] = bounds["checkpoint"]
  BY <1>0, Counted DEF Freeze, Commands, Dies, MayCommand, Troubles
<1> QED
  BY <1>0, <1>1 DEF Types, Freeze, Commands, Dies, MayCommand, GoTo

\* A slave is in a place it may be in, and is gone when its mode says so.
LEMMA SlaveStepInv ==
  ASSUME Inv, NEW s \in Slave, MasterStep \/ MasterCheckpoint \/ (\E t \in Slave : SlaveStep(t))
           \/ (\E p \in Sim : Freeze(p) \/ Commands(p, "RunCmd") \/ Commands(p, "ExitCmd") \/ Dies(p))
  PROVE  SlaveInv(s)'
<1>0. Types /\ SlaveInv(s) /\ s \in Sim
  BY Constants DEF Inv
<1>1. CASE MasterStep \/ MasterCheckpoint
  BY <1>0, <1>1, MasterAlone DEF SlaveInv, Gone
<1>2. ASSUME NEW t \in Slave, t # s, SlaveStep(t) PROVE SlaveInv(s)'
  BY <1>0, <1>2, SlaveAlone DEF SlaveInv, Gone
<1>3. CASE SlaveStep(s)
  <2>1. CASE SlaveWork(s) \/ Tell(s) \/ SlaveExits(s) \/ Test(s)
    BY <1>0, <2>1 DEF Types, SlaveInv, Gone, SlaveWork, Tell, SlaveExits, Test, TestRunning, TestFrozen, Ends, GoTo, SlavePlace
  <2>2. CASE Hear(s, "time") \/ Hear(s, "command") \/ Hear(s, "name")
    BY <1>0, <2>2 DEF Types, SlaveInv, Gone, Hear, GoTo, SlavePlace
  <2>3. CASE LostMaster(s) \/ NoName(s)
    BY <1>0, <2>3 DEF Types, SlaveInv, Gone, LostMaster, NoName, Alone, Ends, GoTo, SlavePlace
  <2> QED
    BY <1>3, <2>1, <2>2, <2>3 DEF SlaveStep
<1>4. ASSUME NEW p \in Sim, Freeze(p) \/ Commands(p, "RunCmd") \/ Commands(p, "ExitCmd") \/ Dies(p) PROVE SlaveInv(s)'
  <2>1. CASE p = s /\ Dies(p)
    BY <1>0, <2>1 DEF Types, SlaveInv, Gone, Dies, GoTo, SlavePlace
  <2>2. CASE ~(p = s /\ Dies(p))
    BY <1>0, <1>4, <2>2, ClientAlone DEF SlaveInv, Gone
  <2> QED
    BY <2>1, <2>2
<1> QED
  BY <1>1, <1>2, <1>3, <1>4

\* A stream nobody reads or writes stays as it is, unless the master begins or ends a name; a death
\* is no matter.
LEMMA StreamKept ==
  ASSUME Inv, NEW s \in Slave, StreamInv(s), down'[s] = down[s], pc'[s] = pc[s] \/ pc'[s] = "gone",
         Gone(Main) => Gone(Main)',
         Naming(s)' => Naming(s), Naming(s) => Naming(s)' \/ Gone(Main)'
  PROVE  StreamInv(s)'
BY DEF StreamInv, After, Reads

\* A stream that goes on with a whole message, or with what the message before announced.
LEMMA StreamWritten ==
  ASSUME Inv, NEW s \in Slave, pc'[s] = pc[s], ~Gone(Main), At = s,
         \/ /\ pc[Main] = "write" /\ pc'[Main] \in {"write", "name"} /\ turn' \in Nat
            /\ \E c \in Command \cup {"Dump"} : /\ down'[s] = down[s] \o Status(c)
                                                /\ c = "Dump" <=> pc'[Main] = "name"
            /\ Naming(s)' <=> pc'[Main] = "name"
         \/ pc[Main] = "name" /\ pc'[Main] = "write" /\ down'[s] = Append(down[s], Item("name", "chkpnt"))
  PROVE  StreamInv(s)'
<1>0. Types /\ SlaveInv(s) /\ StreamInv(s) /\ down[s] \in Seq(Message) /\ Main \in Sim
  BY Constants DEF Inv, Types
<1>l. Len(down[s]) \in Nat /\ (down[s] = <<>> <=> Len(down[s]) = 0) /\ \A i \in 1 .. Len(down[s]) : down[s][i] \in Message
  BY <1>0
<1>1. ASSUME NEW c \in Command \cup {"Dump"}, down'[s] = down[s] \o Status(c), pc[Main] = "write",
             c = "Dump" <=> pc'[Main] = "name", pc'[Main] \in {"write", "name"}, Naming(s)' <=> pc'[Main] = "name"
      PROVE  StreamInv(s)'
  <2> DEFINE q == down[s] n == Len(down[s]) r == down'[s] a == Item("time", time[Main]) b == Item("command", c)
  <2>n. n \in Nat
    BY <1>l
  <2>1. a \in Message /\ b \in Message /\ a.kind = "time" /\ b.kind = "command" /\ b.v = c
    BY <1>0, Messages DEF Types, Item
  <2>2. After(a) = "command" /\ After(b) = (IF c = "Dump" THEN "name" ELSE "time")
    <3>1. After(a) = "command"
      BY <2>1, Messages
    <3>2. After(b) \in {"time", "command", "name"} /\ After(b) # "command" /\ (After(b) = "name" <=> c = "Dump")
      BY <2>1, Messages
    <3> QED
      BY <3>1, <3>2
  <2>3. Len(r) = n + 2 /\ r[n + 1] = a /\ r[n + 2] = b /\ \A i \in 1 .. n : r[i] = q[i]
    BY <1>0, <1>1, <2>1, AddedTwo DEF Status
  <2>4. ~Naming(s) /\ ~(pc[s] = "command" /\ q = <<>>) /\ ~(pc[s] = "name" /\ q = <<>>)
    BY <1>0, <1>1 DEF StreamInv, Naming
  <2>5. n # 0 => After(q[n]) = "time"
    BY <1>0, <1>l, <2>4 DEF StreamInv
  <2>6. r # <<>> /\ (pc[s] # "gone" => r[1].kind = Reads(pc[s]))
    <3>1. CASE n = 0
      <4>1. r[1] = a /\ Reads(pc[s]) = "time"
        BY <1>l, <2>3, <2>4, <3>1 DEF Reads
      <4> QED
        BY <2>1, <2>3, <3>1, <4>1
    <3>2. CASE n # 0
      <4>1. r[1] = q[1] /\ q # <<>>
        BY <1>l, <2>3, <3>2
      <4> QED
        BY <1>0, <1>l, <2>3, <3>2, <4>1 DEF StreamInv
    <3> QED
      BY <3>1, <3>2
  <2>7. \A i \in 1 .. n + 1 : r[i + 1].kind = After(r[i])
    <3> SUFFICES ASSUME NEW i \in 1 .. n + 1 PROVE r[i + 1].kind = After(r[i])
      OBVIOUS
    <3>1. CASE i = n + 1
      <4>1. i + 1 = n + 2
        BY <1>l, <3>1
      <4> QED
        BY <2>1, <2>2, <2>3, <3>1, <4>1
    <3>2. CASE i = n
      <4>1. r[i] = q[n] /\ r[i + 1] = a /\ n # 0
        <5> HIDE DEF q, n, r, a, b
        <5> QED
          BY <2>n, <2>3, <3>2
      <4> QED
        BY <2>1, <2>5, <4>1
    <3>3. CASE i \in 1 .. n - 1
      <4>1. r[i] = q[i] /\ r[i + 1] = q[i + 1]
        <5> HIDE DEF q, n, r, a, b
        <5>1. i \in 1 .. n /\ i + 1 \in 1 .. n
          BY <2>n, <3>3
        <5> QED
          BY <2>3, <5>1
      <4> QED
        BY <1>0, <3>3, <4>1 DEF StreamInv
    <3> QED
      BY <1>l, <3>1, <3>2, <3>3
  <2>8. After(r[Len(r)]) = (IF c = "Dump" THEN "name" ELSE "time") /\ Len(r) - 1 = n + 1
    BY <1>l, <2>2, <2>3
  <2> QED
    BY <1>1, <2>6, <2>7, <2>8 DEF StreamInv
<1>2. ASSUME pc[Main] = "name", pc'[Main] = "write", down'[s] = Append(down[s], Item("name", "chkpnt"))
      PROVE  StreamInv(s)'
  <2> DEFINE q == down[s] n == Len(down[s]) r == down'[s] b == Item("name", "chkpnt")
  <2>1. b \in Message /\ b.kind = "name" /\ After(b) = "time"
    <3>1. b \in Message /\ b.kind = "name"
      BY Messages DEF Item
    <3> QED
      BY <3>1, Messages
  <2>2. Len(r) = n + 1 /\ r[n + 1] = b /\ \A i \in 1 .. n : r[i] = q[i]
    BY <1>0, <1>2, <2>1, Added
  <2>3. ~Naming(s)' /\ Naming(s)
    BY <1>2 DEF Naming
  <2>4. IF n = 0 THEN pc[s] \in {"name", "gone"} ELSE After(q[n]) = "name"
    BY <1>0, <1>l, <2>3 DEF StreamInv
  <2>n. n \in Nat
    BY <1>l
  <2>5. r # <<>> /\ (pc[s] # "gone" => r[1].kind = Reads(pc[s]))
    <3>1. CASE n = 0
      <4>1. r[1] = b
        BY <2>2, <3>1
      <4> QED
        BY <1>l, <2>1, <2>2, <2>4, <3>1, <4>1 DEF Reads
    <3>2. CASE n # 0
      <4>1. r[1] = q[1] /\ q # <<>>
        BY <1>l, <2>2, <3>2
      <4> QED
        BY <1>0, <1>l, <2>2, <3>2, <4>1 DEF StreamInv
    <3> QED
      BY <3>1, <3>2
  <2>6. \A i \in 1 .. n : r[i + 1].kind = After(r[i])
    <3> SUFFICES ASSUME NEW i \in 1 .. n PROVE r[i + 1].kind = After(r[i])
      OBVIOUS
    <3>1. CASE i = n
      <4>1. r[i] = q[n] /\ r[i + 1] = b /\ n # 0
        <5> HIDE DEF q, n, r, b
        <5> QED
          BY <2>n, <2>2, <3>1
      <4> QED
        BY <2>1, <2>4, <4>1
    <3>2. CASE i \in 1 .. n - 1
      <4>1. r[i] = q[i] /\ r[i + 1] = q[i + 1]
        <5> HIDE DEF q, n, r, b
        <5>1. i \in 1 .. n /\ i + 1 \in 1 .. n
          BY <2>n, <3>2
        <5> QED
          BY <2>2, <5>1
      <4> QED
        BY <1>0, <3>2, <4>1 DEF StreamInv
    <3> QED
      BY <2>n, <3>1, <3>2
  <2>7. After(r[Len(r)]) = "time" /\ Len(r) - 1 = n
    BY <2>n, <2>1, <2>2
  <2> QED
    BY <2>3, <2>5, <2>6, <2>7 DEF StreamInv
<1> QED
  BY <1>1, <1>2

\* What is left of a stream when its slave has read the first of it.
LEMMA StreamRead ==
  ASSUME Inv, NEW s \in Slave, NEW kind \in {"time", "command", "name"}, Hear(s, kind)
  PROVE  StreamInv(s)'
<1>0. Types /\ SlaveInv(s) /\ StreamInv(s) /\ down[s] \in Seq(Message) /\ Main \in Sim /\ s \in Sim /\ s # Main
  BY Constants DEF Inv, Types
<1> DEFINE q == down[s] n == Len(down[s]) r == down'[s]
<1>1. /\ pc[s] = kind /\ q # <<>> /\ r = Tail(q) /\ pc'[Main] = pc[Main] /\ mode' = mode /\ turn' = turn
      /\ pc'[s] = (IF kind = "time" THEN "command" ELSE IF kind = "command" /\ Head(q).v = "Dump" THEN "name" ELSE "test")
  BY <1>0 DEF Types, Hear, GoTo, masterVars
<1>2. /\ Head(q) = q[1] /\ q[1] \in Message /\ n \in Nat \ {0} /\ Len(r) = n - 1 /\ r \in Seq(Message)
      /\ \A i \in 1 .. n - 1 : r[i] = q[i + 1]
  BY <1>0, <1>1, Taken
<1>3. q[1].kind = kind
  BY <1>0, <1>1 DEF StreamInv, Reads
<1>4. Reads(pc'[s]) = After(q[1]) /\ pc'[s] # "gone" /\ (pc'[s] = "test" => After(q[1]) = "time")
  BY <1>1, <1>2, <1>3, Messages DEF Reads
<1>5. Naming(s)' <=> Naming(s)
  BY <1>1 DEF Naming, At
<1>6. CASE n = 1
  <2>1. r = <<>>
    BY <1>2, <1>6
  <2>2. pc'[s] = "command" => FALSE
    <3>1. After(q[n]) = "time" \/ After(q[n]) = "name"
      BY <1>0, <1>1 DEF StreamInv
    <3> QED
      BY <1>1, <1>2, <1>4, <1>6, <3>1 DEF Reads
  <2>3. pc'[s] = "name" => Naming(s) \/ Gone(Main)
    <3>1. pc'[s] = "name" => After(q[n]) = "name"
      BY <1>4, <1>6 DEF Reads
    <3> QED
      BY <1>0, <1>1, <3>1 DEF StreamInv
  <2>4. Naming(s) => pc'[s] = "name"
    <3>1. Naming(s) => After(q[1]) = "name"
      BY <1>0, <1>1, <1>6 DEF StreamInv
    <3> QED
      BY <1>1, <1>4, <3>1 DEF Reads
  <2>5. ~(\E i \in 1 .. Len(r) - 1 : TRUE)
    BY <1>2, <1>6
  <2>6. Gone(Main)' <=> Gone(Main)
    BY <1>1 DEF Gone
  <2> QED
    BY <1>5, <2>1, <2>2, <2>3, <2>4, <2>5, <2>6 DEF StreamInv
<1>7. CASE n # 1
  <2>1. r # <<>> /\ r[1] = q[2] /\ q[2].kind = After(q[1]) /\ r[Len(r)] = q[n]
    <3>1. r # <<>> /\ r[1] = q[2] /\ r[Len(r)] = q[n]
      <4> HIDE DEF q, n, r
      <4>1. 1 \in 1 .. n - 1 /\ n - 1 \in 1 .. n - 1
        BY <1>2, <1>7
      <4> QED
        BY <1>2, <1>7, <4>1
    <3>2. q[1 + 1].kind = After(q[1])
      <4>1. 1 \in 1 .. n - 1
        <5> HIDE DEF n, q, r
        <5> QED
          BY <1>2, <1>7
      <4> QED
        BY <1>0, <4>1 DEF StreamInv
    <3> QED
      BY <3>1, <3>2
  <2>2. \A i \in 1 .. Len(r) - 1 : r[i + 1].kind = After(r[i])
    <3> SUFFICES ASSUME NEW i \in 1 .. Len(r) - 1 PROVE r[i + 1].kind = After(r[i])
      OBVIOUS
    <3>1. i \in 1 .. n - 1 /\ i + 1 \in 1 .. n - 1
      BY <1>2
    <3>2. r[i] = q[i + 1] /\ r[i + 1] = q[(i + 1) + 1]
      BY <1>2, <3>1
    <3> QED
      BY <1>0, <3>1, <3>2 DEF StreamInv
  <2> QED
    BY <1>0, <1>1, <1>4, <1>5, <2>1, <2>2 DEF StreamInv, Gone
<1> QED
  BY <1>6, <1>7

\* Every step keeps the streams.
LEMMA StreamStep ==
  ASSUME Inv, Limited \subseteq SlaveTerminates, NEW s \in Slave,
         \/ MasterStep \/ MasterCheckpoint \/ (\E t \in Slave : SlaveStep(t))
         \/ (\E p \in Sim : Freeze(p) \/ Commands(p, "RunCmd") \/ Commands(p, "ExitCmd") \/ Dies(p))
  PROVE  StreamInv(s)'
<1>0. Types /\ MasterInv /\ SlaveInv(s) /\ StreamInv(s) /\ s \in Sim /\ Main \in Sim /\ s # Main
  BY Constants DEF Inv
<1>t. turn \in Nat /\ turn + 1 \in Nat /\ Len(Slaves) \in Nat
  BY <1>0, Constants DEF Types
<1>1. CASE MasterStep \/ MasterCheckpoint
  <2>0. pc'[s] = pc[s]
    BY <1>1, MasterAlone
  <2>1. ASSUME MasterWork \/ MasterCheckpoint \/ MasterExits \/ Test(Main) \/ ReadSlave \/ SkipSlave \/ ReadAll \/ WrittenAll
        PROVE  StreamInv(s)'
    <3>1. down' = down /\ ~Gone(Main)
      BY <1>0, <2>1 DEF MasterWork, MasterCheckpoint, MasterExits, Exits, Test, TestRunning, TestFrozen, ReadSlave, SkipSlave,
         ReadAll, WrittenAll, InExchange, MasterInv, Gone, slaveVars
    <3>2. pc[Main] # "name"
      BY <1>0, <2>1 DEF MasterWork, MasterCheckpoint, MasterExits, Exits, Test, ReadSlave, SkipSlave, ReadAll, WrittenAll, InExchange
    <3>3. pc'[Main] # "name"
      BY <1>0, <2>1 DEF Types, MasterWork, MasterCheckpoint, MasterExits, Test, ReadSlave, SkipSlave, ReadAll, WrittenAll,
         InExchange, Terminate, Exchange, NextSlave, Lose, GoTo
    <3> QED
      BY <1>0, <2>0, <3>1, <3>2, <3>3, StreamKept DEF Naming
  <2>2. ASSUME WriteSlave \/ WriteDump \/ WriteName PROVE StreamInv(s)'
    <3>1. ~Gone(Main) /\ turn' \in Nat /\ At \in Slave /\ down \in [Slave -> Seq(Message)]
      <4>1. turn \in 1 .. Len(Slaves) /\ ~Gone(Main) /\ turn' \in Nat
        BY <1>0, <1>t, <2>2 DEF Types, WriteSlave, WriteDump, WriteName, InExchange, NextSlave, MasterInv, masterVars
      <4> QED
        BY <1>0, <4>1, Constants DEF At, Types
    <3>2. exec_command[Main] \in Command \/ pc[Main] = "name"
      BY <1>0, <2>2 DEF Types, WriteSlave, WriteDump, WriteName, InExchange, MasterInv
    <3>3. CASE At # s
      <4>1. down'[s] = down[s]
        BY <2>2, <3>1, <3>3 DEF WriteSlave, WriteDump, WriteName
      <4>2. ~Naming(s) /\ ~Naming(s)'
        <5>1. WriteDump => turn' = turn
          BY DEF WriteDump, masterVars
        <5> QED
          BY <1>0, <2>2, <3>3, <5>1 DEF Types, Naming, At, WriteSlave, WriteDump, WriteName, InExchange, NextSlave, GoTo
      <4> QED
        BY <1>0, <2>0, <3>1, <4>1, <4>2, StreamKept
    <3>4. CASE At = s
      <4>1. CASE WriteSlave
        <5>1. /\ pc[Main] = "write" /\ pc'[Main] = "write" /\ exec_command[Main] \in Command
              /\ down'[s] = down[s] \o Status(exec_command[Main])
          BY <1>0, <3>1, <3>2, <3>4, <4>1 DEF WriteSlave, InExchange, NextSlave
        <5>2. exec_command[Main] # "Dump" /\ ~Naming(s)'
          BY <5>1 DEF Command, Naming
        <5> QED
          BY <2>0, <3>1, <3>4, <5>1, <5>2, StreamWritten
      <4>2. CASE WriteDump
        <5>1. /\ pc[Main] = "write" /\ pc'[Main] = "name" /\ turn' = turn /\ down'[s] = down[s] \o Status("Dump")
          BY <1>0, <3>1, <3>4, <4>2 DEF Types, WriteDump, InExchange, GoTo, masterVars
        <5>2. Naming(s)'
          BY <3>4, <5>1 DEF Naming, At
        <5> QED
          BY <2>0, <3>1, <3>4, <5>1, <5>2, StreamWritten
      <4>3. CASE WriteName
        <5>1. pc[Main] = "name" /\ pc'[Main] = "write" /\ down'[s] = Append(down[s], Item("name", "chkpnt"))
          BY <1>0, <3>1, <3>4, <4>3 DEF Types, WriteName, GoTo
        <5> QED
          BY <2>0, <3>1, <3>4, <5>1, StreamWritten
      <4> QED
        BY <2>2, <4>1, <4>2, <4>3
    <3> QED
      BY <3>3, <3>4
  <2> QED
    BY <1>1, <2>1, <2>2 DEF MasterStep
<1>2. ASSUME NEW t \in Slave, t # s, SlaveStep(t) PROVE StreamInv(s)'
  <2>1. /\ down'[s] = down[s] /\ pc'[s] = pc[s] /\ pc'[Main] = pc[Main] /\ mode'[Main] = mode[Main] /\ turn' = turn
    BY <1>0, <1>2, SlaveAlone, Constants DEF masterVars
  <2> QED
    BY <1>0, <2>1, StreamKept DEF Naming, At, Gone
<1>3. CASE SlaveStep(s)
  <2>0. pc'[Main] = pc[Main] /\ mode'[Main] = mode[Main] /\ turn' = turn
    BY <1>0, <1>3, SlaveAlone DEF masterVars
  <2>1. CASE SlaveWork(s) \/ Tell(s) \/ SlaveExits(s) \/ Test(s) \/ LostMaster(s) \/ NoName(s)
    <3>1. down' = down
      BY <2>1 DEF SlaveWork, Tell, SlaveExits, Test, LostMaster, NoName, slaveVars
    <3>2. CASE pc'[s] = "gone"
      BY <1>0, <2>0, <3>1, <3>2, StreamKept DEF Naming, At, Gone
    <3>3. CASE pc'[s] # "gone"
      <4>1. pc'[s] \in {"tell", "test", "time", "work"} \/ (pc'[s] = "command" /\ pc[s] = "time" /\ down[s] = <<>>)
        BY <1>0, <2>1, <3>3 DEF Types, SlaveWork, Tell, SlaveExits, Test, LostMaster, NoName, Alone, Ends, Fails, GoTo
      <4>2. pc[s] # "gone" /\ pc[s] \in {"work", "tell", "test", "time", "command", "name"}
        BY <1>0, <2>1, <3>3 DEF Types, SlaveInv, SlaveWork, Tell, SlaveExits, Test, LostMaster, NoName, Exits, Ends, GoTo, SlavePlace
      <4>3. pc[s] \in {"command", "name"} => down[s] = <<>>
        BY <1>0, <2>1, <3>3 DEF SlaveWork, Tell, SlaveExits, Test, LostMaster, NoName, Fails, Exits
      <4>4. pc[s] = "name" \/ pc'[s] = "command" => Gone(Main)
        BY <1>0, <2>1, <3>3, <4>1 DEF Types, SlaveWork, Tell, SlaveExits, Test, LostMaster, NoName, Fails, Exits, GoTo, Ends, Alone
      <4> QED
        <5>1. Naming(s)' <=> Naming(s)
          BY <2>0 DEF Naming, At
        <5>2. Gone(Main)' <=> Gone(Main)
          BY <2>0 DEF Gone
        <5>3. Gone(Main) => ~Naming(s)
          BY <1>0 DEF Naming, MasterInv
        <5>4. down[s] # <<>> => Reads(pc'[s]) = Reads(pc[s])
          BY <4>1, <4>2, <4>3 DEF Reads
        <5> QED
          BY <1>0, <3>1, <4>1, <4>2, <4>3, <4>4, <5>1, <5>2, <5>3, <5>4 DEF StreamInv, After
    <3> QED
      BY <3>2, <3>3
  <2>2. CASE Hear(s, "time") \/ Hear(s, "command") \/ Hear(s, "name")
    BY <2>2, StreamRead
  <2> QED
    BY <1>3, <2>1, <2>2 DEF SlaveStep
<1>4. ASSUME NEW p \in Sim, Freeze(p) \/ Commands(p, "RunCmd") \/ Commands(p, "ExitCmd") \/ Dies(p) PROVE StreamInv(s)'
  <2>1. UNCHANGED <<down, turn>>
    BY <1>4, ClientAlone DEF masterVars
  <2>2. (pc'[s] = pc[s] \/ pc'[s] = "gone") /\ (Gone(Main) => Gone(Main)')
    BY <1>0, <1>4, ClientAlone DEF Types, Dies, GoTo, Gone
  <2>3. \/ pc'[Main] = pc[Main] /\ mode'[Main] = mode[Main]
        \/ pc'[Main] = "gone" /\ Gone(Main)'
    BY <1>0, <1>4, ClientAlone DEF Types, Dies, GoTo, Gone
  <2> QED
    BY <1>0, <2>1, <2>2, <2>3, StreamKept DEF Naming, At
<1> QED
  BY <1>1, <1>2, <1>3, <1>4

--------------------------------------------------------------------------------
(***************************************************************************)
(* The master and a slave in sync.                                         *)
(***************************************************************************)
\* Together they stay only as long as they were before.
LEMMA PairedBefore ==
  ASSUME Inv, NEW s \in Slave, Paired(s)', bounds["checkpoint"] = bounds'["checkpoint"],
         in_sync' \subseteq in_sync, activated' \subseteq activated,
         mode'[Main] \in {"run", "freeze"} => mode[Main] \in {"run", "freeze"},
         mode'[s] \in {"run", "freeze"} => mode[s] \in {"run", "freeze"}
  PROVE  Paired(s) /\ SlaveMode(s) = MasterMode(s) /\ SlaveTime(s) = MasterTime(s) /\ Wire(s)
<1>1. Paired(s)
  BY DEF Paired, Together
<1> QED
  BY <1>1 DEF Inv, PairInv

\* A step that does not concern the slave, and after which the master will enter the next exchange
\* as it would have before.
LEMMA PairKept ==
  ASSUME Inv, NEW s \in Slave,
         mode'[s] = mode[s], time'[s] = time[s], pc'[s] = pc[s], up'[s] = up[s], down'[s] = down[s],
         pc[s] = "test" => exec_command'[s] = exec_command[s],
         in_sync' \subseteq in_sync, activated' \subseteq activated, bounds["checkpoint"] = bounds'["checkpoint"],
         mode'[Main] \in {"run", "freeze"} => mode[Main] \in {"run", "freeze"},
         Paired(s) /\ Paired(s)' => /\ Owing(s)' <=> Owing(s)
                                    /\ MasterMode(s)' = MasterMode(s) /\ MasterTime(s)' = MasterTime(s)
  PROVE  PairInv(s)'
<1> SUFFICES ASSUME Paired(s)'
             PROVE  SlaveMode(s)' = MasterMode(s)' /\ SlaveTime(s)' = MasterTime(s)' /\ Wire(s)'
  BY DEF PairInv
<1>1. Paired(s) /\ SlaveMode(s) = MasterMode(s) /\ SlaveTime(s) = MasterTime(s) /\ Wire(s)
  BY PairedBefore
<1>2. SlaveMode(s)' = SlaveMode(s) /\ SlaveTime(s)' = SlaveTime(s)
  BY DEF SlaveMode, SlaveTime, Answered, Answer
<1>3. Wire(s)'
  BY <1>1 DEF Wire
<1> QED
  BY <1>1, <1>2, <1>3

\* How far the loops over the slaves are.
LEMMA Loops ==
  ASSUME Inv, NEW s \in Slave
  PROVE  /\ turn' = 1 => ~Passed(s)'
         /\ turn > Len(Slaves) => Passed(s)
         /\ turn <= Len(Slaves) /\ At = s => ~Passed(s)
         /\ turn <= Len(Slaves) /\ turn' = turn + 1 => (Passed(s)' <=> Passed(s) \/ At = s)
<1>0. turn \in 1 .. Len(Slaves) + 1 /\ Len(Slaves) \in Nat
  BY Constants DEF Inv, Types
<1>1. turn' = 1 => ~Passed(s)'
  BY DEF Passed
<1>2. turn > Len(Slaves) => Passed(s)
  BY <1>0, Constants DEF Passed
<1>3. turn <= Len(Slaves) /\ At = s => ~Passed(s)
  <2> SUFFICES ASSUME turn <= Len(Slaves), At = s, NEW i \in 1 .. turn - 1, Slaves[i] = s PROVE FALSE
    BY DEF Passed
  <2>1. i \in 1 .. Len(Slaves) /\ turn \in 1 .. Len(Slaves) /\ i # turn
    BY <1>0
  <2> QED
    BY <2>1, OneTurn DEF At
<1>4. turn <= Len(Slaves) /\ turn' = turn + 1 => (Passed(s)' <=> Passed(s) \/ At = s)
  BY <1>0 DEF Passed, At
<1> QED
  BY <1>1, <1>2, <1>3, <1>4

\* Outside the exchange and at its end.
LEMMA MasterPairWork ==
  ASSUME Inv, NEW s \in Slave, MasterWork \/ MasterCheckpoint \/ MasterExits \/ Test(Main) \/ WrittenAll
  PROVE  PairInv(s)'
<1>0. Types /\ MasterInv /\ Main \in Sim /\ s \in Sim /\ s # Main
  BY Constants DEF Inv
<1>1. /\ mode'[s] = mode[s] /\ time'[s] = time[s] /\ exec_command'[s] = exec_command[s] /\ pc'[s] = pc[s]
      /\ in_sync' = in_sync
  BY MasterAlone DEF MasterStep, slaveVars
<1>2. CASE MasterWork
  <2>1. /\ up' = up /\ down' = down /\ bounds' = bounds /\ activated' = activated /\ mode' = mode
        /\ pc[Main] = "work" /\ pc'[Main] = "read" /\ turn' = 1 /\ mode[Main] \in {"run", "freeze"}
    BY <1>0, <1>2 DEF Types, MasterWork, Exchange, GoTo
  <2>2. time'[Main] = Advance(mode[Main], time[Main])
    BY <1>0, <1>2, <2>1 DEF Types, MasterWork, Frame, Advance
  <2>3. ~Owing(s) /\ ~Owing(s)' /\ ~Leaving(s) /\ ~Leaving(s)'
    BY <2>1, Loops DEF Owing, Leaving
  <2>4. MasterMode(s)' = MasterMode(s) /\ MasterTime(s)' = MasterTime(s)
    BY <2>1, <2>2, <2>3 DEF MasterMode, MasterTime
  <2> QED
    BY <1>1, <2>1, <2>3, <2>4, PairKept
<1>3. CASE MasterCheckpoint
  BY <1>0, <1>3, Counted DEF Types, PairInv, Paired, MasterCheckpoint, Troubles
<1>4. CASE MasterExits
  BY <1>0, <1>4 DEF Types, PairInv, Paired, Together, MasterExits, Terminate
<1>5. CASE Test(Main)
  <2>1. /\ up' = up /\ down' = down /\ bounds' = bounds /\ activated' = activated /\ time' = time
        /\ pc[Main] = "test" /\ pc'[Main] = "work"
    BY <1>0, <1>5 DEF Types, Test, GoTo, masterVars
  <2>2. mode[Main] \in {"run", "freeze"} /\ mode'[Main] = Tested(mode[Main], exec_command[Main])
    BY <1>0, <1>5 DEF Types, Test, TestRunning, TestFrozen, Tested
  <2>3. ~Owing(s) /\ ~Owing(s)' /\ Leaving(s) /\ ~Leaving(s)'
    BY <2>1 DEF Owing, Leaving
  <2>4. MasterMode(s)' = MasterMode(s) /\ MasterTime(s)' = MasterTime(s)
    BY <2>1, <2>2, <2>3 DEF MasterMode, MasterTime
  <2> QED
    BY <1>1, <2>1, <2>2, <2>3, <2>4, PairKept
<1>6. CASE WrittenAll
  <2>1. /\ up' = up /\ down' = down /\ bounds' = bounds /\ activated' = activated /\ time' = time /\ turn' = turn
        /\ exec_command' = exec_command /\ pc[Main] = "write" /\ turn > Len(Slaves)
    BY <1>6 DEF WrittenAll, masterVars
  <2>2. mode'[Main] \in {"run", "freeze"} => mode'[Main] = mode[Main]
    BY <1>0, <1>6 DEF Types, WrittenAll
  <2>3. Paired(s)' => pc'[Main] = "test"
    <3>1. Paired(s)' => why = "frame"
      BY <1>0, <1>6, <2>1 DEF Types, MasterInv, Paired, Together, WrittenAll
    <3> QED
      BY <1>0, <1>6, <3>1 DEF Types, WrittenAll, GoTo
  <2>4. Paired(s)' => ~Owing(s) /\ ~Owing(s)' /\ Leaving(s) /\ Leaving(s)'
    BY <2>1, <2>3, Loops DEF Owing, Leaving
  <2>5. Paired(s)' => MasterMode(s)' = MasterMode(s) /\ MasterTime(s)' = MasterTime(s)
    BY <2>1, <2>2, <2>3, <2>4 DEF MasterMode, MasterTime, Paired, Together
  <2> QED
    BY <1>1, <2>1, <2>2, <2>4, <2>5, PairKept
<1> QED
  BY <1>2, <1>3, <1>4, <1>5, <1>6

\* The reads: the slave whose status is read is owed an answer.
LEMMA MasterPairRead ==
  ASSUME Inv, NEW s \in Slave, ReadSlave \/ SkipSlave \/ ReadAll
  PROVE  PairInv(s)'
<1>0. Types /\ MasterInv /\ Main \in Sim /\ s \in Sim /\ s # Main /\ SlaveInv(s)
  BY Constants DEF Inv
<1>1. /\ mode'[s] = mode[s] /\ time'[s] = time[s] /\ exec_command'[s] = exec_command[s] /\ pc'[s] = pc[s]
      /\ in_sync' = in_sync
  BY MasterAlone DEF MasterStep, slaveVars
<1>2. CASE ReadSlave
  <2>1. PICK c \in Command \cup {"Error"} :
             /\ Receive(At, c)
             /\ IF exec_command[Main] # "ExitCmd" /\ c \in {"Error", "ExitCmd"}
                THEN Lose(At) ELSE NextSlave /\ UNCHANGED activated
    BY <1>2 DEF ReadSlave
  <2>2. pc[Main] = "read" /\ turn <= Len(Slaves) /\ At \in activated /\ time' = time /\ down' = down
    BY <1>2 DEF ReadSlave, InExchange
  <2>3. bounds'["checkpoint"] = bounds["checkpoint"] /\ activated' \subseteq activated
    BY <1>0, <2>1, Counted DEF Types, Receive, Lose, Troubles
  <2>4. CASE ~NextSlave
    <3>1. mode'[Main] \notin {"run", "freeze"}
      BY <1>0, <2>1, <2>4 DEF Types, Lose, Terminate
    <3> QED
      BY <3>1 DEF PairInv, Paired, Together
  <2>5. CASE NextSlave
    <3>1. turn' = turn + 1 /\ mode' = mode /\ pc' = pc
      BY <2>5 DEF NextSlave
    <3>2. ~Leaving(s) /\ ~Leaving(s)' /\ (Owing(s) <=> Passed(s)) /\ (Owing(s)' <=> Passed(s)')
      BY <2>2, <3>1 DEF Leaving, Owing
    <3>3. MasterMode(s)' = MasterMode(s) /\ MasterTime(s)' = MasterTime(s)
      BY <2>2, <3>1, <3>2 DEF MasterMode, MasterTime
    <3>4. CASE s # At
      <4>1. up'[s] = up[s]
        BY <1>0, <2>1, <3>4 DEF Types, Receive
      <4>2. Owing(s)' <=> Owing(s)
        BY <2>2, <3>1, <3>2, <3>4, Loops
      <4> QED
        BY <1>1, <2>2, <2>3, <3>1, <3>3, <4>1, <4>2, PairKept
    <3>5. CASE s = At
      <4> SUFFICES ASSUME Paired(s)'
                   PROVE  SlaveMode(s)' = MasterMode(s)' /\ SlaveTime(s)' = MasterTime(s)' /\ Wire(s)'
        BY DEF PairInv
      <4>1. Paired(s) /\ SlaveMode(s) = MasterMode(s) /\ SlaveTime(s) = MasterTime(s) /\ Wire(s)
        BY <1>1, <2>3, <3>1, PairedBefore
      <4>2. ~Owing(s) /\ Owing(s)'
        BY <2>2, <3>1, <3>2, <3>5, Loops
      <4>3. up[s] # <<>>
        <5> SUFFICES ASSUME up[s] = <<>> PROVE FALSE
          OBVIOUS
        <5>1. c = "Error" /\ (Gone(s) \/ Main \notin blocking)
          BY <2>1, <3>5 DEF Receive
        <5>2. mode[s] \in {"run", "freeze"} /\ mode[Main] \in {"run", "freeze"} /\ s \in activated'
          BY <4>1 DEF Paired, Together
        <5>3. mode[Main] = "run"
          BY <1>0, <5>1, <5>2 DEF MasterInv, Gone
        <5>4. exec_command[Main] # "ExitCmd"
          BY <1>0, <2>2, <5>3 DEF MasterInv
        <5>5. Lose(At)
          BY <2>1, <5>1, <5>4
        <5>6. activated' = activated \ {s}
          BY <1>0, <3>1, <3>5, <5>2, <5>5 DEF Types, Lose, Terminate
        <5> QED
          BY <5>2, <5>6
      <4>4. up'[s] = Tail(up[s])
        BY <1>0, <2>1, <3>5, <4>3 DEF Types, Receive
      <4>5. pc[s] = "time" /\ down[s] = <<>> /\ Len(up[s]) = 1
        BY <4>1, <4>2, <4>3 DEF Wire
      <4>6. up'[s] = <<>>
        <5>1. up[s] \in Seq(Command) /\ up'[s] \in Seq(Command) /\ Len(up'[s]) = 0
          BY <1>0, <4>3, <4>4, <4>5, Taken DEF Types
        <5> QED
          BY <5>1
      <4>7. SlaveMode(s)' = SlaveMode(s) /\ SlaveTime(s)' = SlaveTime(s)
        BY <1>1, <2>2, <4>5 DEF SlaveMode, SlaveTime, Answered
      <4>8. Wire(s)'
        BY <1>1, <2>2, <4>2, <4>5, <4>6 DEF Wire
      <4> QED
        BY <3>3, <4>1, <4>7, <4>8
    <3> QED
      BY <3>4, <3>5
  <2> QED
    BY <2>4, <2>5
<1>3. CASE SkipSlave
  <2>1. /\ turn' = turn + 1 /\ mode' = mode /\ pc' = pc /\ turn <= Len(Slaves) /\ At \notin activated
        /\ UNCHANGED <<time, exec_command, activated, up, down, bounds>>
    BY <1>3 DEF SkipSlave, NextSlave
  <2>2. CASE s = At
    BY <2>1, <2>2 DEF PairInv, Paired, Together
  <2>3. CASE s # At
    <3>1. Passed(s)' <=> Passed(s)
      BY <2>1, <2>3, Loops
    <3>2. (Owing(s)' <=> Owing(s)) /\ (Leaving(s)' <=> Leaving(s))
      BY <2>1, <3>1 DEF Owing, Leaving
    <3>3. MasterMode(s)' = MasterMode(s) /\ MasterTime(s)' = MasterTime(s)
      BY <2>1, <3>2 DEF MasterMode, MasterTime
    <3> QED
      BY <1>1, <2>1, <3>2, <3>3, PairKept
  <2> QED
    BY <2>2, <2>3
<1>4. CASE ReadAll
  <2>1. /\ pc[Main] = "read" /\ pc'[Main] = "write" /\ turn > Len(Slaves) /\ turn' = 1
        /\ UNCHANGED <<mode, time, exec_command, activated, up, down, bounds>>
    BY <1>0, <1>4 DEF Types, ReadAll, GoTo
  <2>2. Owing(s) /\ Owing(s)' /\ ~Leaving(s) /\ ~Leaving(s)'
    BY <2>1, Loops DEF Owing, Leaving
  <2>3. MasterMode(s)' = MasterMode(s) /\ MasterTime(s)' = MasterTime(s)
    BY <2>1, <2>2 DEF MasterMode, MasterTime
  <2> QED
    BY <1>1, <2>1, <2>2, <2>3, PairKept
<1> QED
  BY <1>2, <1>3, <1>4

\* The writes: the slave that is written to has its answer.
LEMMA MasterPairWrite ==
  ASSUME Inv, NEW s \in Slave, WriteSlave \/ WriteDump \/ WriteName
  PROVE  PairInv(s)'
<1>0. Types /\ MasterInv /\ Main \in Sim /\ s \in Sim /\ s # Main
  BY Constants DEF Inv
<1>1. /\ mode'[s] = mode[s] /\ time'[s] = time[s] /\ exec_command'[s] = exec_command[s] /\ pc'[s] = pc[s]
      /\ in_sync' = in_sync
  BY MasterAlone DEF MasterStep, slaveVars
<1>2. CASE WriteDump \/ WriteName
  <2>1. bounds'["checkpoint"] # 0
    BY <1>0, <1>2 DEF MasterInv, WriteDump, WriteName
  <2> QED
    BY <2>1 DEF PairInv, Paired
<1>3. CASE WriteSlave
  <2>1. /\ pc[Main] = "write" /\ turn <= Len(Slaves) /\ turn' = turn + 1 /\ At \in activated
        /\ UNCHANGED <<mode, pc, time, exec_command, activated, up, bounds>>
        /\ down' = [down EXCEPT ![At] = @ \o Status(exec_command[Main])]
    BY <1>3 DEF WriteSlave, InExchange, NextSlave
  <2>2. CASE s # At
    <3>1. down'[s] = down[s]
      BY <1>0, <2>1, <2>2 DEF Types
    <3>2. Passed(s)' <=> Passed(s)
      BY <2>1, <2>2, Loops
    <3>3. (Owing(s)' <=> Owing(s)) /\ (Leaving(s)' <=> Leaving(s))
      BY <2>1, <3>2 DEF Owing, Leaving
    <3>4. MasterMode(s)' = MasterMode(s) /\ MasterTime(s)' = MasterTime(s)
      BY <2>1, <3>3 DEF MasterMode, MasterTime
    <3> QED
      BY <1>1, <2>1, <3>1, <3>3, <3>4, PairKept
  <2>3. CASE s = At
    <3> SUFFICES ASSUME Paired(s)'
                 PROVE  SlaveMode(s)' = MasterMode(s)' /\ SlaveTime(s)' = MasterTime(s)' /\ Wire(s)'
      BY DEF PairInv
    <3>1. Paired(s) /\ SlaveMode(s) = MasterMode(s) /\ SlaveTime(s) = MasterTime(s) /\ Wire(s)
      BY <1>1, <2>1, PairedBefore
    <3>2. Owing(s) /\ ~Owing(s)' /\ ~Leaving(s) /\ Leaving(s)'
      BY <2>1, <2>3, Loops DEF Owing, Leaving
    <3>3. pc[s] = "time" /\ up[s] = <<>> /\ down[s] = <<>>
      BY <3>1, <3>2 DEF Wire
    <3>4. mode[s] = mode[Main] /\ time[s] = time[Main]
      BY <2>1, <3>1, <3>2, <3>3 DEF SlaveMode, SlaveTime, Answered, MasterMode, MasterTime
    <3>5. exec_command[Main] \in Command
      BY <1>0, <2>1 DEF Types, MasterInv
    <3>6. down'[s] = <<Item("time", time[s]), Item("command", exec_command[Main])>>
      <4>1. down'[s] = <<>> \o <<Item("time", time[Main]), Item("command", exec_command[Main])>>
        BY <1>0, <2>1, <2>3, <3>3 DEF Types, Status
      <4> QED
        BY <3>4, <4>1
    <3>7. Answered(s)' /\ Answer(s)' = exec_command[Main]
      BY <1>1, <3>3, <3>6 DEF Answered, Answer, Item
    <3>8. SlaveMode(s)' = MasterMode(s)' /\ SlaveTime(s)' = MasterTime(s)'
      BY <1>1, <2>1, <3>2, <3>4, <3>7 DEF SlaveMode, SlaveTime, MasterMode, MasterTime
    <3>9. Wire(s)'
      BY <1>1, <2>1, <3>2, <3>3, <3>5, <3>6 DEF Wire
    <3> QED
      BY <3>8, <3>9
  <2> QED
    BY <2>2, <2>3
<1> QED
  BY <1>2, <1>3

\* The steps of the slaves.
LEMMA SlavePairStep ==
  ASSUME Inv, Limited \subseteq SlaveTerminates, NEW s \in Slave, NEW t \in Slave, SlaveStep(t)
  PROVE  PairInv(s)'
<1>0. Types /\ MasterInv /\ Main \in Sim /\ s \in Sim /\ s # Main /\ t \in Sim /\ t # Main
  BY Constants DEF Inv
<1>1. /\ mode'[Main] = mode[Main] /\ time'[Main] = time[Main] /\ exec_command'[Main] = exec_command[Main]
      /\ pc'[Main] = pc[Main] /\ turn' = turn /\ activated' = activated
      /\ in_sync' \subseteq in_sync /\ bounds["checkpoint"] = bounds'["checkpoint"]
  BY <1>0, SlaveAlone DEF masterVars
<1>2. (Owing(s)' <=> Owing(s)) /\ MasterMode(s)' = MasterMode(s) /\ MasterTime(s)' = MasterTime(s)
  <2>1. (Owing(s)' <=> Owing(s)) /\ (Leaving(s)' <=> Leaving(s))
    BY <1>1 DEF Owing, Leaving, Passed
  <2> QED
    BY <1>1, <2>1 DEF MasterMode, MasterTime
<1>3. CASE s # t
  <2>1. /\ mode'[s] = mode[s] /\ time'[s] = time[s] /\ exec_command'[s] = exec_command[s] /\ pc'[s] = pc[s]
        /\ up'[s] = up[s] /\ down'[s] = down[s]
    BY <1>0, <1>3, SlaveAlone
  <2> QED
    BY <1>1, <1>2, <2>1, PairKept
<1>4. CASE s = t
  <2> SUFFICES ASSUME Paired(s)'
               PROVE  SlaveMode(s)' = SlaveMode(s) /\ SlaveTime(s)' = SlaveTime(s) /\ Wire(s)'
    <3>1. mode'[s] \in {"run", "freeze"} => mode[s] \in {"run", "freeze"}
      BY <1>0, <1>4 DEF Types, SlaveStep, SlaveWork, Tell, SlaveExits, Exits, Test, TestRunning, TestFrozen, Hear, LostMaster,
         NoName, Ends, Alone
    <3>2. Paired(s)' => Paired(s) /\ SlaveMode(s) = MasterMode(s) /\ SlaveTime(s) = MasterTime(s)
      BY <1>1, <3>1, PairedBefore
    <3> QED
      BY <1>2, <3>2 DEF PairInv
  <2>0. Paired(s) /\ Wire(s) /\ s \in in_sync' /\ mode'[s] \in {"run", "freeze"} /\ mode[Main] \in {"run", "freeze"}
    <3>1. mode'[s] \in {"run", "freeze"} => mode[s] \in {"run", "freeze"}
      BY <1>0, <1>4 DEF Types, SlaveStep, SlaveWork, Tell, SlaveExits, Exits, Test, TestRunning, TestFrozen, Hear, LostMaster,
         NoName, Ends, Alone
    <3> QED
      BY <1>1, <3>1, PairedBefore DEF Paired, Together
  <2>1. CASE SlaveWork(s)
    <3>1. /\ pc[s] = "work" /\ pc'[s] = "tell" /\ mode'[s] = mode[s] /\ up'[s] = up[s] /\ down'[s] = down[s]
      BY <1>0, <2>0, <2>1 DEF Types, SlaveWork, GoTo, slaveVars
    <3>2. time'[s] = Advance(mode[s], time[s])
      BY <1>0, <2>1 DEF Types, SlaveWork, Frame, Advance
    <3> QED
      BY <1>2, <2>0, <3>1, <3>2 DEF SlaveMode, SlaveTime, Answered, Wire
  <2>2. CASE Tell(s)
    <3>1. /\ pc[s] = "tell" /\ pc'[s] = "time" /\ mode'[s] = mode[s] /\ time'[s] = time[s] /\ down'[s] = <<>> /\ up[s] = <<>>
      BY <1>0, <2>0, <2>2 DEF Types, Tell, GoTo, Wire
    <3>2. ~Owing(s)
      BY <2>0, <3>1 DEF Wire
    <3>3. Len(up'[s]) = 1
      BY <1>0, <2>2, <3>1 DEF Types, Tell, Write
    <3> QED
      BY <1>2, <3>1, <3>2, <3>3 DEF SlaveMode, SlaveTime, Answered, Wire
  <2>3. CASE SlaveExits(s)
    BY <1>0, <2>0, <2>3 DEF Types, SlaveExits, Ends
  <2>4. CASE Test(s)
    <3>1. /\ pc[s] = "test" /\ pc'[s] = "work" /\ time'[s] = time[s] /\ up'[s] = up[s] /\ down'[s] = down[s]
      BY <1>0, <2>4 DEF Types, Test, GoTo, masterVars
    <3>2. mode'[s] = Tested(mode[s], exec_command[s])
      BY <1>0, <2>4 DEF Types, Test, TestRunning, TestFrozen, Tested
    <3> QED
      BY <1>2, <2>0, <3>1, <3>2 DEF SlaveMode, SlaveTime, Answered, Answer, Wire
  <2>5. CASE Hear(s, "time")
    <3>1. /\ pc[s] = "time" /\ pc'[s] = "command" /\ mode'[s] = mode[s] /\ time'[s] = time[s] /\ up'[s] = up[s]
          /\ down[s] # <<>> /\ down'[s] = Tail(down[s])
      BY <1>0, <2>5 DEF Types, Hear, GoTo
    <3>2. ~Owing(s)
      BY <2>0, <3>1 DEF Wire
    <3>3. PICK c \in Command : up[s] = <<>> /\ down[s] = <<Item("time", time[s]), Item("command", c)>>
      BY <2>0, <3>1, <3>2 DEF Wire
    <3>4. down'[s] = <<Item("command", c)>> /\ down[s][2].v = c /\ down'[s][1].v = c
      BY <3>1, <3>3 DEF Item
    <3> QED
      BY <1>2, <3>1, <3>2, <3>3, <3>4 DEF SlaveMode, SlaveTime, Answered, Answer, Wire
  <2>6. CASE Hear(s, "command")
    <3>1. pc[s] = "command" /\ mode'[s] = mode[s] /\ time'[s] = time[s] /\ up'[s] = up[s] /\ down'[s] = Tail(down[s])
      BY <1>0, <2>6 DEF Types, Hear
    <3>2. PICK c \in Command : up[s] = <<>> /\ down[s] = <<Item("command", c)>>
      BY <2>0, <3>1 DEF Wire
    <3>3. ~Owing(s) /\ down'[s] = <<>> /\ down[s][1].v = c /\ Head(down[s]).v = c /\ c # "Dump"
      BY <2>0, <3>1, <3>2 DEF Wire, Item, Command
    <3>4. exec_command'[s] = c /\ pc'[s] = "test"
      BY <1>0, <2>6, <3>3 DEF Types, Hear, GoTo
    <3> QED
      BY <1>2, <3>1, <3>2, <3>3, <3>4 DEF SlaveMode, SlaveTime, Answered, Answer, Wire
  <2>7. CASE Hear(s, "name") \/ NoName(s)
    BY <2>0, <2>7 DEF Wire, Hear, NoName
  <2>8. CASE LostMaster(s)
    <3>1. ~Gone(Main)
      BY <2>0 DEF Gone
    <3>2. s \in SlaveTerminates
      BY <2>8, <3>1 DEF LostMaster, Fails
    <3> QED
      BY <1>0, <2>0, <2>8, <3>2 DEF Types, LostMaster, Ends
  <2> QED
    BY <1>4, <2>1, <2>2, <2>3, <2>4, <2>5, <2>6, <2>7, <2>8 DEF SlaveStep
<1> QED
  BY <1>3, <1>4

\* The clients command between the exchanges, where the next one does not depend on the command yet.
LEMMA ClientPairStep ==
  ASSUME Inv, ~AnyMoment, NEW s \in Slave, NEW p \in Sim,
         Freeze(p) \/ Commands(p, "RunCmd") \/ Commands(p, "ExitCmd") \/ Dies(p)
  PROVE  PairInv(s)'
<1>0. Types /\ Main \in Sim /\ s \in Sim /\ s # Main
  BY Constants DEF Inv
<1>1. /\ UNCHANGED <<time, up, down, turn, activated, in_sync>> /\ bounds["checkpoint"] = bounds'["checkpoint"]
      /\ \A q \in Sim : q # p => mode'[q] = mode[q] /\ exec_command'[q] = exec_command[q] /\ pc'[q] = pc[q]
      /\ Dies(p) \/ (mode'[p] = mode[p] /\ pc'[p] = pc[p])
  BY <1>0, ClientAlone DEF masterVars, slaveVars
<1>2. CASE Dies(p) /\ p \in {s, Main}
  BY <1>0, <1>2 DEF Types, Dies, PairInv, Paired, Together
<1>3. CASE ~(Dies(p) /\ p \in {s, Main})
  <2>1. mode'[s] = mode[s] /\ pc'[s] = pc[s] /\ mode'[Main] = mode[Main] /\ pc'[Main] = pc[Main]
    BY <1>0, <1>1, <1>3
  <2>2. ASSUME NEW q \in {s, Main}, pc[q] # "work" PROVE exec_command'[q] = exec_command[q]
    <3>1. CASE p # q \/ Dies(p)
      BY <1>0, <1>1, <3>1 DEF Dies
    <3>2. CASE p = q /\ ~Dies(p)
      BY <2>2, <3>2 DEF Freeze, Commands
    <3> QED
      BY <3>1, <3>2
  <2>3. (Owing(s)' <=> Owing(s)) /\ (Leaving(s)' <=> Leaving(s)) /\ (Leaving(s) => pc[Main] # "work")
    BY <1>1, <2>1 DEF Owing, Leaving, Passed
  <2>4. MasterMode(s)' = MasterMode(s) /\ MasterTime(s)' = MasterTime(s)
    BY <1>1, <2>1, <2>2, <2>3 DEF MasterMode, MasterTime
  <2> QED
    BY <1>1, <2>1, <2>2, <2>3, <2>4, PairKept
<1> QED
  BY <1>2, <1>3

--------------------------------------------------------------------------------
(***************************************************************************)
(* The invariant of the specification.                                     *)
(***************************************************************************)
\* It holds at first: everyone is at the beginning of its first frame.
LEMMA InitInv == Init => Inv
<1> SUFFICES ASSUME Init PROVE Inv
  OBVIOUS
<1>0. Main \in Sim /\ Len(Slaves) \in Nat /\ 0 \in 0 .. Period - 1
  BY Constants
<1>1. Types
  <2>1. /\ mode \in [Sim -> {"run", "freeze", "exit", "gone"}] /\ time \in [Sim -> 0 .. Period - 1]
        /\ exec_command \in [Sim -> Command \cup {"Dump"}] /\ \A s \in Slave : exec_command[s] # "Dump"
        /\ pc \in [Sim -> MasterPlace \cup SlavePlace]
        /\ save_command \in Command /\ slave_command \in [Slave -> Command]
    BY <1>0, Constants DEF Init, Command, MasterPlace
  <2>2. async_freeze \subseteq Sim /\ blocking \subseteq Sim /\ activated \subseteq Slave /\ in_sync \subseteq Slave
    BY DEF Init
  <2>3. turn \in 1 .. Len(Slaves) + 1 /\ why \in {"frame", "checkpoint", "shutdown"}
    BY <1>0 DEF Init
  <2>4. bounds \in [Troubles -> Nat] /\ \A k \in Troubles : bounds[k] <= Bound[k]
    BY Constants DEF Init
  <2>5. up \in [Slave -> Seq(Command)] /\ down \in [Slave -> Seq(Message)]
    BY DEF Init
  <2> QED
    BY <2>1, <2>2, <2>3, <2>4, <2>5 DEF Types
<1>2. MasterInv
  BY <1>0 DEF Init, MasterInv, Gone, MasterPlace
<1>3. ASSUME NEW s \in Slave PROVE SlaveInv(s) /\ StreamInv(s) /\ PairInv(s)
  <2>0. /\ s \in Sim /\ mode[s] = "run" /\ time[s] = time[Main] /\ pc[s] = "work" /\ up[s] = <<>> /\ down[s] = <<>>
        /\ mode[Main] = "run" /\ pc[Main] = "work"
    BY <1>0, <1>3, Constants DEF Init
  <2>1. SlaveInv(s)
    BY <2>0 DEF SlaveInv, Gone, SlavePlace
  <2>2. StreamInv(s)
    <3>1. Len(down[s]) = 0 /\ ~Naming(s)
      BY <2>0 DEF Naming
    <3> QED
      BY <2>0, <3>1 DEF StreamInv
  <2>3. ~Owing(s) /\ ~Leaving(s) /\ ~Answered(s)
    BY <2>0 DEF Owing, Leaving, Answered
  <2>4. PairInv(s)
    BY <2>0, <2>3 DEF PairInv, SlaveMode, SlaveTime, MasterMode, MasterTime, Wire
  <2> QED
    BY <2>1, <2>2, <2>4
<1> QED
  BY <1>1, <1>2, <1>3 DEF Inv

\* And every step keeps it.
LEMMA NextInv ==
  ASSUME Inv, ~AnyMoment, Limited \subseteq SlaveTerminates, [Next]_vars
  PROVE  Inv'
<1>1. CASE MasterStep \/ MasterCheckpoint
  <2>1. Types' /\ MasterInv'
    BY <1>1, MasterTypes, MasterStepInv
  <2>2. ASSUME NEW s \in Slave PROVE SlaveInv(s)' /\ StreamInv(s)'
    BY <1>1, SlaveStepInv, StreamStep
  <2>3. ASSUME NEW s \in Slave PROVE PairInv(s)'
    BY <1>1, MasterPairWork, MasterPairRead, MasterPairWrite DEF MasterStep
  <2> QED
    BY <2>1, <2>2, <2>3 DEF Inv
<1>2. ASSUME NEW t \in Slave, SlaveStep(t) PROVE Inv'
  <2>1. Types' /\ MasterInv'
    BY <1>2, SlaveTypes, OthersMasterInv
  <2>2. ASSUME NEW s \in Slave PROVE SlaveInv(s)' /\ StreamInv(s)' /\ PairInv(s)'
    BY <1>2, SlaveStepInv, StreamStep, SlavePairStep
  <2> QED
    BY <2>1, <2>2 DEF Inv
<1>3. ASSUME NEW p \in Sim, Freeze(p) \/ Commands(p, "RunCmd") \/ Commands(p, "ExitCmd") \/ Dies(p) PROVE Inv'
  <2>1. Types' /\ MasterInv'
    <3>1. Types'
      BY <1>3, ClientTypes DEF Inv
    <3> QED
      BY <1>3, <3>1, OthersMasterInv
  <2>2. ASSUME NEW s \in Slave PROVE SlaveInv(s)' /\ StreamInv(s)' /\ PairInv(s)'
    BY <1>3, SlaveStepInv, StreamStep, ClientPairStep
  <2> QED
    BY <2>1, <2>2 DEF Inv
<1>4. CASE UNCHANGED vars
  <2>1. Types' /\ MasterInv'
    BY <1>4 DEF Inv, Types, MasterInv, Gone, vars, simVars, masterVars, slaveVars
  <2>2. ASSUME NEW s \in Slave PROVE SlaveInv(s)' /\ StreamInv(s)'
    BY <1>4 DEF Inv, SlaveInv, StreamInv, Gone, Naming, At, vars, simVars, masterVars, slaveVars
  <2>3. ASSUME NEW s \in Slave PROVE PairInv(s)'
    BY <1>4 DEF Inv, PairInv, Paired, Together, SlaveMode, SlaveTime, MasterMode, MasterTime, Answered, Answer, Owing, Leaving,
       Passed, Wire, vars, simVars, masterVars, slaveVars
  <2> QED
    BY <2>1, <2>2, <2>3 DEF Inv
<1> QED
  BY <1>1, <1>2, <1>3, <1>4 DEF Next

\* A frame takes two different times to different ones: those that enter the next exchange at one
\* time are at one time now.
LEMMA AdvanceInjective ==
  ASSUME NEW m, NEW t \in 0 .. Period - 1, NEW u \in 0 .. Period - 1, Advance(m, t) = Advance(m, u)
  PROVE  t = u
<1>1. \A x \in 0 .. Period - 1 : (x + 1) % Period = IF x = Period - 1 THEN 0 ELSE x + 1
  BY Constants, SMT
<1>2. (t + 1) % Period = (u + 1) % Period => t = u
  BY <1>1, Constants
<1> QED
  BY <1>2 DEF Advance

\* The invariant says what the property does.
LEMMA InvSuffices == Inv => SameFrameAndMode
<1> SUFFICES ASSUME Inv PROVE SameFrameAndMode
  OBVIOUS
<1>1. TypeOK
  BY TypesOK DEF Inv
<1>2. InStep
  <2> SUFFICES ASSUME bounds["checkpoint"] = 0, NEW s \in Slave, Together(s), pc[s] = "time", down[s] # <<>>
               PROVE  Head(down[s]) = Item("time", time[s])
    BY DEF InStep, InStepAlways
  <2>1. Wire(s)
    BY DEF Inv, PairInv, Paired
  <2>2. PICK c \in Command : down[s] = <<Item("time", time[s]), Item("command", c)>>
    BY <2>1 DEF Wire
  <2> QED
    BY <2>2
<1>3. ModesAgree
  <2> SUFFICES ASSUME NEW s \in Slave, bounds["checkpoint"] = 0, Together(s), pc[Main] = "work", pc[s] = "work"
               PROVE  mode[s] = mode[Main] /\ time[s] = time[Main]
    BY DEF ModesAgree
  <2>1. SlaveMode(s) = MasterMode(s) /\ SlaveTime(s) = MasterTime(s)
    BY DEF Inv, PairInv, Paired
  <2>2. ~Leaving(s) /\ ~Answered(s)
    BY DEF Leaving, Answered
  <2>3. mode[s] = mode[Main] /\ Advance(mode[s], time[s]) = Advance(mode[s], time[Main])
    BY <2>1, <2>2 DEF SlaveMode, MasterMode, SlaveTime, MasterTime
  <2>4. time[s] \in 0 .. Period - 1 /\ time[Main] \in 0 .. Period - 1
    BY Constants DEF Inv, Types
  <2> QED
    BY <2>3, <2>4, AdvanceInjective
<1> QED
  BY <1>1, <1>2, <1>3 DEF SameFrameAndMode

\* In every state a slave finds what it reads for, and a slave in sync will enter the next exchange
\* in the mode and at the time of the master.
THEOREM MasterAndSlaves ==
  ASSUME ~AnyMoment, Limited \subseteq SlaveTerminates
  PROVE  Spec => []Inv
<1>1. Inv /\ [Next]_vars => Inv'
  BY NextInv
<1> QED
  BY InitInv, <1>1, PTL DEF Spec

\* A slave that is in sync with the master is in its frame when it reads the time, and between the
\* exchanges in its frame and its mode, whatever froze, ran, ended, died or was late.
THEOREM FrameAndModeAreShared ==
  ASSUME ~AnyMoment, Limited \subseteq SlaveTerminates
  PROVE  Spec => []SameFrameAndMode
<1>1. Spec => []Inv
  BY MasterAndSlaves
<1> QED
  BY <1>1, InvSuffices, PTL

================================================================================
