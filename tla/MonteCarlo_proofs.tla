-------------------------- MODULE MonteCarlo_proofs --------------------------
(***************************************************************************)
(* A run has one result, and it is one that was reported of that run, for  *)
(* any number of runs and of slaves, and however many of them are lost or  *)
(* late.  What it takes is that the master and a slave never disagree on   *)
(* the run they are talking about: a slave that is ready owes no answer.   *)
(*                                                                         *)
(* And no run is forgotten: a run in range without a result is in the      *)
(* queue or with a slave the master waits for, unless its connection was   *)
(* lost while it was sent or the end of the file deleted it.               *)
(*                                                                         *)
(* Both need that the master does not move between the test and the        *)
(* assignment of stop_slave and start_slave (~TornCommands).  That a run   *)
(* has but one result holds in any case.                                   *)
(***************************************************************************)
EXTENDS MonteCarlo, SequenceTheorems, FiniteSetTheorems, WellFoundedInduction, TLAPS

Fresh(s) == state[s] \in {"MC_UNINITIALIZED", "MC_INITIALIZING"}
Idle(s)  == state[s] \in {"MC_READY", "MC_STOPPED"}
Busy(s)  == state[s] \in {"MC_RUNNING", "MC_STOPPING", "MC_UNRESPONSIVE_RUNNING", "MC_UNRESPONSIVE_STOPPING"}

\* The messages of a slave that wait, and whether there is but one.
From(s)   == {m \in ToSet(inbox) : m.slave = s}
Single(s) == \A i, k \in DOMAIN inbox : inbox[i].slave = s /\ inbox[k].slave = s => i = k

\* Before the master has heard from a slave there is nothing but the first message.
FreshInv(s) ==
  /\ Fresh(s) => /\ orders[s] = <<>> /\ process[s] \in {"none", "starting", "waiting", "gone"}
                 /\ Single(s) /\ \A m \in From(s) : m.status \in {"init", "broken"}
  /\ process[s] \in {"none", "starting"} => Fresh(s) /\ From(s) = {}
  /\ state[s] = "MC_UNINITIALIZED" => process[s] = "none"

\* A slave that has a run, or had one, has it from the master.
RunInv(s) ==
  /\ Busy(s) => current_run[s] \in Run
  /\ From(s) # {} => Fresh(s) \/ current_run[s] \in Run
  /\ process[s] \in {"running", "reported"} => current_run[s] \in Run
  /\ orders[s] # <<>> => current_run[s] \in Run

\* A run that was given out is at one place: it is still ordered, or it runs, or its report waits.
TokenInv(s) ==
  /\ Single(s)
  /\ From(s) # {} => process[s] # "running" /\ orders[s] = <<>>
  /\ process[s] = "running" => orders[s] = <<>> /\ job[s] = current_run[s]
  /\ orders[s] = <<>> \/ orders[s] = <<current_run[s]>>
  /\ Idle(s) => From(s) = {} /\ process[s] # "running" /\ orders[s] = <<>>
  /\ \A m \in From(s) : m.status \in Resolution => m.status \in reported[current_run[s]]

SlaveInv(s) == FreshInv(s) /\ RunInv(s) /\ (twice \/ TornCommands \/ TokenInv(s))

ResultTypes ==
  exit_status \in [Run -> ExitStatus] /\ failed_runs \in Seq(Run) /\ error_runs \in Seq(Run)

SlaveTypes ==
  /\ state \in [Slave -> State] /\ current_run \in [Slave -> Run \cup {NoRun}]
  /\ inbox \in Seq(Message) /\ process \in [Slave -> Process] /\ job \in [Slave -> Run \cup {NoRun}]
  /\ orders \in [Slave -> Seq(Run \cup {Shutdown})]
  /\ reported \in [Run -> SUBSET Resolution] /\ twice \in BOOLEAN

OfItsRun == TornCommands \/ ResultOfItsRun

\* The master gives a run to a slave that was ready, and still owes nothing unless a command is torn.
Chosen(s) == ~Fresh(s) /\ (TornCommands \/ Idle(s))

Inv ==
  /\ ResultTypes /\ SlaveTypes /\ ResultsCountedOnce /\ OfItsRun
  /\ pc = "connect" => slave_index \in Slave /\ Chosen(slave_index)
  /\ pc # "done" => \A s \in Slave : SlaveInv(s)

\* The numbers among the constants.
LEMMA Numbers ==
  /\ NumRuns \in Nat \ {0} /\ NumSlaves \in Nat \ {0} /\ Run \subseteq Nat
  /\ NoRun \notin Run /\ Shutdown \notin Run /\ NoRun # Shutdown
  /\ Outcomes \subseteq Resolution \ {"MC_RUN_TIMED_OUT"} /\ "MC_RUN_TIMED_OUT" \in Resolution
  /\ "broken" \notin Resolution /\ "init" \notin Resolution
  /\ IsFiniteSet(Run)
  <1>1. NumRuns \in Nat \ {0} /\ NumSlaves \in Nat \ {0} /\ Outcomes \subseteq Resolution \ {"MC_RUN_TIMED_OUT"}
    BY MonteCarloAssumption
  <1>2. Run \subseteq Nat /\ NoRun \notin Run /\ Shutdown \notin Run /\ NoRun # Shutdown
    BY <1>1 DEF Run, NoRun, Shutdown
  <1>3. IsFiniteSet(Run)
    BY <1>1, FS_Interval DEF Run
  <1> QED
    BY <1>1, <1>2, <1>3 DEF Resolution

(***************************************************************************)
(* The results.                                                            *)
(***************************************************************************)
Times(q, r) == {i \in DOMAIN q : q[i] = r}

\* A run put at the end of a list is there once more.
LEMMA TimesAppended ==
  ASSUME NEW S, NEW q \in Seq(S), NEW e \in S, NEW r
  PROVE  /\ Append(q, e) \in Seq(S)
         /\ Cardinality(Times(q, r)) \in Nat
         /\ Cardinality(Times(Append(q, e), r)) = Cardinality(Times(q, r)) + (IF r = e THEN 1 ELSE 0)
  <1>1. PICK n \in Nat : n = Len(q)
    BY LenProperties
  <1>2. PICK p : p = Append(q, e)
    OBVIOUS
  <1>3. p \in Seq(S) /\ Len(p) = n + 1 /\ (\A i \in 1 .. n : p[i] = q[i]) /\ p[n + 1] = e
    BY <1>1, <1>2, AppendProperties
  <1>4. DOMAIN p = 1 .. n + 1 /\ DOMAIN q = 1 .. n
    BY <1>1, <1>3
  <1>5. IsFiniteSet(Times(q, r)) /\ Cardinality(Times(q, r)) \in Nat /\ n + 1 \notin Times(q, r)
    <2>1. IsFiniteSet(1 .. n) /\ Times(q, r) \subseteq 1 .. n
      BY <1>4, FS_Interval DEF Times
    <2>2. IsFiniteSet(Times(q, r))
      BY <2>1, FS_Subset
    <2> QED
      BY <2>1, <2>2, FS_CardinalityType
  <1>6. CASE r = e
    <2>1. Times(p, r) = Times(q, r) \cup {n + 1}
      BY <1>3, <1>4, <1>6 DEF Times
    <2>2. Cardinality(Times(q, r) \cup {n + 1}) = Cardinality(Times(q, r)) + 1
      BY <1>5, FS_AddElement
    <2> QED
      BY <1>2, <1>3, <1>5, <1>6, <2>1, <2>2
  <1>7. CASE r # e
    <2>1. Times(p, r) = Times(q, r)
      BY <1>3, <1>4, <1>7 DEF Times
    <2> QED
      BY <1>2, <1>3, <1>5, <1>7, <2>1
  <1> QED
    BY <1>6, <1>7

\* A result is counted when the run has none yet.
LEMMA ResolveRunCounts ==
  ASSUME ResultTypes, ResultsCountedOnce, NEW run \in Run, Unresolved(run), NEW status \in Resolution,
         ResolveRun(run, status)
  PROVE  ResultTypes' /\ ResultsCountedOnce'
  <1>1. /\ exit_status' = [exit_status EXCEPT ![run] = status] /\ num_results' = num_results + 1
        /\ failed_runs' = IF status = "MC_RUN_FAILED" THEN Append(failed_runs, run) ELSE failed_runs
        /\ error_runs' = IF status \notin {"MC_RUN_FAILED", "MC_RUN_COMPLETE"}
                         THEN Append(error_runs, run) ELSE error_runs
    BY DEF ResolveRun
  <1>2. exit_status[run] = "MC_RUN_INCOMPLETE" /\ status # "MC_RUN_INCOMPLETE" /\ status \in ExitStatus
    BY DEF Unresolved, Resolution, ExitStatus
  <1>3. /\ exit_status' \in [Run -> ExitStatus] /\ exit_status'[run] = status
        /\ \A r \in Run : r # run => exit_status'[r] = exit_status[r]
    BY <1>1, <1>2 DEF ResultTypes
  <1>4. failed_runs' \in Seq(Run) /\ error_runs' \in Seq(Run)
    BY <1>1, TimesAppended DEF ResultTypes
  <1>5. num_results' = Cardinality(Resolved')
    <2>1. Resolved' = Resolved \cup {run} /\ run \notin Resolved
      BY <1>2, <1>3 DEF Resolved
    <2>2. IsFiniteSet(Resolved)
      BY Numbers, FS_Subset DEF Resolved
    <2> QED
      BY <1>1, <2>1, <2>2, FS_AddElement DEF ResultsCountedOnce
  <1>6. ASSUME NEW r \in Run
        PROVE  /\ Cardinality(Times(failed_runs', r)) = (IF exit_status'[r] = "MC_RUN_FAILED" THEN 1 ELSE 0)
               /\ Cardinality(Times(error_runs', r))
                    = (IF exit_status'[r] \in {"MC_RUN_DUMPED_CORE", "MC_RUN_TIMED_OUT"} THEN 1 ELSE 0)
    <2>1. /\ Cardinality(Times(failed_runs, r)) = (IF exit_status[r] = "MC_RUN_FAILED" THEN 1 ELSE 0)
          /\ Cardinality(Times(error_runs, r))
               = (IF exit_status[r] \in {"MC_RUN_DUMPED_CORE", "MC_RUN_TIMED_OUT"} THEN 1 ELSE 0)
      BY DEF ResultsCountedOnce, Times
    <2>2. /\ Cardinality(Times(Append(failed_runs, run), r))
               = Cardinality(Times(failed_runs, r)) + (IF r = run THEN 1 ELSE 0)
          /\ Cardinality(Times(Append(error_runs, run), r))
               = Cardinality(Times(error_runs, r)) + (IF r = run THEN 1 ELSE 0)
      BY TimesAppended DEF ResultTypes
    <2> QED
      BY <1>1, <1>2, <1>3, <2>1, <2>2 DEF Resolution
  <1> QED
    BY <1>3, <1>4, <1>5, <1>6 DEF ResultTypes, ResultsCountedOnce, Times

\* What the results depend on, but for those of one run.
ResultsSame ==
  /\ UNCHANGED <<exit_status, num_results, failed_runs, error_runs>>
  /\ \A r \in Run : reported[r] \subseteq reported'[r]
  /\ twice => twice'

\* A step that leaves the results leaves what is said of them.
LEMMA ResultsKept ==
  ASSUME ResultTypes, ResultsCountedOnce, OfItsRun, ResultsSame
  PROVE  ResultTypes' /\ ResultsCountedOnce' /\ OfItsRun'
  <1>1. ResultTypes' /\ ResultsCountedOnce'
    BY DEF ResultTypes, ResultsCountedOnce, ResultsSame, Resolved
  <1>2. OfItsRun'
    BY DEF OfItsRun, ResultOfItsRun, ResultsSame, Resolved
  <1> QED
    BY <1>1, <1>2

\* A result that was reported of the run, or that the master gave.
LEMMA ResultGiven ==
  ASSUME ResultTypes, ResultsCountedOnce, OfItsRun, NEW run \in Run, Unresolved(run),
         NEW status \in Resolution, ResolveRun(run, status),
         status \in reported[run] \/ status = "MC_RUN_TIMED_OUT" \/ twice \/ TornCommands,
         reported' = reported, twice' = twice
  PROVE  ResultTypes' /\ ResultsCountedOnce' /\ OfItsRun'
  <1>1. ResultTypes' /\ ResultsCountedOnce'
    BY ResolveRunCounts
  <1>2. exit_status' = [exit_status EXCEPT ![run] = status]
    BY DEF ResolveRun
  <1>3. exit_status'[run] = status /\ \A r \in Run : r # run => exit_status'[r] = exit_status[r]
    BY <1>2 DEF ResultTypes
  <1>4. OfItsRun'
    BY <1>3 DEF OfItsRun, ResultOfItsRun, Resolved
  <1> QED
    BY <1>1, <1>4

(***************************************************************************)
(* The inbox.                                                              *)
(***************************************************************************)
\* A message is taken: the others stay in their order, and if its slave sent but one, none is left.
LEMMA MessageTaken ==
  ASSUME inbox \in Seq(Message), inbox # <<>>, inbox' = Tail(inbox), NEW h \in Slave, Head(inbox).slave = h
  PROVE  /\ inbox' \in Seq(Message) /\ Head(inbox) \in From(h)
         /\ \A s \in Slave : From(s)' \subseteq From(s) /\ (Single(s) => Single(s)')
         /\ Single(h) => From(h)' = {}
  <1>1. PICK n \in Nat : n = Len(inbox)
    BY LenProperties
  <1>2. PICK q : q = Tail(inbox)
    OBVIOUS
  <1>3. /\ n >= 1 /\ q \in Seq(Message) /\ Len(q) = n - 1 /\ \A i \in 1 .. n - 1 : q[i] = inbox[i + 1]
    <2>1. n # 0
      BY <1>1, EmptySeq
    <2> QED
      BY <1>1, <1>2, <2>1, HeadTailProperties
  <1>4. DOMAIN inbox = 1 .. n /\ DOMAIN q = 1 .. n - 1
    BY <1>1, <1>3
  <1>5. Head(inbox) = inbox[1] /\ 1 \in 1 .. n /\ Head(inbox) \in Message
    BY <1>1, <1>3
  <1>6. \A i \in 1 .. n - 1 : i + 1 \in 1 .. n /\ i + 1 # 1 /\ q[i] = inbox[i + 1]
    BY <1>3
  <1>7. ToSet(inbox) = {inbox[i] : i \in 1 .. n} /\ ToSet(q) = {q[i] : i \in 1 .. n - 1}
    BY <1>4 DEF ToSet
  <1>8. ToSet(q) \subseteq ToSet(inbox) /\ Head(inbox) \in ToSet(inbox)
    BY <1>5, <1>6, <1>7
  <1>9. ASSUME NEW s \in Slave PROVE From(s)' \subseteq From(s) /\ (Single(s) => Single(s)')
    <2>1. From(s)' \subseteq From(s)
      BY <1>2, <1>8 DEF From
    <2>2. ASSUME Single(s) PROVE Single(s)'
      <3> SUFFICES ASSUME NEW i \in 1 .. n - 1, NEW k \in 1 .. n - 1, q[i].slave = s, q[k].slave = s
                   PROVE  i = k
        BY <1>2, <1>4 DEF Single
      <3>1. i + 1 = k + 1
        BY <1>4, <1>6, <2>2 DEF Single
      <3> QED
        BY <3>1
    <2> QED
      BY <2>1, <2>2
  <1>10. ASSUME Single(h) PROVE From(h)' = {}
    <2> SUFFICES ASSUME NEW i \in 1 .. n - 1, q[i].slave = h PROVE FALSE
      BY <1>2, <1>7 DEF From
    <2> QED
      BY <1>4, <1>5, <1>6, <1>10 DEF Single
  <1> QED
    BY <1>2, <1>3, <1>5, <1>8, <1>9, <1>10 DEF From

\* A message that is sent is one more of its slave.
LEMMA MessageSent ==
  ASSUME inbox \in Seq(Message), NEW m \in Message, inbox' = Append(inbox, m)
  PROVE  /\ inbox' \in Seq(Message)
         /\ From(m.slave)' = From(m.slave) \cup {m}
         /\ From(m.slave) = {} => Single(m.slave)'
         /\ \A s \in Slave : s # m.slave => From(s)' = From(s) /\ (Single(s) => Single(s)')
  <1>1. PICK n \in Nat : n = Len(inbox)
    BY LenProperties
  <1>2. PICK q : q = Append(inbox, m)
    OBVIOUS
  <1>3. q \in Seq(Message) /\ Len(q) = n + 1 /\ (\A i \in 1 .. n : q[i] = inbox[i]) /\ q[n + 1] = m
    BY <1>1, <1>2, AppendProperties
  <1>4. DOMAIN q = 1 .. n + 1 /\ DOMAIN inbox = 1 .. n
    BY <1>1, <1>3
  <1>5. /\ \A i \in 1 .. n + 1 : (i \in 1 .. n /\ q[i] = inbox[i]) \/ (i = n + 1 /\ q[i] = m)
        /\ \A i \in 1 .. n : i \in 1 .. n + 1
        /\ n + 1 \in 1 .. n + 1
    BY <1>3
  <1>6. ToSet(inbox) = {inbox[i] : i \in 1 .. n} /\ ToSet(q) = {q[i] : i \in 1 .. n + 1}
    BY <1>4 DEF ToSet
  <1>7. ToSet(q) = ToSet(inbox) \cup {m}
    BY <1>3, <1>5, <1>6
  <1>8. ASSUME From(m.slave) = {} PROVE Single(m.slave)'
    <2>1. \A i \in 1 .. n : inbox[i].slave # m.slave
      BY <1>6, <1>8 DEF From
    <2> QED
      BY <1>2, <1>4, <1>5, <2>1 DEF Single
  <1>9. ASSUME NEW s \in Slave, s # m.slave PROVE From(s)' = From(s) /\ (Single(s) => Single(s)')
    <2>1. From(s)' = From(s)
      BY <1>2, <1>7, <1>9 DEF From
    <2>2. ASSUME Single(s) PROVE Single(s)'
      BY <1>2, <1>4, <1>5, <1>9, <2>2 DEF Single
    <2> QED
      BY <2>1, <2>2
  <1> QED
    BY <1>2, <1>3, <1>7, <1>8, <1>9 DEF From

(***************************************************************************)
(* The invariant, of the initial states and of each action.                *)
(***************************************************************************)
OthersSame(s) ==
  \A t \in Slave \ {s} :
    /\ state'[t] = state[t] /\ current_run'[t] = current_run[t]
    /\ process'[t] = process[t] /\ job'[t] = job[t] /\ orders'[t] = orders[t]
    /\ From(t)' \subseteq From(t) /\ (Single(t) => Single(t)')

ReportsGrow == (\A r \in Run : reported[r] \subseteq reported'[r]) /\ (twice => twice')

\* A step of one slave, or of the master with it, does not disturb the others.
LEMMA OneSlave ==
  ASSUME NEW s \in Slave, OthersSame(s), ReportsGrow, \A t \in Slave : SlaveInv(t), SlaveInv(s)'
  PROVE  \A t \in Slave : SlaveInv(t)'
  <1> SUFFICES ASSUME NEW t \in Slave \ {s} PROVE SlaveInv(t)'
    BY Zenon
  <1>1. /\ state'[t] = state[t] /\ current_run'[t] = current_run[t]
        /\ process'[t] = process[t] /\ job'[t] = job[t] /\ orders'[t] = orders[t]
        /\ From(t)' \subseteq From(t) /\ (Single(t) => Single(t)')
    BY DEF OthersSame
  <1>2. FreshInv(t) /\ RunInv(t) /\ (twice \/ TornCommands \/ TokenInv(t))
    BY DEF SlaveInv
  <1>3. FreshInv(t)'
    BY <1>1, <1>2 DEF FreshInv, Fresh
  <1>4. RunInv(t)'
    BY <1>1, <1>2 DEF RunInv, Fresh, Busy
  <1>5. ASSUME ~twice', ~TornCommands PROVE TokenInv(t)'
    <2>1. TokenInv(t)
      BY <1>2, <1>5 DEF ReportsGrow
    <2>2. ASSUME NEW m \in From(t)', m.status \in Resolution PROVE m.status \in reported'[current_run[t]]
      <3>1. m \in From(t) /\ m.status \in reported[current_run[t]]
        BY <1>1, <2>1, <2>2 DEF TokenInv
      <3>2. m.status \notin {"init", "broken"}
        BY <2>2, Numbers
      <3>3. current_run[t] \in Run
        BY <1>2, <3>1, <3>2 DEF RunInv, FreshInv
      <3> QED
        BY <3>1, <3>3 DEF ReportsGrow
    <2> QED
      BY <1>1, <2>1, <2>2 DEF TokenInv, Idle
  <1> QED
    BY <1>3, <1>4, <1>5 DEF SlaveInv

\* At the beginning nobody has a run and no message waits.
LEMMA InitInv == Init => Inv
  <1> SUFFICES ASSUME Init PROVE Inv
    OBVIOUS
  <1>1. ResultTypes /\ SlaveTypes
    <2>1. <<>> \in Seq(Run) /\ <<>> \in Seq(Message) /\ <<>> \in Seq(Run \cup {Shutdown})
      OBVIOUS
    <2>2. ResultTypes
      BY <2>1 DEF Init, ResultTypes, ExitStatus
    <2>3. /\ inbox \in Seq(Message) /\ orders \in [Slave -> Seq(Run \cup {Shutdown})]
          /\ reported \in [Run -> SUBSET Resolution] /\ twice \in BOOLEAN
      BY <2>1 DEF Init
    <2>4. /\ state \in [Slave -> State] /\ current_run \in [Slave -> Run \cup {NoRun}]
          /\ process \in [Slave -> Process] /\ job \in [Slave -> Run \cup {NoRun}]
      BY DEF Init, State, Process
    <2> QED
      BY <2>2, <2>3, <2>4 DEF SlaveTypes
  <1>2. Resolved = {}
    BY DEF Init, Resolved
  <1>3. \A r \in Run : /\ {i \in DOMAIN failed_runs : failed_runs[i] = r} = {}
                       /\ {i \in DOMAIN error_runs : error_runs[i] = r} = {}
    BY DEF Init
  <1>4. ResultsCountedOnce /\ OfItsRun
    <2>1. Cardinality({}) = 0
      BY FS_EmptySet
    <2>2. \A r \in Run : exit_status[r] = "MC_RUN_INCOMPLETE"
      BY DEF Init
    <2> QED
      BY <1>2, <1>3, <2>1, <2>2 DEF Init, ResultsCountedOnce, OfItsRun, ResultOfItsRun
  <1>5. ASSUME NEW s \in Slave PROVE SlaveInv(s)
    <2>1. From(s) = {} /\ Single(s)
      BY DEF Init, From, Single, ToSet
    <2>2. state[s] = "MC_UNINITIALIZED" /\ process[s] = "none" /\ orders[s] = <<>>
      BY DEF Init
    <2> QED
      BY <2>1, <2>2 DEF SlaveInv, FreshInv, RunInv, TokenInv, Fresh, Idle, Busy
  <1> QED
    BY <1>1, <1>4, <1>5 DEF Inv, Init

\* What the invariant is about.
view == <<exit_status, num_results, failed_runs, error_runs, state, current_run, inbox, process, job, orders,
          reported, twice>>

\* The steps that change nothing of it.
LEMMA QuietInv ==
  ASSUME Inv, UNCHANGED view, pc' # "done" => pc # "done",
         pc' = "connect" => slave_index' \in Slave /\ Chosen(slave_index')
  PROVE  Inv'
  <1>1. ResultTypes' /\ ResultsCountedOnce' /\ OfItsRun'
    BY ResultsKept DEF Inv, view, ResultsSame
  <1>2. SlaveTypes'
    BY DEF Inv, view, SlaveTypes
  <1>3. \A s \in Slave : SlaveInv(s) => SlaveInv(s)'
    BY DEF view, SlaveInv, FreshInv, RunInv, TokenInv, Fresh, Idle, Busy, From, Single
  <1>4. pc' = "connect" => slave_index' \in Slave /\ Chosen(slave_index)'
    BY DEF view, Chosen, Idle, Fresh
  <1> QED
    BY <1>1, <1>2, <1>3, <1>4 DEF Inv

\* The steps of the master that leave the slaves and the results alone.
LEMMA QuietStepsInv ==
  ASSUME Inv,
         \/ NothingToReceive \/ TimeoutsChecked \/ SkipRun \/ DispatchNothing
         \/ \E s \in Slave : NextDispatch(s)
         \/ \E run \in Run : DispatchEndOfFile(run)
  PROVE  Inv'
  <1>1. CASE NothingToReceive \/ TimeoutsChecked \/ SkipRun \/ DispatchNothing
    <2>1. UNCHANGED view /\ pc' # "connect" /\ (pc' # "done" => pc # "done")
      BY <1>1 DEF NothingToReceive, TimeoutsChecked, SkipRun, DispatchNothing, Goto, view, runVars, slaveVars
    <2> QED
      BY <2>1, QuietInv
  <1>2. CASE \E run \in Run : DispatchEndOfFile(run)
    <2>1. UNCHANGED view /\ pc' # "connect" /\ (pc' # "done" => pc # "done")
      BY <1>2 DEF DispatchEndOfFile, Goto, view, slaveVars
    <2> QED
      BY <2>1, QuietInv
  <1>3. CASE \E s \in Slave : NextDispatch(s)
    <2>1. PICK s \in Slave : NextDispatch(s)
      BY <1>3
    <2>2. UNCHANGED view /\ pc # "done" /\ slave_index' = s /\ Chosen(s)
      BY <2>1 DEF NextDispatch, GetReadySlave, view, runVars, slaveVars, Chosen, Idle, Fresh
    <2> QED
      BY <2>2, QuietInv
  <1> QED
    BY <1>1, <1>2, <1>3

\* A slave that is spawned owes its first message.
LEMMA SpawnSlavesInv == Inv /\ SpawnSlaves => Inv'
  <1> SUFFICES ASSUME Inv, SpawnSlaves PROVE Inv'
    OBVIOUS
  <1>0. /\ pc = "spawn" /\ pc' = "receive"
        /\ state' = [s \in Slave |-> IF state[s] = "MC_UNINITIALIZED" THEN "MC_INITIALIZING" ELSE state[s]]
        /\ process' = [s \in Slave |-> IF state[s] = "MC_UNINITIALIZED" THEN "starting" ELSE process[s]]
        /\ UNCHANGED <<exit_status, num_results, failed_runs, error_runs, current_run, inbox, job, orders,
                       reported, twice>>
    BY DEF SpawnSlaves, Goto, runVars
  <1>1. ResultTypes' /\ ResultsCountedOnce' /\ OfItsRun'
    BY <1>0, ResultsKept DEF Inv, ResultsSame
  <1>2. SlaveTypes'
    <2>1. state' \in [Slave -> State] /\ process' \in [Slave -> Process]
      BY <1>0 DEF Inv, SlaveTypes, State, Process
    <2> QED
      BY <1>0, <2>1 DEF Inv, SlaveTypes
  <1>3. ASSUME NEW s \in Slave PROVE SlaveInv(s)'
    <2>1. SlaveInv(s)
      BY <1>0 DEF Inv
    <2>2. From(s)' = From(s) /\ Single(s)' = Single(s)
      BY <1>0 DEF From, Single
    <2>3. CASE state[s] = "MC_UNINITIALIZED"
      <3>1. state'[s] = "MC_INITIALIZING" /\ process'[s] = "starting"
        BY <1>0, <2>3
      <3>2. From(s) = {} /\ orders[s] = <<>> /\ Single(s)
        BY <2>1, <2>3 DEF SlaveInv, FreshInv, Fresh
      <3> QED
        BY <1>0, <2>2, <3>1, <3>2 DEF SlaveInv, FreshInv, RunInv, TokenInv, Fresh, Idle, Busy
    <2>4. CASE state[s] # "MC_UNINITIALIZED"
      <3>1. state'[s] = state[s] /\ process'[s] = process[s]
        BY <1>0, <2>4
      <3> QED
        BY <1>0, <2>1, <2>2, <3>1 DEF SlaveInv, FreshInv, RunInv, TokenInv, Fresh, Idle, Busy
    <2> QED
      BY <2>3, <2>4
  <1> QED
    BY <1>0, <1>1, <1>2, <1>3 DEF Inv

\* The master tells the slaves to go, and hears no more of them.
LEMMA MasterShutdownInv == Inv /\ MasterShutdown => Inv'
  <1> SUFFICES ASSUME Inv, MasterShutdown PROVE Inv'
    OBVIOUS
  <1>0. /\ pc' = "done" /\ state' = [s \in Slave |-> "MC_FINISHED"] /\ inbox' = <<>>
        /\ orders' = [s \in Slave |->
             IF process[s] # "gone" /\ state[s] \notin {"MC_UNINITIALIZED", "MC_INITIALIZING"}
             THEN Append(orders[s], Shutdown) ELSE orders[s]]
        /\ UNCHANGED <<exit_status, num_results, failed_runs, error_runs, current_run, process, job,
                       reported, twice>>
    BY DEF MasterShutdown, Goto, runVars
  <1>1. ResultTypes' /\ ResultsCountedOnce' /\ OfItsRun'
    BY <1>0, ResultsKept DEF Inv, ResultsSame
  <1>2. SlaveTypes'
    <2>1. state' \in [Slave -> State] /\ inbox' \in Seq(Message)
      BY <1>0 DEF State
    <2>2. \A s \in Slave : /\ orders[s] \in Seq(Run \cup {Shutdown})
                           /\ Append(orders[s], Shutdown) \in Seq(Run \cup {Shutdown})
      BY AppendProperties DEF Inv, SlaveTypes
    <2>3. orders' \in [Slave -> Seq(Run \cup {Shutdown})]
      BY <1>0, <2>2
    <2> QED
      BY <1>0, <2>1, <2>3 DEF Inv, SlaveTypes
  <1> QED
    BY <1>0, <1>1, <1>2 DEF Inv

\* What a call of stop_slave or start_slave is about to set: the slave was heard of when the state
\* was tested, and had a run if it is to have one; nobody has moved since unless commands are torn.
CommandInv ==
  /\ command \subseteq Slave \X State
  /\ \A s \in Slave, t \in State : <<s, t>> \in command =>
       /\ ~Fresh(s) /\ \E u \in State : <<u, t>> \in StopTo \cup StartTo
       /\ t \in {"MC_READY", "MC_STOPPED"} \/ current_run[s] \in Run
       /\ TornCommands \/ <<state[s], t>> \in StopTo \cup StartTo

\* The first half of a call leaves everything to the second.
LEMMA TestStateInv ==
  ASSUME Inv, CommandInv, NEW s \in Slave, StopSlave(s) \/ StartSlave(s) PROVE Inv' /\ CommandInv'
  <1>1. PICK t \in State : <<state[s], t>> \in StopTo \cup StartTo /\ command' = {<<s, t>>}
    BY DEF StopSlave, StartSlave, TestState
  <1>2. UNCHANGED view /\ UNCHANGED <<pc, slave_index>> /\ pc # "done"
    BY DEF StopSlave, StartSlave, TestState, view, runVars, slaveVars
  <1>3. Inv'
    BY <1>2, QuietInv DEF Inv
  <1>4. ~Fresh(s) /\ (t \in {"MC_READY", "MC_STOPPED"} \/ current_run[s] \in Run)
    <2>1. RunInv(s)
      BY <1>2 DEF Inv, SlaveInv
    <2> QED
      BY <1>1, <2>1 DEF RunInv, StopTo, StartTo, Fresh, Busy
  <1>5. state[s] \in State
    BY DEF Inv, SlaveTypes
  <1>6. CommandInv'
    BY <1>1, <1>2, <1>4, <1>5 DEF CommandInv, view, Fresh
  <1> QED
    BY <1>3, <1>6

\* A client stops and starts slaves; each has the run it had.
LEMMA SetStateInv == ASSUME Inv, CommandInv, NEW s \in Slave, SetState(s) PROVE Inv' /\ CommandInv'
  <1>0. /\ command' = {}
        /\ UNCHANGED <<pc, slave_index, exit_status, num_results, failed_runs, error_runs, current_run, inbox,
                       process, job, orders, reported, twice>>
    BY DEF SetState, runVars, slaveVars
  <1>1. PICK c \in State : command = {<<s, c>>} /\ state' = [state EXCEPT ![s] = c]
    BY DEF SetState
  <1>2. /\ ~Fresh(s) /\ (\E u \in State : <<u, c>> \in StopTo \cup StartTo)
        /\ c \in {"MC_READY", "MC_STOPPED"} \/ current_run[s] \in Run
        /\ TornCommands \/ <<state[s], c>> \in StopTo \cup StartTo
    BY <1>1 DEF CommandInv
  <1>3. /\ state' \in [Slave -> State] /\ state'[s] = c /\ \A t \in Slave \ {s} : state'[t] = state[t]
    BY <1>1 DEF Inv, SlaveTypes
  <1>4. ~Fresh(s)' /\ c # "MC_UNINITIALIZED" /\ (Busy(s)' => current_run[s] \in Run)
    BY <1>2, <1>3 DEF StopTo, StartTo, Fresh, Busy
  <1>5. TornCommands \/ (Idle(s)' = Idle(s))
    BY <1>2, <1>3 DEF StopTo, StartTo, Idle
  <1>6. ResultTypes' /\ ResultsCountedOnce' /\ OfItsRun'
    BY <1>0, ResultsKept DEF Inv, ResultsSame
  <1>7. SlaveTypes'
    BY <1>0, <1>3 DEF Inv, SlaveTypes
  <1>8. \A t \in Slave : From(t)' = From(t) /\ Single(t)' = Single(t)
    BY <1>0 DEF From, Single
  <1>9. ASSUME pc # "done" PROVE SlaveInv(s)'
    <2>1. FreshInv(s) /\ RunInv(s) /\ (twice \/ TornCommands \/ TokenInv(s))
      BY <1>9 DEF Inv, SlaveInv
    <2>2. FreshInv(s)'
      BY <1>0, <1>2, <1>3, <1>4, <2>1 DEF FreshInv
    <2>3. RunInv(s)'
      BY <1>0, <1>2, <1>4, <1>8, <2>1 DEF RunInv
    <2>4. twice' \/ TornCommands \/ TokenInv(s)'
      BY <1>0, <1>5, <1>8, <2>1 DEF TokenInv
    <2> QED
      BY <2>2, <2>3, <2>4 DEF SlaveInv
  <1>10. ASSUME pc # "done" PROVE \A t \in Slave : SlaveInv(t)'
    <2>1. OthersSame(s) /\ ReportsGrow
      BY <1>0, <1>3, <1>8 DEF OthersSame, ReportsGrow
    <2> QED
      BY <1>0, <1>9, <1>10, <2>1, OneSlave DEF Inv
  <1>11. pc' = "connect" => slave_index' \in Slave /\ Chosen(slave_index)'
    BY <1>0, <1>3, <1>4, <1>5 DEF Inv, Chosen, Idle, Fresh
  <1>12. Inv'
    BY <1>0, <1>6, <1>7, <1>10, <1>11 DEF Inv
  <1> QED
    BY <1>0, <1>12 DEF CommandInv

\* A step of the master or of a slave: no slave is new again, and none loses the run it has.
LEMMA CommandStays ==
  ASSUME CommandInv, command' = command, TornCommands \/ command = {} \/ state' = state,
         \A s \in Slave : /\ Fresh(s)' => Fresh(s)
                          /\ current_run[s] \in Run => current_run'[s] \in Run
  PROVE  CommandInv'
BY DEF CommandInv

\* What the master accepts: a message of the slave, whose other messages stay.
LEMMA AcceptTakes ==
  ASSUME Inv, NEW s \in Slave, NEW status, Accept(s, status)
  PROVE  /\ pc = "receive" /\ pc' = "receive" /\ SlaveInv(s)
         /\ UNCHANGED <<current_run, process, job, orders, reported, twice>>
         /\ inbox' \in Seq(Message) /\ [slave |-> s, status |-> status] \in From(s)
         /\ \A t \in Slave : From(t)' \subseteq From(t) /\ (Single(t) => Single(t)')
         /\ Single(s) => From(s)' = {}
  <1>1. /\ pc = "receive" /\ pc' = "receive" /\ inbox # <<>> /\ inbox' = Tail(inbox)
        /\ Head(inbox) = [slave |-> s, status |-> status]
        /\ UNCHANGED <<current_run, process, job, orders, reported, twice>>
    BY DEF Accept, slaveVars
  <1>2. Head(inbox).slave = s /\ inbox \in Seq(Message)
    BY <1>1 DEF Inv, SlaveTypes
  <1>3. /\ inbox' \in Seq(Message) /\ Head(inbox) \in From(s)
        /\ \A t \in Slave : From(t)' \subseteq From(t) /\ (Single(t) => Single(t)')
        /\ Single(s) => From(s)' = {}
    BY <1>1, <1>2, MessageTaken
  <1> QED
    BY <1>1, <1>3 DEF Inv

\* The first message of a slave.
LEMMA HandleInitializationInv == Inv /\ (\E s \in Slave : HandleInitialization(s)) => Inv'
  <1> SUFFICES ASSUME Inv, NEW s \in Slave, HandleInitialization(s) PROVE Inv'
    OBVIOUS
  <1>1. PICK status \in {"init", "broken"} :
          /\ Accept(s, status) /\ state[s] = "MC_INITIALIZING"
          /\ state' = [state EXCEPT ![s] = IF status = "init" THEN "MC_READY" ELSE "MC_DISCONNECTED"]
          /\ UNCHANGED <<exit_status, num_results, failed_runs, error_runs>>
    BY DEF HandleInitialization
  <1>2. /\ pc = "receive" /\ pc' = "receive" /\ SlaveInv(s)
        /\ UNCHANGED <<current_run, process, job, orders, reported, twice>>
        /\ inbox' \in Seq(Message) /\ [slave |-> s, status |-> status] \in From(s)
        /\ \A t \in Slave : From(t)' \subseteq From(t) /\ (Single(t) => Single(t)')
        /\ Single(s) => From(s)' = {}
    BY <1>1, AcceptTakes
  <1>3. /\ state' \in [Slave -> State] /\ (\A t \in Slave \ {s} : state'[t] = state[t])
        /\ state'[s] \in {"MC_READY", "MC_DISCONNECTED"}
    BY <1>1 DEF Inv, SlaveTypes, State
  <1>4. /\ orders[s] = <<>> /\ process[s] \in {"waiting", "gone"} /\ From(s)' = {} /\ Single(s)'
    BY <1>1, <1>2 DEF SlaveInv, FreshInv, Fresh
  <1>5. ResultTypes' /\ ResultsCountedOnce' /\ OfItsRun'
    BY <1>1, <1>2, ResultsKept DEF Inv, ResultsSame
  <1>6. SlaveTypes'
    BY <1>2, <1>3 DEF Inv, SlaveTypes
  <1>7. SlaveInv(s)'
    BY <1>2, <1>3, <1>4 DEF SlaveInv, FreshInv, RunInv, TokenInv, Fresh, Busy, Idle
  <1>8. \A t \in Slave : SlaveInv(t)'
    <2>1. OthersSame(s) /\ ReportsGrow
      BY <1>2, <1>3 DEF OthersSame, ReportsGrow
    <2> QED
      BY <1>2, <1>7, <2>1, OneSlave DEF Inv
  <1> QED
    BY <1>2, <1>5, <1>6, <1>8 DEF Inv

\* A run for which the master gives up, or that waits to be tried again.
LEMMA HandleRetryKeeps ==
  ASSUME Inv, NEW run \in Run, NEW queue, Unresolved(run), HandleRetry(run, "MC_RUN_TIMED_OUT", queue),
         reported' = reported, twice' = twice
  PROVE  ResultTypes' /\ ResultsCountedOnce' /\ OfItsRun'
  <1>1. CASE MayRetry(run)
    BY <1>1, ResultsKept DEF HandleRetry, Inv, ResultsSame
  <1>2. CASE ~MayRetry(run)
    BY <1>2, ResultGiven, Numbers DEF HandleRetry, Inv
  <1> QED
    BY <1>1, <1>2

\* The report of a run.
LEMMA HandleRunDataInv ==
  Inv /\ (\E s \in Slave : \E status \in Resolution \cup {"broken"} : HandleRunData(s, status)) => Inv'
  <1> SUFFICES ASSUME Inv, NEW s \in Slave, NEW status \in Resolution \cup {"broken"}, HandleRunData(s, status)
               PROVE  Inv'
    OBVIOUS
  <1>1. Accept(s, status) /\ state[s] # "MC_INITIALIZING"
    BY DEF HandleRunData
  <1>2. /\ pc = "receive" /\ pc' = "receive" /\ SlaveInv(s)
        /\ UNCHANGED <<current_run, process, job, orders, reported, twice>>
        /\ inbox' \in Seq(Message) /\ [slave |-> s, status |-> status] \in From(s)
        /\ \A t \in Slave : From(t)' \subseteq From(t) /\ (Single(t) => Single(t)')
        /\ Single(s) => From(s)' = {}
    BY <1>1, AcceptTakes
  <1>3. PICK run : run = current_run[s]
    OBVIOUS
  <1>4. ~Fresh(s) /\ run \in Run
    BY <1>1, <1>2, <1>3 DEF SlaveInv, FreshInv, RunInv, Fresh
  <1>5. /\ state' \in [Slave -> State] /\ (\A t \in Slave \ {s} : state'[t] = state[t])
        /\ ~Fresh(s)'
    <2>1. state' = [state EXCEPT ![s] = "MC_DISCONNECTED"] \/ Answered(s)
      BY DEF HandleRunData
    <2> QED
      BY <1>4, <2>1 DEF Answered, Inv, SlaveTypes, State, Fresh
  <1>6. ResultTypes' /\ ResultsCountedOnce' /\ OfItsRun'
    <2>1. \/ UNCHANGED <<exit_status, num_results, failed_runs, error_runs>>
          \/ Unresolved(run) /\ status \in Outcomes /\ ResolveRun(run, status)
          \/ Unresolved(run) /\ status = "MC_RUN_TIMED_OUT" /\ HandleRetry(run, status, Dequeue(run, runs))
      BY <1>3 DEF HandleRunData
    <2>2. CASE UNCHANGED <<exit_status, num_results, failed_runs, error_runs>>
      BY <1>2, <2>2, ResultsKept DEF Inv, ResultsSame
    <2>3. CASE Unresolved(run) /\ status \in Outcomes /\ ResolveRun(run, status)
      <3>1. status \in Resolution
        BY <2>3, Numbers
      <3>2. status \in reported[run] \/ twice \/ TornCommands
        BY <1>2, <1>3, <3>1 DEF SlaveInv, TokenInv
      <3> QED
        BY <1>2, <1>4, <2>3, <3>1, <3>2, ResultGiven DEF Inv
    <2>4. CASE Unresolved(run) /\ status = "MC_RUN_TIMED_OUT" /\ HandleRetry(run, status, Dequeue(run, runs))
      BY <1>2, <1>4, <2>4, HandleRetryKeeps
    <2> QED
      BY <2>1, <2>2, <2>3, <2>4
  <1>7. SlaveTypes'
    BY <1>2, <1>5 DEF Inv, SlaveTypes
  <1>8. SlaveInv(s)'
    <2>1. FreshInv(s)'
      BY <1>2, <1>4, <1>5 DEF SlaveInv, FreshInv, Fresh
    <2>2. RunInv(s)'
      BY <1>2, <1>3, <1>4 DEF RunInv
    <2>3. ASSUME ~twice, ~TornCommands PROVE TokenInv(s)'
      <3>1. /\ Single(s) /\ process[s] # "running" /\ orders[s] = <<>>
        BY <1>2, <2>3 DEF SlaveInv, TokenInv
      <3> QED
        BY <1>2, <3>1 DEF TokenInv
    <2> QED
      BY <1>2, <2>1, <2>2, <2>3 DEF SlaveInv
  <1>9. \A t \in Slave : SlaveInv(t)'
    <2>1. OthersSame(s) /\ ReportsGrow
      BY <1>2, <1>5 DEF OthersSame, ReportsGrow
    <2> QED
      BY <1>2, <1>8, <2>1, OneSlave DEF Inv
  <1> QED
    BY <1>2, <1>6, <1>7, <1>9 DEF Inv

\* A slave that is too late.
LEMMA CheckTimeoutsInv == Inv /\ (\E s \in Slave : CheckTimeouts(s)) => Inv'
  <1> SUFFICES ASSUME Inv, NEW s \in Slave, CheckTimeouts(s) PROVE Inv'
    OBVIOUS
  <1>0. /\ pc = "timeouts" /\ pc' = "timeouts"
        /\ UNCHANGED <<current_run, inbox, process, job, orders, reported, twice>>
    BY DEF CheckTimeouts, slaveVars
  <1>1. CASE UNCHANGED <<exit_status, num_results, failed_runs, error_runs, state>>
    BY <1>0, <1>1, QuietInv DEF view
  <1>2. CASE /\ state[s] \in {"MC_RUNNING", "MC_STOPPING"} /\ TimedOut(s)
             /\ IF Unresolved(current_run[s])
                THEN HandleRetry(current_run[s], "MC_RUN_TIMED_OUT", runs)
                ELSE UNCHANGED <<runs, exit_status, num_results, failed_runs, error_runs>>
    <2>1. SlaveInv(s)
      BY <1>0 DEF Inv
    <2>2. PICK run : run = current_run[s]
      OBVIOUS
    <2>3. run \in Run
      BY <1>2, <2>1, <2>2 DEF SlaveInv, RunInv, Busy
    <2>4. ResultTypes' /\ ResultsCountedOnce' /\ OfItsRun'
      <3>1. CASE Unresolved(run)
        <4>1. HandleRetry(run, "MC_RUN_TIMED_OUT", runs)
          BY <1>2, <2>2, <3>1
        <4> QED
          BY <1>0, <2>3, <3>1, <4>1, HandleRetryKeeps
      <3>2. CASE ~Unresolved(run)
        BY <1>0, <1>2, <2>2, <3>2, ResultsKept DEF Inv, ResultsSame
      <3> QED
        BY <3>1, <3>2
    <2>5. /\ state' \in [Slave -> State] /\ (\A t \in Slave \ {s} : state'[t] = state[t])
          /\ state'[s] \in {"MC_UNRESPONSIVE_RUNNING", "MC_UNRESPONSIVE_STOPPING"}
      BY <1>2 DEF TimedOut, Inv, SlaveTypes, State
    <2>6. \A t \in Slave : From(t)' = From(t) /\ Single(t)' = Single(t)
      BY <1>0 DEF From, Single
    <2>7. SlaveTypes'
      BY <1>0, <2>5 DEF Inv, SlaveTypes
    <2>8. SlaveInv(s)'
      BY <1>0, <1>2, <2>1, <2>5, <2>6 DEF SlaveInv, FreshInv, RunInv, TokenInv, Fresh, Busy, Idle
    <2>9. \A t \in Slave : SlaveInv(t)'
      <3>1. OthersSame(s) /\ ReportsGrow
        BY <1>0, <2>5, <2>6 DEF OthersSame, ReportsGrow
      <3> QED
        BY <1>0, <2>8, <3>1, OneSlave DEF Inv
    <2> QED
      BY <1>0, <2>4, <2>7, <2>9 DEF Inv
  <1> QED
    BY <1>1, <1>2 DEF CheckTimeouts

\* A run is given to a slave that has none.
LEMMA DispatchRunToSlaveInv == Inv /\ (\E s \in Slave, run \in Run : DispatchRunToSlave(run, s)) => Inv'
  <1> SUFFICES ASSUME Inv, NEW s \in Slave, NEW run \in Run, DispatchRunToSlave(run, s) PROVE Inv'
    OBVIOUS
  <1>0. /\ pc = "connect" /\ pc' = "spawn" /\ slave_index = s
        /\ UNCHANGED <<exit_status, num_results, failed_runs, error_runs, inbox, process, job, reported, twice>>
    BY DEF DispatchRunToSlave, Goto
  <1>1. SlaveInv(s) /\ ~Fresh(s) /\ (TornCommands \/ Idle(s))
    BY <1>0 DEF Inv, Chosen
  <1>2. ResultTypes' /\ ResultsCountedOnce' /\ OfItsRun'
    BY <1>0, ResultsKept DEF Inv, ResultsSame
  <1>3. \A t \in Slave : From(t)' = From(t) /\ Single(t)' = Single(t)
    BY <1>0 DEF From, Single
  <1>4. /\ state \in [Slave -> State] /\ current_run \in [Slave -> Run \cup {NoRun}]
        /\ orders \in [Slave -> Seq(Run \cup {Shutdown})]
    BY DEF Inv, SlaveTypes
  <1>5. ~Fresh(s) /\ process[s] \notin {"none", "starting"}
    BY <1>1 DEF SlaveInv, FreshInv, Idle, Fresh
  <1>6. CASE /\ state' = [state EXCEPT ![s] = "MC_RUNNING"]
             /\ current_run' = [current_run EXCEPT ![s] = run]
             /\ orders' = [orders EXCEPT ![s] = Append(@, run)]
    <2>1. /\ state'[s] = "MC_RUNNING" /\ current_run'[s] = run /\ orders'[s] = Append(orders[s], run)
          /\ \A t \in Slave \ {s} : state'[t] = state[t] /\ current_run'[t] = current_run[t] /\ orders'[t] = orders[t]
      BY <1>4, <1>6
    <2>2. SlaveTypes'
      <3>1. Append(orders[s], run) \in Seq(Run \cup {Shutdown})
        BY <1>4, AppendProperties
      <3>2. orders' \in [Slave -> Seq(Run \cup {Shutdown})]
        BY <1>4, <1>6, <3>1
      <3>3. state' \in [Slave -> State] /\ current_run' \in [Slave -> Run \cup {NoRun}]
        BY <1>4, <1>6 DEF State
      <3> QED
        BY <1>0, <3>2, <3>3 DEF Inv, SlaveTypes
    <2>3. SlaveInv(s)'
      <3>1. FreshInv(s)' /\ RunInv(s)'
        BY <1>0, <1>5, <2>1 DEF FreshInv, RunInv, Fresh, Busy
      <3>2. ASSUME ~twice, ~TornCommands PROVE TokenInv(s)'
        <4>1. Single(s) /\ From(s) = {} /\ process[s] # "running" /\ orders[s] = <<>>
          BY <1>1, <3>2 DEF SlaveInv, TokenInv
        <4>2. orders'[s] = <<run>>
          BY <2>1, <4>1
        <4> QED
          BY <1>0, <1>3, <2>1, <4>1, <4>2 DEF TokenInv, Idle
      <3> QED
        BY <1>0, <3>1, <3>2 DEF SlaveInv
    <2>4. \A t \in Slave : SlaveInv(t)'
      <3>1. OthersSame(s) /\ ReportsGrow
        BY <1>0, <1>3, <2>1 DEF OthersSame, ReportsGrow
      <3> QED
        BY <1>0, <2>3, <3>1, OneSlave DEF Inv
    <2> QED
      BY <1>0, <1>2, <2>2, <2>4 DEF Inv
  <1>7. CASE state' = [state EXCEPT ![s] = "MC_DISCONNECTED"] /\ UNCHANGED <<current_run, orders>>
    <2>1. /\ state'[s] = "MC_DISCONNECTED" /\ state' \in [Slave -> State]
          /\ \A t \in Slave \ {s} : state'[t] = state[t]
      BY <1>4, <1>7 DEF State
    <2>2. SlaveTypes'
      BY <1>0, <1>7, <2>1 DEF Inv, SlaveTypes
    <2>3. SlaveInv(s)'
      BY <1>0, <1>1, <1>3, <1>5, <1>7, <2>1 DEF SlaveInv, FreshInv, RunInv, TokenInv, Fresh, Busy, Idle
    <2>4. \A t \in Slave : SlaveInv(t)'
      <3>1. OthersSame(s) /\ ReportsGrow
        BY <1>0, <1>3, <1>7, <2>1 DEF OthersSame, ReportsGrow
      <3> QED
        BY <1>0, <2>3, <3>1, OneSlave DEF Inv
    <2> QED
      BY <1>0, <1>2, <2>2, <2>4 DEF Inv
  <1> QED
    BY <1>6, <1>7 DEF DispatchRunToSlave

\* The messages of a slave whose only one is sent.
LEMMA SendOne ==
  ASSUME Inv, NEW s \in Slave, NEW status \in Resolution \cup {"init", "broken"},
         inbox' = Append(inbox, [slave |-> s, status |-> status])
  PROVE  /\ inbox' \in Seq(Message)
         /\ From(s)' = From(s) \cup {[slave |-> s, status |-> status]}
         /\ From(s) = {} => Single(s)'
         /\ \A t \in Slave : t # s => From(t)' = From(t) /\ (Single(t) => Single(t)')
  <1>1. PICK m \in Message : m = [slave |-> s, status |-> status] /\ m.slave = s
    BY DEF Message
  <1>2. inbox \in Seq(Message) /\ inbox' = Append(inbox, m)
    BY <1>1 DEF Inv, SlaveTypes
  <1> QED
    BY <1>1, <1>2, MessageSent

\* A slave that sends leaves one message more, broken or not, unless the master has ended.
LEMMA Sent ==
  ASSUME Inv, NEW s \in Slave, NEW status \in Resolution \cup {"init", "broken"}, Send(s, status) \/ Unsent
  PROVE  /\ inbox' \in Seq(Message)
         /\ \A t \in Slave : t # s => From(t)' \subseteq From(t) /\ (Single(t) => Single(t)')
         /\ pc # "done" => /\ From(s)' \in {From(s) \cup {[slave |-> s, status |-> st]} : st \in {status, "broken"}}
                           /\ From(s) = {} => Single(s)'
  <1>1. CASE Unsent
    BY <1>1 DEF Unsent, Inv, SlaveTypes, From, Single
  <1>2. ASSUME NEW st \in {status, "broken"}, inbox' = Append(inbox, [slave |-> s, status |-> st])
        PROVE  /\ inbox' \in Seq(Message)
               /\ \A t \in Slave : t # s => From(t)' \subseteq From(t) /\ (Single(t) => Single(t)')
               /\ From(s)' = From(s) \cup {[slave |-> s, status |-> st]}
               /\ From(s) = {} => Single(s)'
    BY <1>2, SendOne
  <1>3. CASE Send(s, status)
    <2>1. PICK st \in {status, "broken"} : inbox' = Append(inbox, [slave |-> s, status |-> st])
      BY <1>3 DEF Send
    <2> QED
      BY <1>2, <2>1
  <1> QED
    BY <1>1, <1>3

\* A run of which something is reported, if it is a run.
LEMMA Reported ==
  ASSUME reported \in [Run -> SUBSET Resolution], NEW r, NEW status \in Resolution,
         reported' = [reported EXCEPT ![r] = @ \cup {status}]
  PROVE  /\ reported' \in [Run -> SUBSET Resolution]
         /\ \A q \in Run : reported[q] \subseteq reported'[q]
         /\ r \in Run => status \in reported'[r]
  OBVIOUS

\* A step of a slave, which leaves the master as it was.
LEMMA SlaveStep ==
  ASSUME Inv, NEW s \in Slave,
         UNCHANGED <<pc, slave_index, exit_status, num_results, failed_runs, error_runs, state, current_run>>,
         ReportsGrow, SlaveTypes', OthersSame(s), pc # "done" => SlaveInv(s)'
  PROVE  Inv'
  <1>1. ResultTypes' /\ ResultsCountedOnce' /\ OfItsRun'
    BY ResultsKept DEF Inv, ResultsSame, ReportsGrow
  <1>2. pc' # "done" => \A t \in Slave : SlaveInv(t)'
    BY OneSlave DEF Inv
  <1> QED
    BY <1>1, <1>2 DEF Inv, Chosen, Fresh, Idle

\* The steps of a slave: it says that it is ready, ...
LEMMA SlaveInitInv == Inv /\ (\E s \in Slave : SlaveInit(s)) => Inv'
  <1> SUFFICES ASSUME Inv, NEW s \in Slave, SlaveInit(s) PROVE Inv'
    OBVIOUS
  <1>1. /\ UNCHANGED <<pc, slave_index, exit_status, num_results, failed_runs, error_runs, state, current_run,
                       job, orders, reported, twice>>
        /\ process[s] = "starting" /\ (Send(s, "init") \/ Unsent)
        /\ (process' = [process EXCEPT ![s] = "waiting"] \/ process' = [process EXCEPT ![s] = "gone"])
    BY DEF SlaveInit, runVars, BecomeIn
  <1>2. /\ inbox' \in Seq(Message)
        /\ \A t \in Slave : t # s => From(t)' \subseteq From(t) /\ (Single(t) => Single(t)')
        /\ pc # "done" => /\ From(s)' \in {From(s) \cup {[slave |-> s, status |-> st]} : st \in {"init", "broken"}}
                          /\ From(s) = {} => Single(s)'
    BY <1>1, Sent
  <1>3. /\ process' \in [Slave -> Process] /\ process'[s] \in {"waiting", "gone"}
        /\ \A t \in Slave \ {s} : process'[t] = process[t]
    BY <1>1 DEF Inv, SlaveTypes, Process
  <1>4. ReportsGrow /\ SlaveTypes' /\ OthersSame(s)
    BY <1>1, <1>2, <1>3 DEF Inv, SlaveTypes, ReportsGrow, OthersSame
  <1>5. ASSUME pc # "done" PROVE SlaveInv(s)'
    <2>1. FreshInv(s) /\ Fresh(s) /\ From(s) = {} /\ state[s] # "MC_UNINITIALIZED" /\ orders[s] = <<>>
      BY <1>1, <1>5 DEF Inv, SlaveInv, FreshInv
    <2>2. \A m \in From(s)' : m.status \in {"init", "broken"} /\ m.status \notin Resolution
      BY <1>2, <1>5, <2>1, Numbers
    <2> QED
      BY <1>1, <1>2, <1>3, <1>5, <2>1, <2>2 DEF SlaveInv, FreshInv, RunInv, TokenInv, Fresh, Busy, Idle
  <1> QED
    BY <1>1, <1>4, <1>5, SlaveStep

\* ... takes its order, ...
LEMMA ExecuteAsSlaveInv == Inv /\ (\E s \in Slave : ExecuteAsSlave(s)) => Inv'
  <1> SUFFICES ASSUME Inv, NEW s \in Slave, ExecuteAsSlave(s) PROVE Inv'
    OBVIOUS
  <1>1. /\ UNCHANGED <<pc, slave_index, exit_status, num_results, failed_runs, error_runs, state, current_run,
                       inbox, reported, twice>>
        /\ orders[s] # <<>> /\ orders' = [orders EXCEPT ![s] = Tail(@)] /\ process[s] = "waiting"
        /\ \/ process' = [process EXCEPT ![s] = "gone"] /\ job' = job
           \/ /\ Head(orders[s]) # Shutdown /\ process' = [process EXCEPT ![s] = "running"]
              /\ job' = [job EXCEPT ![s] = Head(orders[s])]
    BY DEF ExecuteAsSlave, runVars, BecomeIn
  <1>2. PICK q \in Seq(Run \cup {Shutdown}) : q = orders[s] /\ q # <<>>
    BY <1>1 DEF Inv, SlaveTypes
  <1>3. Tail(q) \in Seq(Run \cup {Shutdown}) /\ Head(q) \in Run \cup {Shutdown}
    BY <1>2, HeadTailProperties
  <1>4. orders' \in [Slave -> Seq(Run \cup {Shutdown})] /\ orders'[s] = Tail(q)
    BY <1>1, <1>2, <1>3 DEF Inv, SlaveTypes
  <1>5. /\ process' \in [Slave -> Process] /\ job' \in [Slave -> Run \cup {NoRun}]
        /\ \/ process'[s] = "gone" /\ job'[s] = job[s]
           \/ process'[s] = "running" /\ job'[s] = Head(q)
        /\ \A t \in Slave \ {s} : process'[t] = process[t] /\ job'[t] = job[t] /\ orders'[t] = orders[t]
    BY <1>1, <1>2, <1>3 DEF Inv, SlaveTypes, Process
  <1>6. \A t \in Slave : From(t)' = From(t) /\ Single(t)' = Single(t)
    BY <1>1 DEF From, Single
  <1>7. ReportsGrow /\ SlaveTypes' /\ OthersSame(s)
    BY <1>1, <1>4, <1>5, <1>6 DEF Inv, SlaveTypes, ReportsGrow, OthersSame
  <1>8. ASSUME pc # "done" PROVE SlaveInv(s)'
    <2>1. SlaveInv(s)
      BY <1>8 DEF Inv
    <2>2. current_run[s] \in Run /\ ~Fresh(s)
      BY <1>1, <2>1 DEF SlaveInv, FreshInv, RunInv
    <2>3. FreshInv(s)' /\ RunInv(s)'
      BY <1>1, <1>5, <2>2 DEF FreshInv, RunInv, Fresh
    <2>4. ASSUME ~twice, ~TornCommands PROVE TokenInv(s)'
      <3>1. TokenInv(s) /\ q = <<current_run[s]>>
        BY <1>2, <2>1, <2>4 DEF SlaveInv, TokenInv
      <3>2. Tail(q) = <<>> /\ Head(q) = current_run[s]
        BY <3>1
      <3> QED
        BY <1>1, <1>2, <1>4, <1>5, <1>6, <3>1, <3>2 DEF TokenInv, Idle
    <2> QED
      BY <1>1, <2>3, <2>4 DEF SlaveInv
  <1> QED
    BY <1>1, <1>7, <1>8, SlaveStep

\* A run ends and is reported, by the child or by its parent.
LEMMA RunReported ==
  ASSUME Inv, NEW s \in Slave, NEW status \in Resolution, NEW to \in {"reported", "waiting", "gone"},
         BecomeIn(s, "running", to), Send(s, status) \/ Unsent,
         reported' = [reported EXCEPT ![job[s]] = @ \cup {status}],
         job' = job \/ job' = [job EXCEPT ![s] = NoRun],
         UNCHANGED <<pc, slave_index, exit_status, num_results, failed_runs, error_runs, state, current_run,
                     orders, twice>>
  PROVE  Inv'
  <1>1. /\ process[s] = "running" /\ process' \in [Slave -> Process] /\ process'[s] = to
        /\ job' \in [Slave -> Run \cup {NoRun}]
        /\ \A t \in Slave \ {s} : process'[t] = process[t] /\ job'[t] = job[t]
    BY DEF BecomeIn, Inv, SlaveTypes, Process
  <1>2. /\ inbox' \in Seq(Message)
        /\ \A t \in Slave : t # s => From(t)' \subseteq From(t) /\ (Single(t) => Single(t)')
        /\ pc # "done" => /\ From(s)' \in {From(s) \cup {[slave |-> s, status |-> st]} : st \in {status, "broken"}}
                          /\ From(s) = {} => Single(s)'
    BY Sent
  <1>3. /\ reported' \in [Run -> SUBSET Resolution]
        /\ \A q \in Run : reported[q] \subseteq reported'[q]
        /\ job[s] \in Run => status \in reported'[job[s]]
    BY Reported DEF Inv, SlaveTypes
  <1>4. ReportsGrow /\ SlaveTypes' /\ OthersSame(s)
    BY <1>1, <1>2, <1>3 DEF Inv, SlaveTypes, ReportsGrow, OthersSame
  <1>5. ASSUME pc # "done" PROVE SlaveInv(s)'
    <2>1. SlaveInv(s)
      BY <1>5 DEF Inv
    <2>2. current_run[s] \in Run /\ ~Fresh(s)
      BY <1>1, <2>1 DEF SlaveInv, FreshInv, RunInv
    <2>3. FreshInv(s)' /\ RunInv(s)'
      BY <1>1, <2>2 DEF FreshInv, RunInv, Fresh
    <2>4. ASSUME ~twice, ~TornCommands PROVE TokenInv(s)'
      <3>1. /\ From(s) = {} /\ orders[s] = <<>> /\ job[s] = current_run[s] /\ ~Idle(s)
        BY <1>1, <2>1, <2>4 DEF SlaveInv, TokenInv
      <3>2. \A m \in From(s)' : m.status \in Resolution => m.status \in reported'[current_run[s]]
        BY <1>2, <1>3, <1>5, <2>2, <3>1, Numbers
      <3> QED
        BY <1>1, <1>2, <1>5, <3>1, <3>2 DEF TokenInv, Idle
    <2> QED
      BY <2>3, <2>4 DEF SlaveInv
  <1> QED
    BY <1>4, <1>5, SlaveStep

\* ... and its child reports the run, ...
LEMMA ChildEndsInv == Inv /\ (\E s \in Slave : ChildEnds(s) \/ ChildTimesOut(s)) => Inv'
  <1> SUFFICES ASSUME Inv, NEW s \in Slave, ChildEnds(s) \/ ChildTimesOut(s) PROVE Inv'
    OBVIOUS
  <1>1. ASSUME NEW status \in Resolution, ChildReports(s, status) PROVE Inv'
    <2>1. /\ BecomeIn(s, "running", "reported") /\ (Send(s, status) \/ Unsent)
          /\ reported' = [reported EXCEPT ![job[s]] = @ \cup {status}] /\ job' = job
          /\ UNCHANGED <<pc, slave_index, exit_status, num_results, failed_runs, error_runs, state, current_run,
                         orders, twice>>
      BY <1>1 DEF ChildReports, runVars
    <2> QED
      BY <2>1, RunReported
  <1>2. ASSUME NEW status \in Resolution, ParentReports(s, "running", status) PROVE Inv'
    <2>1. PICK to \in {"waiting", "gone"} : BecomeIn(s, "running", to) /\ (Send(s, status) \/ Unsent)
      BY <1>2 DEF ParentReports
    <2>2. /\ reported' = [reported EXCEPT ![job[s]] = @ \cup {status}] /\ job' = [job EXCEPT ![s] = NoRun]
          /\ UNCHANGED <<pc, slave_index, exit_status, num_results, failed_runs, error_runs, state, current_run,
                         orders, twice>>
      BY <1>2 DEF ParentReports, runVars
    <2> QED
      BY <2>1, <2>2, RunReported
  <1>3. \E status \in Resolution : ChildReports(s, status) \/ ParentReports(s, "running", status)
    BY Numbers DEF ChildEnds, ChildTimesOut
  <1> QED
    BY <1>1, <1>2, <1>3

\* A slave ends what it does without a report.
LEMMA NothingReported ==
  ASSUME Inv, NEW s \in Slave, NEW to \in {"waiting", "gone"}, process[s] \notin {"none", "gone"},
         to = "waiting" => process[s] \in {"running", "reported"} /\ orders' = orders,
         process' = [process EXCEPT ![s] = to], job' = [job EXCEPT ![s] = NoRun],
         orders' = orders \/ orders' = [orders EXCEPT ![s] = <<>>],
         UNCHANGED <<pc, slave_index, exit_status, num_results, failed_runs, error_runs, state, current_run,
                     inbox, reported, twice>>
  PROVE  Inv'
  <1>1. /\ process' \in [Slave -> Process] /\ process'[s] = to /\ job' \in [Slave -> Run \cup {NoRun}]
        /\ \A t \in Slave \ {s} : process'[t] = process[t] /\ job'[t] = job[t]
    BY DEF Inv, SlaveTypes, Process
  <1>2. /\ orders' \in [Slave -> Seq(Run \cup {Shutdown})] /\ orders'[s] \in {orders[s], <<>>}
        /\ \A t \in Slave \ {s} : orders'[t] = orders[t]
    <2>1. <<>> \in Seq(Run \cup {Shutdown}) /\ orders \in [Slave -> Seq(Run \cup {Shutdown})]
      BY DEF Inv, SlaveTypes
    <2> QED
      BY <2>1
  <1>3. \A t \in Slave : From(t)' = From(t) /\ Single(t)' = Single(t)
    BY DEF From, Single
  <1>4. ReportsGrow /\ SlaveTypes' /\ OthersSame(s)
    BY <1>1, <1>2, <1>3 DEF Inv, SlaveTypes, ReportsGrow, OthersSame
  <1>5. ASSUME pc # "done" PROVE SlaveInv(s)'
    <2>1. SlaveInv(s)
      BY <1>5 DEF Inv
    <2>2. FreshInv(s)' /\ RunInv(s)'
      BY <1>1, <1>2, <1>3, <2>1 DEF SlaveInv, FreshInv, RunInv, Fresh, Busy
    <2>3. TokenInv(s) => TokenInv(s)'
      BY <1>1, <1>2, <1>3 DEF TokenInv, Idle
    <2> QED
      BY <2>1, <2>2, <2>3 DEF SlaveInv
  <1> QED
    BY <1>4, <1>5, SlaveStep

\* ... leaves, or takes the slave with it, ...
LEMMA ChildLeavesInv == Inv /\ (\E s \in Slave : ChildExits(s) \/ ChildExitsSilently(s) \/ SlaveDies(s)) => Inv'
  <1> SUFFICES ASSUME Inv, NEW s \in Slave, ChildExits(s) \/ ChildExitsSilently(s) \/ SlaveDies(s) PROVE Inv'
    OBVIOUS
  <1>1. /\ job' = [job EXCEPT ![s] = NoRun]
        /\ UNCHANGED <<pc, slave_index, exit_status, num_results, failed_runs, error_runs, state, current_run,
                       inbox, reported, twice>>
    BY DEF ChildExits, ChildExitsSilently, SlaveDies, runVars
  <1>2. CASE ChildExits(s) \/ ChildExitsSilently(s)
    <2>1. /\ process[s] \in {"running", "reported"} /\ process' = [process EXCEPT ![s] = "waiting"]
          /\ orders' = orders
      BY <1>2 DEF ChildExits, ChildExitsSilently, BecomeIn
    <2> QED
      BY <1>1, <2>1, NothingReported
  <1>3. CASE SlaveDies(s)
    <2>1. /\ process[s] \notin {"none", "gone"} /\ process' = [process EXCEPT ![s] = "gone"]
          /\ orders' = [orders EXCEPT ![s] = <<>>]
      BY <1>3 DEF SlaveDies
    <2> QED
      BY <1>1, <2>1, NothingReported
  <1> QED
    BY <1>2, <1>3

\* ... or is killed after its report, which is then repeated.
LEMMA ChildDiesLateInv == Inv /\ (\E s \in Slave : ChildDiesLate(s)) => Inv'
  <1> SUFFICES ASSUME Inv, NEW s \in Slave, ChildDiesLate(s) PROVE Inv'
    OBVIOUS
  <1>1. PICK status \in {"MC_RUN_TIMED_OUT", "MC_RUN_DUMPED_CORE"} :
          /\ inbox' = Append(inbox, [slave |-> s, status |-> status])
          /\ reported' = [reported EXCEPT ![job[s]] = @ \cup {status}]
    BY DEF ChildDiesLate
  <1>2. /\ UNCHANGED <<pc, slave_index, exit_status, num_results, failed_runs, error_runs, state, current_run,
                       orders>>
        /\ twice' = TRUE /\ pc # "done" /\ process[s] = "reported"
        /\ process' = [process EXCEPT ![s] = "waiting"] /\ job' = [job EXCEPT ![s] = NoRun]
    BY DEF ChildDiesLate, BecomeIn, runVars
  <1>3. status \in Resolution
    BY DEF Resolution
  <1>4. /\ inbox' \in Seq(Message)
        /\ \A t \in Slave : t # s => From(t)' = From(t) /\ (Single(t) => Single(t)')
    BY <1>1, <1>3, SendOne
  <1>5. reported' \in [Run -> SUBSET Resolution] /\ \A q \in Run : reported[q] \subseteq reported'[q]
    BY <1>1, <1>3, Reported DEF Inv, SlaveTypes
  <1>6. /\ process' \in [Slave -> Process] /\ process'[s] = "waiting" /\ job' \in [Slave -> Run \cup {NoRun}]
        /\ \A t \in Slave \ {s} : process'[t] = process[t] /\ job'[t] = job[t]
    BY <1>2 DEF Inv, SlaveTypes, Process
  <1>7. ReportsGrow /\ SlaveTypes' /\ OthersSame(s)
    BY <1>2, <1>4, <1>5, <1>6 DEF Inv, SlaveTypes, ReportsGrow, OthersSame
  <1>8. SlaveInv(s)'
    <2>1. current_run[s] \in Run /\ ~Fresh(s)
      BY <1>2 DEF Inv, SlaveInv, FreshInv, RunInv
    <2> QED
      BY <1>2, <1>6, <2>1 DEF SlaveInv, FreshInv, RunInv, Fresh
  <1> QED
    BY <1>2, <1>7, <1>8, SlaveStep

(***************************************************************************)
(* The theorems.                                                           *)
(***************************************************************************)
\* To the master no slave is new again, and none loses the run it has.
LEMMA MasterKeeps ==
  ASSUME Inv, MasterSteps
  PROVE  \A s \in Slave : /\ Fresh(s)' => Fresh(s)
                          /\ current_run[s] \in Run => current_run'[s] \in Run
  <1> USE DEF Fresh
  <1>0. state \in [Slave -> State] /\ current_run \in [Slave -> Run \cup {NoRun}]
    BY DEF Inv, SlaveTypes
  <1>1. CASE \/ NothingToReceive \/ TimeoutsChecked \/ SkipRun \/ DispatchNothing
             \/ (\E s \in Slave : NextDispatch(s)) \/ \E run \in Run : DispatchEndOfFile(run)
    <2>1. UNCHANGED <<state, current_run>>
      BY <1>1 DEF NothingToReceive, TimeoutsChecked, SkipRun, DispatchNothing, NextDispatch, DispatchEndOfFile
    <2> QED
      BY <2>1
  <1>2. CASE SpawnSlaves \/ MasterShutdown
    BY <1>0, <1>2 DEF SpawnSlaves, MasterShutdown
  <1>3. CASE \E s \in Slave : HandleInitialization(s)
    <2>1. PICK s \in Slave, c \in State : state' = [state EXCEPT ![s] = c] /\ current_run' = current_run
                                         /\ c \notin {"MC_UNINITIALIZED", "MC_INITIALIZING"}
      BY <1>3 DEF HandleInitialization, Accept, State
    <2> QED
      BY <1>0, <2>1
  <1>4. CASE \E s \in Slave : CheckTimeouts(s)
    <2>1. PICK s \in Slave : CheckTimeouts(s)
      BY <1>4
    <2>2. current_run' = current_run /\ (state' = state \/ TimedOut(s))
      BY <2>1 DEF CheckTimeouts
    <2> QED
      BY <1>0, <2>2 DEF TimedOut
  <1>5. CASE \E s \in Slave : \E status \in Resolution \cup {"broken"} : HandleRunData(s, status)
    <2>1. PICK s \in Slave : \E status \in Resolution \cup {"broken"} : HandleRunData(s, status)
      BY <1>5
    <2>2. current_run' = current_run /\ (state' = [state EXCEPT ![s] = "MC_DISCONNECTED"] \/ Answered(s))
      BY <2>1 DEF HandleRunData, Accept
    <2> QED
      BY <1>0, <2>2 DEF Answered
  <1>6. CASE \E s \in Slave, run \in Run : DispatchRunToSlave(run, s)
    <2>1. PICK s \in Slave, run \in Run : DispatchRunToSlave(run, s)
      BY <1>6
    <2>2. \/ state' = [state EXCEPT ![s] = "MC_RUNNING"] /\ current_run' = [current_run EXCEPT ![s] = run]
          \/ state' = [state EXCEPT ![s] = "MC_DISCONNECTED"] /\ current_run' = current_run
      BY <2>1 DEF DispatchRunToSlave
    <2> QED
      BY <1>0, <2>2
  <1> QED
    BY <1>1, <1>2, <1>3, <1>4, <1>5, <1>6, Zenon DEF MasterSteps

\* Every step keeps the invariant.
LEMMA InvNext == Inv /\ CommandInv /\ [Next]_vars => Inv' /\ CommandInv'
  <1> SUFFICES ASSUME Inv, CommandInv, [Next]_vars PROVE Inv' /\ CommandInv'
    OBVIOUS
  <1>1. CASE Master
    <2>1. \/ SpawnSlaves \/ MasterShutdown
          \/ NothingToReceive \/ TimeoutsChecked \/ SkipRun \/ DispatchNothing
          \/ \E s \in Slave : NextDispatch(s)
          \/ \E run \in Run : DispatchEndOfFile(run)
          \/ \E s \in Slave : HandleInitialization(s)
          \/ \E s \in Slave : CheckTimeouts(s)
          \/ \E s \in Slave : \E status \in Resolution \cup {"broken"} : HandleRunData(s, status)
          \/ \E s \in Slave, run \in Run : DispatchRunToSlave(run, s)
      BY <1>1, Zenon DEF Master, MasterSteps
    <2>2. Inv'
      BY <2>1, SpawnSlavesInv, MasterShutdownInv, QuietStepsInv, HandleInitializationInv, CheckTimeoutsInv,
         HandleRunDataInv, DispatchRunToSlaveInv, Zenon
    <2>3. MasterSteps /\ command' = command /\ (TornCommands \/ command = {})
      BY <1>1 DEF Master
    <2>4. \A s \in Slave : /\ Fresh(s)' => Fresh(s)
                           /\ current_run[s] \in Run => current_run'[s] \in Run
      BY <2>3, MasterKeeps
    <2>5. CommandInv'
      BY <2>3, <2>4, CommandStays
    <2> QED
      BY <2>2, <2>5
  <1>2. CASE Client
    BY <1>2, TestStateInv, SetStateInv DEF Client
  <1>3. CASE \E s \in Slave : SlaveSteps(s) \/ SlaveFails(s)
    <2>1. \/ \E s \in Slave : SlaveInit(s)
          \/ \E s \in Slave : ExecuteAsSlave(s)
          \/ \E s \in Slave : ChildEnds(s) \/ ChildTimesOut(s)
          \/ \E s \in Slave : ChildExits(s) \/ ChildExitsSilently(s) \/ SlaveDies(s)
          \/ \E s \in Slave : ChildDiesLate(s)
      BY <1>3, Zenon DEF SlaveSteps, SlaveFails
    <2>2. Inv'
      BY <2>1, SlaveInitInv, ExecuteAsSlaveInv, ChildEndsInv, ChildLeavesInv, ChildDiesLateInv, Zenon
    <2>3. command' = command
      BY <1>3 DEF SlaveSteps, SlaveFails
    <2>4. UNCHANGED <<state, current_run>>
      BY <2>1 DEF SlaveInit, ExecuteAsSlave, ChildEnds, ChildReports, ParentReports, ChildExits, ChildTimesOut,
         ChildDiesLate, ChildExitsSilently, SlaveDies
    <2>5. CommandInv'
      BY <2>3, <2>4, CommandStays DEF Fresh
    <2> QED
      BY <2>2, <2>5
  <1>4. CASE UNCHANGED vars
    <2>1. UNCHANGED view /\ UNCHANGED <<pc, slave_index, command, state, current_run>>
      BY <1>4 DEF vars, view, runVars, slaveVars
    <2>2. Inv'
      BY <2>1, QuietInv DEF Inv
    <2>3. CommandInv'
      BY <2>1, CommandStays DEF Fresh
    <2> QED
      BY <2>2, <2>3
  <1> QED
    BY <1>1, <1>2, <1>3, <1>4 DEF Next

\* Inv holds in every behaviour: among the rest, of a slave that has never reported twice no two
\* messages wait, and none while its child runs (dispatch_run_to_slave, execute_as_slave), as long as
\* the master does not move between the test and the assignment of stop_slave and start_slave.
THEOREM SlavesInStep == Spec => [](Inv /\ CommandInv)
<1>1. Init => Inv /\ CommandInv
  BY InitInv DEF Init, CommandInv
<1>2. Inv /\ CommandInv /\ [Next]_vars => Inv' /\ CommandInv'
  BY InvNext
<1> QED
  BY <1>1, <1>2, PTL DEF Spec

\* ResultsCountedOnce holds in every behaviour: num_results is the number of the runs that have a
\* result, and a run is at most once in failed_runs and error_runs (handle_run_data, resolve_run),
\* whatever a client sets the states of the slaves to.
THEOREM ResultsAreCountedOnce == Spec => []ResultsCountedOnce
<1>1. Inv => ResultsCountedOnce
  BY DEF Inv
<1> QED
  BY <1>1, SlavesInStep, PTL

\* ResultOfItsRun holds in every behaviour in which the master does not move between the test and the
\* assignment of stop_slave and start_slave: a result that a slave sends late is never taken for
\* the result of the run it has been given since (handle_run_data goes by current_run).
THEOREM ResultIsOfItsRun == ASSUME ~TornCommands PROVE Spec => []ResultOfItsRun
<1>1. Inv => ResultOfItsRun
  BY DEF Inv, OfItsRun
<1> QED
  BY <1>1, SlavesInStep, PTL

--------------------------------------------------------------------------------
(***************************************************************************)
(* The queue of the runs.                                                  *)
(***************************************************************************)
\* Every set of numbers that is not empty has a least one.
LEMMA LeastNumber ==
  ASSUME NEW T, T \subseteq Nat, T # {}
  PROVE  \E x \in T : \A y \in T : x <= y
<1> DEFINE R == OpToRel(<, Nat)
<1>1. IsWellFoundedOn(R, Nat)
  BY NatLessThanWellFounded
<1>2. \A x, y \in Nat : <<x, y>> \in R <=> x < y
  BY DEF OpToRel
<1> HIDE DEF R
<1>3. PICK x \in T : \A y \in T : ~(<<y, x>> \in R)
  BY <1>1, WFMin
<1>4. ASSUME NEW y \in T PROVE x <= y
  <2>1. x \in Nat /\ y \in Nat
    OBVIOUS
  <2>2. ~(<<y, x>> \in R)
    BY <1>3
  <2> QED
    BY <1>2, <2>1, <2>2
<1> QED
  BY <1>4

\* push_back: the runs of the queue are those there were and the new one.
LEMMA PushedBack ==
  ASSUME NEW q \in Seq(Run), NEW r \in Run
  PROVE  /\ Append(q, r) \in Seq(Run) /\ ToSet(Append(q, r)) = ToSet(q) \cup {r}
         /\ IsInjective(q) /\ r \notin ToSet(q) => IsInjective(Append(q, r))
<1> DEFINE p == Append(q, r)
           n == Len(q)
<1>1. p \in Seq(Run) /\ Len(p) = n + 1 /\ p[n + 1] = r /\ \A k \in 1 .. n : p[k] = q[k]
  OBVIOUS
<1>2. n \in Nat /\ DOMAIN q = 1 .. n /\ DOMAIN p = 1 .. n + 1
  OBVIOUS
<1> HIDE DEF p, n
<1>3. ASSUME IsInjective(q), r \notin ToSet(q) PROVE IsInjective(p)
  <2>1. \A k \in 1 .. n : q[k] # r
    BY <1>2, <1>3 DEF ToSet
  <2>2. ASSUME NEW k \in 1 .. n + 1, NEW m \in 1 .. n + 1, k < m PROVE p[k] # p[m]
    <3>1. k \in 1 .. n
      BY <1>2, <2>2
    <3>2. CASE m = n + 1
      BY <1>1, <2>1, <3>1, <3>2
    <3>3. CASE m # n + 1
      <4>1. m \in 1 .. n /\ k # m
        BY <1>2, <2>2, <3>3
      <4> QED
        BY <1>1, <1>2, <1>3, <3>1, <4>1 DEF IsInjective
    <3> QED
      BY <3>2, <3>3
  <2> QED
    BY <1>2, <2>2 DEF IsInjective
<1>4. ToSet(p) = ToSet(q) \cup {r}
  <2>1. 1 .. n + 1 = (1 .. n) \cup {n + 1}
    BY <1>2
  <2> QED
    BY <1>1, <1>2, <2>1 DEF ToSet
<1> QED
  BY <1>1, <1>3, <1>4 DEF p

\* The queue that is left when its last runs are deleted.
LEMMA CutBack ==
  ASSUME NEW q \in Seq(Run), NEW n \in 0 .. Len(q)
  PROVE  /\ SubSeq(q, 1, n) \in Seq(Run)
         /\ ToSet(q) = ToSet(SubSeq(q, 1, n)) \cup {q[i] : i \in n + 1 .. Len(q)}
         /\ IsInjective(q) => IsInjective(SubSeq(q, 1, n))
         /\ n > 0 => Head(SubSeq(q, 1, n)) = Head(q)
<1> DEFINE p == SubSeq(q, 1, n)
<1>1. n \in Nat /\ Len(q) \in Nat /\ n <= Len(q) /\ DOMAIN q = 1 .. Len(q) /\ n \in 1 - 1 .. Len(q)
  OBVIOUS
<1>2. p \in Seq(Run) /\ Len(p) = n /\ (\A i \in 1 .. n : p[i] = q[i]) /\ DOMAIN p = 1 .. n
  BY <1>1
<1> HIDE DEF p
<1>3. 1 .. Len(q) = (1 .. n) \cup (n + 1 .. Len(q))
  BY <1>1
<1>4. ToSet(q) = ToSet(p) \cup {q[i] : i \in n + 1 .. Len(q)}
  BY <1>1, <1>2, <1>3 DEF ToSet
<1>5. IsInjective(q) => IsInjective(p)
  BY <1>1, <1>2, <1>3 DEF IsInjective
<1>6. n > 0 => Head(p) = Head(q)
  <2>1. n > 0 => 1 \in 1 .. n /\ Head(p) = p[1] /\ Head(q) = q[1]
    BY <1>1, <1>2
  <2> QED
    BY <1>2, <2>1
<1> QED
  BY <1>2, <1>4, <1>5, <1>6 DEF p

\* f is what the loop of dequeue_run has kept after each run it looked at.
LoopOf(f, run, q) ==
  /\ Dequeue(run, q) = f[Len(q)].kept
  /\ \A n \in 0 .. Len(q) :
       f[n] = IF n = 0 THEN [kept |-> <<>>, skip |-> FALSE] ELSE DequeueStep(run, f[n - 1], q[n])

\* The loop ends.
LEMMA DequeueLoop ==
  ASSUME NEW run, NEW q \in Seq(Run)
  PROVE  \E f : LoopOf(f, run, q)
<1> DEFINE e == [kept |-> <<>>, skip |-> FALSE]
           Loop(m) == \E f : f = [n \in 0 .. m |-> IF n = 0 THEN e ELSE DequeueStep(run, f[n - 1], q[n])]
           T == {m \in Nat : ~Loop(m)}
           F == CHOOSE f : f = [n \in 0 .. Len(q) |->
                                  IF n = 0 THEN e ELSE DequeueStep(run, f[n - 1], q[n])]
<1>1. SUFFICES ASSUME T # {} PROVE FALSE
  <2>1. Len(q) \in Nat
    OBVIOUS
  <2>2. CASE T = {}
    <3>1. Loop(Len(q))
      BY <2>1, <2>2
    <3>2. F = [n \in 0 .. Len(q) |-> IF n = 0 THEN e ELSE DequeueStep(run, F[n - 1], q[n])]
      BY <3>1, Zenon
    <3>3. Dequeue(run, q) = F[Len(q)].kept
      BY DEF Dequeue
    <3> HIDE DEF F, Loop, T
    <3>4. \A n \in 0 .. Len(q) : F[n] = IF n = 0 THEN e ELSE DequeueStep(run, F[n - 1], q[n])
      BY <3>2
    <3>5. LoopOf(F, run, q)
      BY <3>3, <3>4 DEF LoopOf
    <3> QED
      BY <3>5
  <2> QED
    BY <2>2
<1>2. PICK m \in T : \A k \in T : m <= k
  BY <1>1, LeastNumber
<1>3. m # 0
  <2>1. [n \in 0 .. 0 |-> e] =
          [n \in 0 .. 0 |-> IF n = 0 THEN e ELSE DequeueStep(run, [k \in 0 .. 0 |-> e][n - 1], q[n])]
    OBVIOUS
  <2>2. Loop(0)
    BY <2>1
  <2> QED
    BY <2>2
<1>4. m - 1 \in Nat /\ m - 1 \notin T
  <2>1. m \in Nat
    OBVIOUS
  <2> HIDE DEF T
  <2> QED
    BY <1>2, <1>3, <2>1
<1>5. PICK f : f = [n \in 0 .. m - 1 |-> IF n = 0 THEN e ELSE DequeueStep(run, f[n - 1], q[n])]
  BY <1>4
<1> HIDE DEF e
<1> DEFINE g == [n \in 0 .. m |-> IF n < m THEN f[n] ELSE DequeueStep(run, f[m - 1], q[m])]
<1>6. ASSUME NEW n \in 0 .. m PROVE g[n] = IF n = 0 THEN e ELSE DequeueStep(run, g[n - 1], q[n])
  <2>0. m \in Nat /\ n \in Nat
    OBVIOUS
  <2>1. CASE n < m
    <3>1. n \in 0 .. m - 1
      BY <2>0, <2>1
    <3>2. f[n] = IF n = 0 THEN e ELSE DequeueStep(run, f[n - 1], q[n])
      BY <1>5, <3>1
    <3>3. g[n] = f[n] /\ (n # 0 => g[n - 1] = f[n - 1])
      BY <2>0, <2>1
    <3> HIDE DEF g
    <3> QED
      BY <3>2, <3>3
  <2>2. CASE n = m
    <3>1. g[m] = DequeueStep(run, f[m - 1], q[m]) /\ g[m - 1] = f[m - 1]
      BY <1>3, <2>0
    <3> HIDE DEF g
    <3> QED
      BY <1>3, <2>2, <3>1
  <2> QED
    BY <2>0, <2>1, <2>2
<1>7. g = [n \in 0 .. m |-> IF n = 0 THEN e ELSE DequeueStep(run, g[n - 1], q[n])]
  BY <1>6
<1>8. Loop(m)
  BY <1>7
<1> QED
  BY <1>8

\* The loop, after n runs: the others are kept, and all copies but one that follows one are erased.
Dequeued(a, run, q, n) ==
  /\ a.kept \in Seq(Run)
  /\ ToSet(a.kept) \subseteq {q[i] : i \in 1 .. n} /\ {q[i] : i \in 1 .. n} \ {run} \subseteq ToSet(a.kept)
  /\ IsInjective(q) => /\ IsInjective(a.kept) /\ run \notin ToSet(a.kept)
                       /\ a.skip => n # 0 /\ q[n] = run

\* The empty queue.
LEMMA EmptyQueue == <<>> \in Seq(Run) /\ ToSet(<<>>) = {} /\ IsInjective(<<>>)
BY DEF ToSet, IsInjective

\* dequeue_run keeps all runs but the one it is called for; that one is gone if it was there once.
LEMMA DequeueKeeps ==
  ASSUME NEW q \in Seq(Run), NEW run
  PROVE  /\ Dequeue(run, q) \in Seq(Run)
         /\ ToSet(Dequeue(run, q)) \subseteq ToSet(q) /\ ToSet(q) \ {run} \subseteq ToSet(Dequeue(run, q))
         /\ IsInjective(q) => IsInjective(Dequeue(run, q)) /\ run \notin ToSet(Dequeue(run, q))
<1>0. PICK f : LoopOf(f, run, q)
  BY DequeueLoop
<1>1. /\ Dequeue(run, q) = f[Len(q)].kept
      /\ \A n \in 0 .. Len(q) :
           f[n] = IF n = 0 THEN [kept |-> <<>>, skip |-> FALSE] ELSE DequeueStep(run, f[n - 1], q[n])
  BY <1>0 DEF LoopOf
<1>2. Len(q) \in Nat /\ DOMAIN q = 1 .. Len(q) /\ \A i \in 1 .. Len(q) : q[i] \in Run
  OBVIOUS
<1> DEFINE T == {n \in Nat : n <= Len(q) /\ ~Dequeued(f[n], run, q, n)}
<1>3. T = {}
  <2> SUFFICES ASSUME T # {} PROVE FALSE
    OBVIOUS
  <2>1. PICK m \in T : \A k \in T : m <= k
    BY LeastNumber
  <2>2. m # 0
    <3>1. f[0] = [kept |-> <<>>, skip |-> FALSE] /\ 1 .. 0 = {}
      BY <1>1, <1>2
    <3>2. Dequeued(f[0], run, q, 0)
      BY <3>1, EmptyQueue DEF Dequeued
    <3> QED
      BY <3>2
  <2>3. m \in 1 .. Len(q) /\ m \in Nat /\ m - 1 \in Nat /\ m - 1 <= Len(q) /\ m - 1 \notin T
    BY <1>2, <2>1, <2>2
  <2>4. Dequeued(f[m - 1], run, q, m - 1)
    BY <2>3
  <2> DEFINE a == f[m - 1]
             r == q[m]
  <2>5. f[m] = DequeueStep(run, a, r)
    <3>1. m \in 0 .. Len(q)
      BY <2>3
    <3> QED
      BY <1>1, <2>2, <3>1
  <2>6. {q[i] : i \in 1 .. m} = {q[i] : i \in 1 .. m - 1} \cup {r} /\ r \in Run
    <3>1. 1 .. m = (1 .. m - 1) \cup {m}
      BY <2>3
    <3> QED
      BY <1>2, <2>3, <3>1
  <2>7. ASSUME IsInjective(q) PROVE r \notin {q[i] : i \in 1 .. m - 1}
    <3>1. ASSUME NEW i \in 1 .. m - 1 PROVE q[i] # r
      <4>1. i \in 1 .. Len(q) /\ i # m
        BY <1>2, <2>3
      <4> QED
        BY <1>2, <2>3, <2>7, <4>1 DEF IsInjective
    <3> QED
      BY <3>1
  <2>8. a.skip /\ IsInjective(q) => r # run
    <3> SUFFICES ASSUME a.skip, IsInjective(q) PROVE r # run
      OBVIOUS
    <3>1. m - 1 # 0 /\ q[m - 1] = run
      BY <2>4 DEF Dequeued
    <3>2. m - 1 \in 1 .. Len(q) /\ m - 1 # m
      BY <2>3, <3>1
    <3> QED
      BY <1>2, <2>3, <3>1, <3>2 DEF IsInjective
  <2>9. /\ a.kept \in Seq(Run)
        /\ ToSet(a.kept) \subseteq {q[i] : i \in 1 .. m - 1} /\ {q[i] : i \in 1 .. m - 1} \ {run} \subseteq ToSet(a.kept)
        /\ IsInjective(q) => IsInjective(a.kept) /\ run \notin ToSet(a.kept)
    BY <2>4 DEF Dequeued
  <2> HIDE DEF a, r, T
  <2>10. CASE r = run /\ ~a.skip
    <3>1. f[m].kept = a.kept
      BY <2>5, <2>10 DEF DequeueStep
    <3>2. q[m] = run
      BY <2>10 DEF r
    <3> QED
      BY <2>1, <2>2, <2>6, <2>9, <2>10, <3>1, <3>2 DEF Dequeued, T
  <2>11. CASE ~(r = run /\ ~a.skip)
    <3>1. f[m].kept = Append(a.kept, r) /\ ~f[m].skip
      BY <2>5, <2>11 DEF DequeueStep
    <3>2. /\ f[m].kept \in Seq(Run) /\ ToSet(f[m].kept) = ToSet(a.kept) \cup {r}
          /\ IsInjective(a.kept) /\ r \notin ToSet(a.kept) => IsInjective(f[m].kept)
      BY <2>6, <2>9, <3>1, PushedBack
    <3>3. IsInjective(q) => r # run /\ r \notin ToSet(a.kept)
      BY <2>7, <2>8, <2>9, <2>11
    <3>4. Dequeued(f[m], run, q, m)
      BY <2>6, <2>9, <3>1, <3>2, <3>3 DEF Dequeued
    <3> QED
      BY <2>1, <3>4 DEF T
  <2> QED
    BY <2>10, <2>11
<1>4. Dequeued(f[Len(q)], run, q, Len(q))
  BY <1>2, <1>3
<1> HIDE DEF T
<1>5. ToSet(q) = {q[i] : i \in 1 .. Len(q)}
  BY <1>2 DEF ToSet
<1> QED
  BY <1>1, <1>4, <1>5 DEF Dequeued


--------------------------------------------------------------------------------
(***************************************************************************)
(* Where each run is.                                                      *)
(***************************************************************************)
\* The types of what Inv says nothing of.
QueueTypes ==
  /\ pc \in {"spawn", "receive", "timeouts", "dispatch", "connect", "done"}
  /\ slave_index \in 1 .. NumSlaves + 1
  /\ runs \in Seq(Run) /\ num_tries \in [Run -> Nat]
  /\ num_runs \in 0 .. NumRuns /\ actual_num_runs \in Nat /\ lines \in Lines
  /\ deleted \subseteq Run /\ dropped \subseteq Run
CountTypes == faults \in 0 .. MaxFaults /\ timeouts \in 0 .. MaxTroubles /\ stops \in 0 .. MaxStops

\* The master will hear from the slave, or time it out.
Awaited(s) == state[s] \in {"MC_RUNNING", "MC_STOPPING"}

\* Only runs in range are dispatched.
RangeInv ==
  /\ pc = "connect" => runs # <<>> /\ Head(runs) \in InRange
  /\ \A s \in Slave : current_run[s] \in InRange \cup {NoRun}

\* Of at most two tries: a run that may be tried again is queued once, and not while it is awaited.
\* After its first try no other slave has it.
TriesInv ==
  /\ IsInjective(runs)
  /\ \A r \in Run : num_tries[r] <= MaxTries /\ (r \in ToSet(runs) => num_tries[r] < MaxTries)
  /\ \A r \in Run : num_tries[r] = 0 => \A s \in Slave : current_run[s] # r
  /\ \A r \in Run : num_tries[r] = 1 => \A s, t \in Slave : current_run[s] = r /\ current_run[t] = r => s = t
  /\ \A s \in Slave, r \in Run :
       Awaited(s) /\ current_run[s] = r /\ Unresolved(r) /\ num_tries[r] < MaxTries => r \notin ToSet(runs)

\* Until a file turns out to be too short, the results that are waited for are those of the runs in range.
CountInv ==
  deleted = {} => /\ num_runs = NumRuns /\ actual_num_runs = Cardinality(InRange)
                  /\ Resolved \subseteq InRange /\ AllResolved

AccountInv ==
  /\ QueueTypes /\ CountTypes /\ RangeInv /\ NoRunForgotten
  /\ MaxTries \in 1 .. 2 => TriesInv
  /\ CountInv

\* The master knows where r is, or what became of it.
Known(r) == ~Unresolved(r) \/ r \in dropped \/ r \in deleted \/ Held(r)

\* NoRunForgotten, run by run, of a state and of the next.
LEMMA KnownAll ==
  /\ NoRunForgotten <=> (pc # "done" => \A r \in InRange : Known(r))
  /\ NoRunForgotten' <=> (pc' # "done" => \A r \in InRange : Known(r)')
<1>1. InRange \subseteq Run
  BY MonteCarloAssumption
<1>2. \A r \in InRange : (r \in Resolved <=> ~Unresolved(r)) /\ (r \in Resolved' <=> ~Unresolved(r)')
  BY <1>1 DEF Resolved, Unresolved
<1> QED
  BY <1>2, Zenon DEF NoRunForgotten, Known

\* What the account of the runs depends on.
account == <<runs, num_tries, exit_status, current_run, num_runs, actual_num_runs, num_results, lines, deleted,
             dropped>>

\* The steps that change nothing of it.
LEMMA QuietAccount ==
  ASSUME AccountInv, UNCHANGED account, slave_index' \in 1 .. NumSlaves + 1, CountTypes',
         \A s \in Slave : Awaited(s)' <=> Awaited(s),
         pc' \in {"spawn", "receive", "timeouts", "dispatch", "connect", "done"}, pc' = "done" <=> pc = "done",
         pc' = "connect" => pc = "connect" \/ (runs # <<>> /\ Head(runs) \in InRange)
  PROVE  AccountInv'
<1>1. QueueTypes' /\ RangeInv'
  BY DEF AccountInv, QueueTypes, RangeInv, account
<1>2. NoRunForgotten'
  BY DEF AccountInv, NoRunForgotten, Held, Awaited, Resolved, account
<1>3. TriesInv => TriesInv'
  BY DEF TriesInv, Unresolved, account
<1>4. CountInv => CountInv'
  BY DEF CountInv, AllResolved, Resolved, account
<1> QED
  BY <1>1, <1>2, <1>3, <1>4 DEF AccountInv

\* The counters of the bounds.
LEMMA Counters ==
  /\ NumRuns \in Nat \ {0} /\ NumSlaves \in Nat \ {0} /\ InRange \subseteq Run /\ Lines \subseteq Nat
  /\ MaxTries \in Nat /\ MaxFaults \in Nat /\ MaxTroubles \in Nat /\ MaxStops \in Nat
  /\ (/\ CountTypes /\ stops' = stops
      /\ UNCHANGED faults \/ \E f : Fault(f)
      /\ UNCHANGED timeouts \/ Timeout) => CountTypes'
<1>1. /\ NumRuns \in Nat \ {0} /\ NumSlaves \in Nat \ {0} /\ InRange \subseteq Run /\ Lines \subseteq Nat
      /\ MaxTries \in Nat /\ MaxFaults \in Nat /\ MaxTroubles \in Nat /\ MaxStops \in Nat
  BY MonteCarloAssumption
<1> QED
  BY <1>1 DEF CountTypes, Fault, Timeout

\* A slave is no longer awaited; its run is resolved, lost with the connection or put back into the
\* queue, which the caller may have taken it out of.
Returned(s, run, queue) ==
  /\ run = current_run[s] /\ pc \in {"receive", "timeouts"} /\ pc' = pc
  /\ slave_index' \in 1 .. NumSlaves + 1 /\ CountTypes'
  /\ UNCHANGED <<num_tries, num_runs, actual_num_runs, current_run, lines, deleted>>
  /\ queue = Dequeue(run, runs) \/ (queue = runs /\ Awaited(s))
  /\ dropped' = dropped \/ dropped' = dropped \cup {run}
  /\ ~Awaited(s)' /\ \A t \in Slave \ {s} : state'[t] = state[t]
  /\ \A r \in Run \ {run} : exit_status'[r] = exit_status[r]
  /\ Unresolved(run)' => Unresolved(run)
  /\ \/ runs' = queue /\ (~Unresolved(run)' \/ run \in dropped')
     \/ runs' = Append(queue, run) /\ MayRetry(run) /\ Unresolved(run)

\* What is left of the queue.
LEMMA ReturnedQueue ==
  ASSUME Inv, AccountInv, NEW s \in Slave, NEW run \in Run, NEW queue, Returned(s, run, queue)
  PROVE  /\ queue \in Seq(Run) /\ ToSet(queue) \subseteq ToSet(runs)
         /\ ToSet(runs) \ {run} \subseteq ToSet(queue)
         /\ IsInjective(runs) => IsInjective(queue) /\ (run \notin ToSet(queue) \/ (queue = runs /\ Awaited(s)))
         /\ runs' \in Seq(Run) /\ ToSet(queue) \subseteq ToSet(runs')
         /\ ToSet(runs') \subseteq ToSet(queue) \cup {run}
         /\ runs' = Append(queue, run) => ToSet(runs') = ToSet(queue) \cup {run}
<1>1. /\ runs \in Seq(Run)
      /\ queue = Dequeue(run, runs) \/ (queue = runs /\ Awaited(s))
      /\ runs' = queue \/ runs' = Append(queue, run)
  BY DEF Returned, AccountInv, QueueTypes
<1>2. /\ queue \in Seq(Run) /\ ToSet(queue) \subseteq ToSet(runs)
      /\ ToSet(runs) \ {run} \subseteq ToSet(queue)
      /\ IsInjective(runs) => IsInjective(queue) /\ (run \notin ToSet(queue) \/ (queue = runs /\ Awaited(s)))
  <2>1. CASE queue = Dequeue(run, runs)
    BY <1>1, <2>1, DequeueKeeps
  <2>2. CASE queue = runs /\ Awaited(s)
    BY <1>1, <2>2
  <2> QED
    BY <1>1, <2>1, <2>2
<1>3. /\ Append(queue, run) \in Seq(Run) /\ ToSet(Append(queue, run)) = ToSet(queue) \cup {run}
  BY <1>1, <1>2, PushedBack
<1> QED
  BY <1>1, <1>2, <1>3

\* Each run is known as before.
LEMMA ReturnedKnown ==
  ASSUME Inv, AccountInv, NEW s \in Slave, NEW run \in Run, NEW queue, Returned(s, run, queue), NEW r \in Run, Known(r)
  PROVE  Known(r)'
<1>1. /\ ToSet(runs) \ {run} \subseteq ToSet(runs')
      /\ runs' = Append(queue, run) => run \in ToSet(runs')
  BY ReturnedQueue
<1>2. /\ run = current_run[s] /\ UNCHANGED <<current_run, deleted>> /\ dropped \subseteq dropped'
      /\ \A t \in Slave \ {s} : state'[t] = state[t]
      /\ \A q \in Run \ {run} : exit_status'[q] = exit_status[q]
      /\ \/ ~Unresolved(run)' \/ run \in dropped'
         \/ runs' = Append(queue, run)
  BY DEF Returned
<1>3. CASE r = run
  BY <1>1, <1>2, <1>3 DEF Known, Held
<1>4. CASE r # run
  <2>1. ~Unresolved(r) => ~Unresolved(r)'
    BY <1>2, <1>4 DEF Unresolved
  <2>2. Held(r) => Held(r)'
    <3>1. r \in ToSet(runs) => r \in ToSet(runs')
      BY <1>1, <1>4
    <3>2. \A t \in Slave : current_run[t] = r => t # s
      BY <1>2, <1>4
    <3> QED
      BY <1>2, <3>1, <3>2 DEF Held
  <2> QED
    BY <1>2, <2>1, <2>2 DEF Known
<1> QED
  BY <1>3, <1>4

\* The tries are honoured.
LEMMA ReturnedTries ==
  ASSUME Inv, AccountInv, NEW s \in Slave, NEW run \in Run, NEW queue, Returned(s, run, queue), MaxTries \in 1 .. 2
  PROVE  TriesInv'
<1>1. /\ IsInjective(runs)
      /\ \A r \in Run : num_tries[r] <= MaxTries /\ (r \in ToSet(runs) => num_tries[r] < MaxTries)
      /\ \A r \in Run : num_tries[r] = 0 => \A t \in Slave : current_run[t] # r
      /\ \A r \in Run : num_tries[r] = 1 => \A t, u \in Slave : current_run[t] = r /\ current_run[u] = r => t = u
      /\ \A t \in Slave, r \in Run :
           Awaited(t) /\ current_run[t] = r /\ Unresolved(r) /\ num_tries[r] < MaxTries => r \notin ToSet(runs)
  BY DEF AccountInv, TriesInv
<1>2. /\ run \in Run /\ UNCHANGED <<num_tries, current_run>> /\ num_tries[run] \in Nat
      /\ ~Awaited(s)' /\ \A t \in Slave \ {s} : Awaited(t)' => Awaited(t)
      /\ \A r \in Run : Unresolved(r)' => Unresolved(r)
      /\ runs' = queue \/ (runs' = Append(queue, run) /\ MayRetry(run) /\ Unresolved(run))
  <2>1. \A r \in Run : Unresolved(r)' => Unresolved(r)
    BY DEF Returned, Unresolved
  <2>2. \A t \in Slave \ {s} : Awaited(t)' => Awaited(t)
    BY DEF Returned, Awaited
  <2> QED
    BY <2>1, <2>2 DEF Returned, AccountInv, QueueTypes
<1>3. /\ queue \in Seq(Run) /\ IsInjective(queue) /\ ToSet(queue) \subseteq ToSet(runs)
      /\ run \notin ToSet(queue) \/ (queue = runs /\ Awaited(s))
  BY <1>1, ReturnedQueue
<1>4. CASE runs' = queue
  BY <1>1, <1>2, <1>3, <1>4 DEF TriesInv
<1>5. CASE runs' = Append(queue, run) /\ MayRetry(run) /\ Unresolved(run)
  <2>1. current_run[s] = run
    BY DEF Returned
  <2>2. num_tries[run] = 1 /\ num_tries[run] < MaxTries
    <3>1. num_tries[run] < MaxTries
      BY <1>5 DEF MayRetry
    <3>2. num_tries[run] # 0
      BY <1>1, <1>2, <2>1
    <3> QED
      BY <1>2, <3>1, <3>2
  <2>3. run \notin ToSet(queue)
    BY <1>1, <1>2, <1>3, <1>5, <2>1, <2>2
  <2>4. IsInjective(runs') /\ ToSet(runs') = ToSet(queue) \cup {run}
    BY <1>2, <1>3, <1>5, <2>3, PushedBack
  <2>5. ASSUME NEW t \in Slave, NEW r \in Run, Awaited(t)', current_run[t] = r, Unresolved(r)', num_tries[r] < MaxTries
        PROVE  r \notin ToSet(runs')
    <3>1. t # s /\ Awaited(t) /\ Unresolved(r)
      BY <1>2, <2>5
    <3>2. r # run
      BY <1>1, <1>2, <2>1, <2>2, <2>5, <3>1
    <3>3. r \notin ToSet(runs)
      BY <1>1, <2>5, <3>1
    <3> QED
      BY <1>3, <2>4, <3>2, <3>3
  <2>6. \A r \in Run : num_tries[r] <= MaxTries /\ (r \in ToSet(runs') => num_tries[r] < MaxTries)
    BY <1>1, <1>3, <2>2, <2>4
  <2> QED
    BY <1>1, <1>2, <2>4, <2>5, <2>6 DEF TriesInv
<1> QED
  BY <1>2, <1>4, <1>5

\* A slave that is no longer awaited leaves the account of the runs in order.
LEMMA ReturnedAccount ==
  ASSUME Inv, Inv', AccountInv, NEW s \in Slave, NEW run \in Run, NEW queue, Returned(s, run, queue)
  PROVE  AccountInv'
<1>1. QueueTypes' /\ CountTypes' /\ RangeInv'
  <2>1. runs' \in Seq(Run)
    BY ReturnedQueue
  <2> QED
    BY <2>1 DEF Returned, AccountInv, QueueTypes, RangeInv
<1>2. NoRunForgotten'
  <2>1. pc # "done" /\ InRange \subseteq Run
    BY Counters DEF Returned
  <2>2. \A r \in InRange : Known(r)
    BY <2>1, KnownAll DEF AccountInv
  <2>3. \A r \in InRange : Known(r)'
    BY <2>1, <2>2, ReturnedKnown
  <2> QED
    BY <2>3, KnownAll
<1>3. MaxTries \in 1 .. 2 => TriesInv'
  BY ReturnedTries
<1>4. CountInv => CountInv'
  <2> SUFFICES ASSUME CountInv, deleted' = {} PROVE CountInv'
    BY DEF CountInv
  <2>0. deleted = {}
    BY DEF Returned
  <2>1. Resolved' \subseteq InRange
    <3>1. run \in InRange
      BY Numbers DEF Returned, AccountInv, RangeInv
    <3>2. \A r \in Run : r \in Resolved' => r \in Resolved \/ r = run
      BY DEF Returned, Resolved
    <3> QED
      BY <2>0, <3>1, <3>2 DEF CountInv, Resolved
  <2> QED
    BY <2>0, <2>1 DEF Returned, CountInv, AllResolved
<1> QED
  BY <1>1, <1>2, <1>3, <1>4 DEF AccountInv, Returned, QueueTypes


--------------------------------------------------------------------------------
(***************************************************************************)
(* The account of the runs, of the initial states and of each action.      *)
(***************************************************************************)
\* At the beginning every run is in the queue, once, and none was tried.
LEMMA AccountInit == Init => AccountInv
<1> SUFFICES ASSUME Init PROVE AccountInv
  OBVIOUS
<1>1. /\ NumRuns \in Nat \ {0} /\ DOMAIN runs = 1 .. NumRuns /\ (\A i \in 1 .. NumRuns : runs[i] = i - 1)
      /\ runs \in Seq(Run)
  <2>1. NumRuns \in Nat \ {0} /\ \A i \in 1 .. NumRuns : i - 1 \in Run
    BY Counters DEF Run
  <2> QED
    BY <2>1 DEF Init
<1>2. QueueTypes /\ CountTypes
  <2>1. IsFiniteSet(InRange)
    BY Numbers, Counters, FS_Subset
  <2>2. Cardinality(InRange) \in Nat
    BY <2>1, FS_CardinalityType
  <2>3. 1 \in 1 .. NumSlaves + 1 /\ NumRuns \in 0 .. NumRuns
    BY Counters
  <2> QED
    BY <1>1, <2>2, <2>3, Counters DEF Init, QueueTypes, CountTypes
<1>3. RangeInv
  BY DEF Init, RangeInv
<1>4. NoRunForgotten
  <2>1. ASSUME NEW r \in Run PROVE r \in ToSet(runs)
    <3>1. r + 1 \in 1 .. NumRuns /\ r = (r + 1) - 1
      BY <1>1 DEF Run
    <3> QED
      BY <1>1, <3>1 DEF ToSet
  <2> QED
    BY <2>1, Counters DEF NoRunForgotten, Held
<1>5. MaxTries \in 1 .. 2 => TriesInv
  <2>1. IsInjective(runs)
    BY <1>1 DEF IsInjective
  <2> QED
    BY <2>1, Numbers DEF Init, TriesInv, Awaited
<1>6. CountInv
  BY DEF Init, CountInv, Resolved, AllResolved
<1> QED
  BY <1>2, <1>3, <1>4, <1>5, <1>6 DEF AccountInv

\* The steps of the master that only move on.
LEMMA QuietMasterAccount ==
  ASSUME AccountInv, NothingToReceive \/ TimeoutsChecked \/ DispatchNothing \/ (\E s \in Slave : NextDispatch(s))
  PROVE  AccountInv'
<1>1. UNCHANGED account /\ (\A s \in Slave : Awaited(s)' <=> Awaited(s)) /\ CountTypes'
  BY DEF NothingToReceive, TimeoutsChecked, DispatchNothing, NextDispatch, account, runVars, countVars, Awaited,
     AccountInv, CountTypes
<1>2. /\ slave_index' \in 1 .. NumSlaves + 1 /\ pc # "done"
      /\ pc' \in {"timeouts", "dispatch", "spawn", "connect"}
      /\ pc' = "connect" => runs # <<>> /\ Head(runs) \in InRange
  <2>1. CASE NothingToReceive
    BY <2>1, Counters DEF NothingToReceive, Goto
  <2>2. CASE TimeoutsChecked
    BY <2>2 DEF TimeoutsChecked, Goto, AccountInv, QueueTypes
  <2>3. CASE DispatchNothing
    BY <2>3 DEF DispatchNothing, Goto, AccountInv, QueueTypes
  <2>4. CASE \E s \in Slave : NextDispatch(s)
    BY <2>4, Counters DEF NextDispatch, Goto, Slave
  <2> QED
    BY <2>1, <2>2, <2>3, <2>4
<1> QED
  BY <1>1, <1>2, QuietAccount

\* A slave is awaited only once it has a run, so starting them changes nothing.
LEMMA SpawnSlavesAccount == ASSUME Inv, AccountInv, SpawnSlaves PROVE AccountInv'
<1>1. UNCHANGED account /\ CountTypes' /\ slave_index' \in 1 .. NumSlaves + 1 /\ pc = "spawn" /\ pc' = "receive"
  BY DEF SpawnSlaves, Goto, account, runVars, countVars, AccountInv, CountTypes, QueueTypes
<1>2. \A s \in Slave : Awaited(s)' <=> Awaited(s)
  BY DEF SpawnSlaves, Awaited
<1> QED
  BY <1>1, <1>2, QuietAccount

\* A slave that is ready was not awaited before.
LEMMA HandleInitializationAccount ==
  ASSUME Inv, AccountInv, NEW s \in Slave, HandleInitialization(s)
  PROVE  AccountInv'
<1>1. PICK status \in {"init", "broken"} :
        /\ Accept(s, status) /\ state[s] = "MC_INITIALIZING"
        /\ state' = [state EXCEPT ![s] = IF status = "init" THEN "MC_READY" ELSE "MC_DISCONNECTED"]
        /\ UNCHANGED <<runs, exit_status, num_results, failed_runs, error_runs, dropped>>
  BY DEF HandleInitialization
<1>2. UNCHANGED account /\ CountTypes' /\ slave_index' \in 1 .. NumSlaves + 1 /\ pc = "receive" /\ pc' = "receive"
  BY <1>1 DEF Accept, account, countVars, AccountInv, CountTypes, QueueTypes
<1>3. \A t \in Slave : Awaited(t)' <=> Awaited(t)
  BY <1>1 DEF Awaited, Inv, SlaveTypes
<1> QED
  BY <1>2, <1>3, QuietAccount

\* Stopping and starting a slave turns MC_RUNNING and MC_STOPPING into one another: who was awaited still is.
LEMMA ClientAccount == ASSUME ~TornCommands, Inv, CommandInv, AccountInv, Client PROVE AccountInv'
<1>1. PICK s \in Slave : StopSlave(s) \/ StartSlave(s) \/ SetState(s)
  BY DEF Client
<1>2. UNCHANGED account /\ slave_index' = slave_index /\ pc' = pc /\ UNCHANGED <<faults, timeouts>>
  BY <1>1 DEF StopSlave, StartSlave, TestState, SetState, account, runVars, countVars
<1>3. CountTypes'
  BY <1>1, Counters DEF StopSlave, StartSlave, TestState, SetState, countVars, AccountInv, CountTypes
<1>4. \A t \in Slave : Awaited(t)' <=> Awaited(t)
  <2>1. CASE StopSlave(s) \/ StartSlave(s)
    BY <2>1 DEF StopSlave, StartSlave, TestState, Awaited
  <2>2. CASE SetState(s)
    <3>1. PICK c \in State : command = {<<s, c>>} /\ state' = [state EXCEPT ![s] = c]
      BY <2>2 DEF SetState
    <3>2. <<state[s], c>> \in StopTo \cup StartTo
      BY <3>1 DEF CommandInv
    <3>3. state \in [Slave -> State]
      BY DEF Inv, SlaveTypes
    <3> QED
      BY <3>1, <3>2, <3>3 DEF Awaited, StopTo, StartTo
  <2> QED
    BY <1>1, <2>1, <2>2
<1> QED
  BY <1>2, <1>3, <1>4, QuietAccount DEF AccountInv, QueueTypes

\* The slaves do not touch the account of the master.
LEMMA SlavesAccount ==
  ASSUME AccountInv, NEW s \in Slave, SlaveSteps(s) \/ SlaveFails(s)
  PROVE  AccountInv'
<1>1. UNCHANGED account /\ UNCHANGED <<pc, slave_index, state, stops>>
  BY DEF SlaveSteps, SlaveFails, SlaveInit, ExecuteAsSlave, ChildEnds, ChildReports, ParentReports, ChildExits,
     ChildTimesOut, ChildDiesLate, ChildExitsSilently, SlaveDies, account, runVars, countVars
<1>2. CountTypes'
  <2>1. CountTypes
    BY DEF AccountInv
  <2>2. UNCHANGED faults \/ \E f : Fault(f)
    BY DEF SlaveSteps, SlaveFails, SlaveInit, ExecuteAsSlave, ChildEnds, ChildReports, ParentReports, ChildExits,
       ChildTimesOut, ChildDiesLate, ChildExitsSilently, SlaveDies, countVars, Send, Unsent
  <2>3. UNCHANGED timeouts \/ Timeout
    BY DEF SlaveSteps, SlaveFails, SlaveInit, ExecuteAsSlave, ChildEnds, ChildReports, ParentReports, ChildExits,
       ChildTimesOut, ChildDiesLate, ChildExitsSilently, SlaveDies, countVars
  <2> QED
    BY <1>1, <2>1, <2>2, <2>3, Counters
<1> QED
  BY <1>1, <1>2, QuietAccount DEF Awaited, AccountInv, QueueTypes


\* The master hears of the run of a slave, ...
LEMMA HandleRunDataAccount ==
  ASSUME Inv, Inv', AccountInv, NEW s \in Slave, NEW status \in Resolution \cup {"broken"}, HandleRunData(s, status)
  PROVE  AccountInv'
<1>1. Accept(s, status) /\ state[s] # "MC_INITIALIZING"
  BY DEF HandleRunData
<1>2. pc = "receive" /\ pc' = "receive" /\ SlaveInv(s) /\ [slave |-> s, status |-> status] \in From(s)
  BY <1>1, AcceptTakes
<1>3. PICK run \in Run : run = current_run[s]
  BY <1>1, <1>2 DEF SlaveInv, FreshInv, RunInv, Fresh
<1>4. /\ UNCHANGED <<num_tries, num_runs, actual_num_runs, current_run, lines, deleted>>
      /\ slave_index' \in 1 .. NumSlaves + 1 /\ CountTypes'
  BY <1>1, Counters DEF Accept, countVars, AccountInv, QueueTypes, CountTypes
<1>5. ~Awaited(s)' /\ \A t \in Slave \ {s} : state'[t] = state[t]
  <2>1. state \in [Slave -> State]
    BY DEF Inv, SlaveTypes
  <2>2. state' = [state EXCEPT ![s] = "MC_DISCONNECTED"] \/ Answered(s)
    BY DEF HandleRunData
  <2> QED
    BY <2>1, <2>2 DEF Answered, Awaited
<1>6. exit_status \in [Run -> ExitStatus]
  BY DEF Inv, ResultTypes
<1> DEFINE queue == Dequeue(run, runs)
<1>7. /\ dropped' = dropped \/ dropped' = dropped \cup {run}
      /\ \A r \in Run \ {run} : exit_status'[r] = exit_status[r]
      /\ Unresolved(run)' => Unresolved(run)
      /\ \/ runs' = queue /\ (~Unresolved(run)' \/ run \in dropped')
         \/ runs' = Append(queue, run) /\ MayRetry(run) /\ Unresolved(run)
  <2> HIDE DEF queue
  <2>1. \/ /\ ~Unresolved(run) /\ runs' = queue
           /\ UNCHANGED <<exit_status, dropped>>
        \/ /\ Unresolved(run) /\ runs' = queue /\ dropped' = dropped \cup {run} /\ UNCHANGED exit_status
        \/ /\ Unresolved(run) /\ status \in Outcomes /\ ResolveRun(run, status) /\ runs' = queue /\ UNCHANGED dropped
        \/ /\ Unresolved(run) /\ status = "MC_RUN_TIMED_OUT" /\ HandleRetry(run, status, queue) /\ UNCHANGED dropped
    BY <1>3 DEF HandleRunData, queue
  <2>2. ASSUME ResolveRun(run, status), status \in Resolution
        PROVE  /\ ~Unresolved(run)' /\ \A r \in Run \ {run} : exit_status'[r] = exit_status[r]
    BY <1>6, <2>2 DEF ResolveRun, Unresolved, Resolution
  <2>3. status \in Outcomes \/ status = "MC_RUN_TIMED_OUT" => status \in Resolution
    BY Numbers
  <2>4. CASE ~Unresolved(run) /\ runs' = queue /\ UNCHANGED <<exit_status, dropped>>
    BY <2>4 DEF Unresolved
  <2>5. CASE Unresolved(run) /\ runs' = queue /\ dropped' = dropped \cup {run} /\ UNCHANGED exit_status
    BY <2>5
  <2>6. CASE status \in Outcomes /\ ResolveRun(run, status) /\ runs' = queue /\ UNCHANGED dropped
    BY <2>2, <2>3, <2>6
  <2>7. CASE Unresolved(run) /\ status = "MC_RUN_TIMED_OUT" /\ HandleRetry(run, status, queue) /\ UNCHANGED dropped
    <3>1. CASE MayRetry(run)
      BY <2>7, <3>1 DEF HandleRetry
    <3>2. CASE ~MayRetry(run)
      <4>1. ResolveRun(run, status) /\ runs' = queue
        BY <2>7, <3>2 DEF HandleRetry
      <4> QED
        BY <2>2, <2>3, <2>7, <4>1
    <3> QED
      BY <3>1, <3>2
  <2> QED
    BY <2>1, <2>4, <2>5, <2>6, <2>7
<1>8. Returned(s, run, queue)
  BY <1>2, <1>3, <1>4, <1>5, <1>7 DEF Returned
<1> HIDE DEF queue
<1> QED
  BY <1>8, ReturnedAccount

\* ... or it has waited too long.
LEMMA CheckTimeoutsAccount ==
  ASSUME Inv, Inv', AccountInv, NEW s \in Slave, CheckTimeouts(s)
  PROVE  AccountInv'
<1>1. /\ pc = "timeouts" /\ pc' = "timeouts" /\ slave_index' = s + 1
      /\ UNCHANGED <<num_tries, num_runs, actual_num_runs, current_run, lines, deleted, dropped, faults, stops>>
  BY DEF CheckTimeouts
<1>2. slave_index' \in 1 .. NumSlaves + 1
  BY <1>1, Counters DEF Slave
<1>3. CASE UNCHANGED <<runs, exit_status, num_results, state, timeouts>>
  <2>1. UNCHANGED account /\ CountTypes' /\ \A t \in Slave : Awaited(t)' <=> Awaited(t)
    BY <1>1, <1>3 DEF account, Awaited, AccountInv, CountTypes
  <2> QED
    BY <1>1, <1>2, <2>1, QuietAccount
<1>4. CASE /\ state[s] \in {"MC_RUNNING", "MC_STOPPING"} /\ Timeout /\ TimedOut(s)
           /\ IF Unresolved(current_run[s])
              THEN HandleRetry(current_run[s], "MC_RUN_TIMED_OUT", runs)
              ELSE UNCHANGED <<runs, exit_status, num_results, failed_runs, error_runs>>
  <2>1. PICK run \in Run : run = current_run[s]
    BY <1>1, <1>4 DEF Inv, SlaveInv, RunInv, Busy
  <2>2. CountTypes'
    BY <1>1, <1>4, Counters DEF AccountInv
  <2>3. ~Awaited(s)' /\ \A t \in Slave \ {s} : state'[t] = state[t]
    <3>1. state \in [Slave -> State]
      BY DEF Inv, SlaveTypes
    <3> QED
      BY <1>4, <3>1 DEF TimedOut, Awaited
  <2>4. /\ \A r \in Run \ {run} : exit_status'[r] = exit_status[r]
        /\ Unresolved(run)' => Unresolved(run)
        /\ \/ runs' = runs /\ (~Unresolved(run)' \/ run \in dropped')
           \/ runs' = Append(runs, run) /\ MayRetry(run) /\ Unresolved(run)
    <3>1. exit_status \in [Run -> ExitStatus]
      BY DEF Inv, ResultTypes
    <3>2. CASE ~Unresolved(run)
      BY <1>4, <2>1, <3>2 DEF Unresolved
    <3>3. CASE Unresolved(run) /\ MayRetry(run)
      BY <1>4, <2>1, <3>3 DEF HandleRetry
    <3>4. CASE Unresolved(run) /\ ~MayRetry(run)
      <4>1. ResolveRun(run, "MC_RUN_TIMED_OUT") /\ runs' = runs
        BY <1>4, <2>1, <3>4 DEF HandleRetry
      <4> QED
        BY <3>1, <3>4, <4>1 DEF ResolveRun, Unresolved
    <3> QED
      BY <3>2, <3>3, <3>4
  <2>5. Returned(s, run, runs)
    BY <1>1, <1>2, <1>4, <2>1, <2>2, <2>3, <2>4 DEF Returned, Awaited
  <2> QED
    BY <2>5, ReturnedAccount
<1> QED
  BY <1>3, <1>4 DEF CheckTimeouts

\* Runs leave the queue: those out of range, and those that are deleted.
LEMMA CutAccount ==
  ASSUME AccountInv, pc # "done", pc' \in {"dispatch", "spawn"},
         UNCHANGED <<slave_index, num_tries, exit_status, state, current_run, lines, dropped, countVars>>,
         runs' \in Seq(Run), ToSet(runs') \subseteq ToSet(runs), IsInjective(runs) => IsInjective(runs'),
         deleted \subseteq deleted', deleted' \subseteq Run, num_runs' \in 0 .. NumRuns, actual_num_runs' \in Nat,
         \A r \in InRange : r \in ToSet(runs) => r \in ToSet(runs') \cup deleted',
         deleted' = {} => UNCHANGED <<num_runs, actual_num_runs>>
  PROVE  AccountInv'
<1>1. QueueTypes' /\ CountTypes' /\ RangeInv'
  BY DEF AccountInv, QueueTypes, CountTypes, countVars, RangeInv
<1>2. NoRunForgotten'
  <2>1. \A r \in InRange : Known(r)
    BY KnownAll DEF AccountInv
  <2>2. \A r \in InRange : Known(r)'
    BY <2>1 DEF Known, Held, Unresolved
  <2> QED
    BY <2>2, KnownAll
<1>3. TriesInv => TriesInv'
  <2>1. \A r \in Run : r \in ToSet(runs') => r \in ToSet(runs)
    OBVIOUS
  <2>2. (\A s \in Slave : Awaited(s)' <=> Awaited(s)) /\ \A r \in Run : Unresolved(r)' <=> Unresolved(r)
    BY DEF Awaited, Unresolved
  <2> HIDE DEF Awaited, Unresolved
  <2> QED
    BY <2>1, <2>2 DEF TriesInv
<1>4. CountInv'
  BY DEF AccountInv, CountInv, AllResolved, Resolved
<1> QED
  BY <1>1, <1>2, <1>3, <1>4 DEF AccountInv, QueueTypes

\* The run at the front is one of the queue.
LEMMA FrontOfQueue == ASSUME NEW q \in Seq(Run), q # <<>> PROVE Head(q) \in Run /\ Head(q) \in ToSet(q)
<1>1. Len(q) \in Nat /\ Len(q) # 0
  BY EmptySeq
<1>2. 1 \in 1 .. Len(q) /\ Head(q) = q[1] /\ q[1] \in Run /\ DOMAIN q = 1 .. Len(q)
  BY <1>1
<1> QED
  BY <1>2 DEF ToSet

\* set_num_runs deletes what it takes off the queue.
LEMMA RunsDeleted ==
  ASSUME Inv, AccountInv, NEW n \in Run, SetNumRuns(n)
  PROVE  /\ runs' \in Seq(Run) /\ ToSet(runs') \subseteq ToSet(runs) /\ (IsInjective(runs) => IsInjective(runs'))
         /\ ToSet(runs) \subseteq ToSet(runs') \cup deleted'
         /\ deleted \subseteq deleted' /\ deleted' \subseteq Run
         /\ num_runs' \in 0 .. NumRuns /\ actual_num_runs' \in Nat
         /\ runs # <<>> => deleted' # {}
<1> DEFINE excess == IF num_runs > n THEN num_runs - n ELSE 0
           pops == IF excess < Len(runs) THEN excess ELSE Len(runs)
           left == Len(runs) - pops
<1>1. num_runs \in Nat /\ num_runs <= NumRuns /\ n \in Nat /\ Len(runs) \in Nat /\ runs \in Seq(Run) /\ deleted \subseteq Run
      /\ NumRuns \in Nat
  BY Numbers DEF AccountInv, QueueTypes
<1>2. excess \in Nat /\ excess <= num_runs
  BY <1>1
<1> HIDE DEF excess
<1>3. pops \in Nat /\ pops <= num_runs /\ pops <= Len(runs)
  BY <1>1, <1>2
<1>4. /\ runs' = SubSeq(runs, 1, left) /\ num_runs' = num_runs - pops
      /\ deleted' = deleted \cup {runs[i] : i \in left + 1 .. Len(runs)}
      /\ UpdateActualNumRuns(runs')
  BY DEF SetNumRuns, excess
<1> HIDE DEF pops
<1>5. left \in 0 .. Len(runs)
  BY <1>1, <1>3
<1> HIDE DEF left
<1>6. /\ runs' \in Seq(Run) /\ ToSet(runs) = ToSet(runs') \cup {runs[i] : i \in left + 1 .. Len(runs)}
      /\ IsInjective(runs) => IsInjective(runs')
  BY <1>1, <1>4, <1>5, CutBack
<1>7. ToSet(runs) \subseteq Run
  BY <1>1 DEF ToSet
<1>8. num_runs' \in 0 .. NumRuns
  BY <1>1, <1>3, <1>4
<1>9. actual_num_runs' \in Nat
  <2>1. num_results \in Nat
    <3>1. IsFiniteSet(Resolved)
      BY Numbers, FS_Subset DEF Resolved
    <3> QED
      BY <3>1, FS_CardinalityType DEF Inv, ResultsCountedOnce
  <2>2. Len(runs') \in Nat
    BY <1>6
  <2>3. Cardinality({i \in 1 .. Len(runs') : runs'[i] \in InRange}) \in Nat
    <3>1. IsFiniteSet(1 .. Len(runs'))
      BY <2>2, FS_Interval
    <3>2. IsFiniteSet({i \in 1 .. Len(runs') : runs'[i] \in InRange})
      BY <3>1, FS_Subset
    <3> QED
      BY <3>2, FS_CardinalityType
  <2>4. Cardinality({s \in Slave : state[s] \in {"MC_RUNNING", "MC_STOPPING"}}) \in Nat
    <3>1. IsFiniteSet(Slave)
      BY Counters, FS_Interval DEF Slave
    <3>2. IsFiniteSet({s \in Slave : state[s] \in {"MC_RUNNING", "MC_STOPPING"}})
      BY <3>1, FS_Subset
    <3> QED
      BY <3>2, FS_CardinalityType
  <2>5. actual_num_runs' = num_results
          + Cardinality({i \in 1 .. Len(runs') : runs'[i] \in InRange})
          + Cardinality({s \in Slave : state[s] \in {"MC_RUNNING", "MC_STOPPING"}})
    BY <1>4, Zenon DEF UpdateActualNumRuns
  <2> QED
    BY <2>1, <2>3, <2>4, <2>5
<1>10. ASSUME runs # <<>>, deleted = {} PROVE deleted' # {}
  <2>1. num_runs > n
    BY <1>1, <1>10, Counters DEF AccountInv, CountInv, Run
  <2>2. Len(runs) > 0
    BY <1>1, <1>10, EmptySeq
  <2>3. left < Len(runs)
    BY <1>1, <2>1, <2>2 DEF left, pops, excess
  <2>4. runs[Len(runs)] \in deleted'
    BY <1>1, <1>4, <1>5, <2>3
  <2> QED
    BY <2>4
<1> QED
  BY <1>1, <1>4, <1>6, <1>7, <1>8, <1>9, <1>10

\* A run that is out of range leaves the queue and was never to be counted.
LEMMA SkipRunAccount == ASSUME Inv, AccountInv, SkipRun PROVE AccountInv'
<1>1. /\ pc = "dispatch" /\ pc' = pc /\ runs # <<>> /\ Head(runs) \notin InRange /\ runs \in Seq(Run)
      /\ UNCHANGED <<slave_index, num_tries, exit_status, state, current_run, lines, dropped, countVars>>
  BY DEF SkipRun, AccountInv, QueueTypes
<1>2. Head(runs) \in Run
  BY <1>1, FrontOfQueue
<1>3. CASE EndOfFile(Head(runs))
  <2>1. SetNumRuns(Head(runs))
    BY <1>3 DEF SkipRun
  <2>2. /\ runs' \in Seq(Run) /\ ToSet(runs') \subseteq ToSet(runs) /\ (IsInjective(runs) => IsInjective(runs'))
        /\ ToSet(runs) \subseteq ToSet(runs') \cup deleted'
        /\ deleted \subseteq deleted' /\ deleted' \subseteq Run
        /\ num_runs' \in 0 .. NumRuns /\ actual_num_runs' \in Nat /\ deleted' # {}
    BY <1>1, <1>2, <2>1, RunsDeleted
  <2> QED
    BY <1>1, <2>2, CutAccount
<1>4. CASE ~EndOfFile(Head(runs))
  <2>1. runs' = Dequeue(Head(runs), runs) /\ UNCHANGED <<num_runs, actual_num_runs, deleted>>
    BY <1>4 DEF SkipRun
  <2>2. /\ runs' \in Seq(Run) /\ ToSet(runs') \subseteq ToSet(runs) /\ (IsInjective(runs) => IsInjective(runs'))
        /\ ToSet(runs) \ {Head(runs)} \subseteq ToSet(runs')
    BY <1>1, <2>1, DequeueKeeps
  <2>3. \A r \in InRange : r \in ToSet(runs) => r \in ToSet(runs') \cup deleted'
    BY <1>1, <2>2
  <2>4. deleted \subseteq deleted' /\ deleted' \subseteq Run /\ num_runs' \in 0 .. NumRuns /\ actual_num_runs' \in Nat
    BY <2>1 DEF AccountInv, QueueTypes
  <2> QED
    BY <1>1, <2>1, <2>2, <2>3, <2>4, CutAccount
<1> QED
  BY <1>3, <1>4

\* At the end of the file the runs that are left are deleted, and count no longer.
LEMMA EndOfFileAccount ==
  ASSUME Inv, AccountInv, NEW run \in Run, DispatchEndOfFile(run)
  PROVE  AccountInv'
<1>1. /\ pc = "connect" /\ pc' = "spawn" /\ EndOfFile(run) /\ SetNumRuns(run)
      /\ UNCHANGED <<slave_index, num_tries, exit_status, state, current_run, lines, dropped, countVars>>
  BY DEF DispatchEndOfFile, Goto
<1>2. runs # <<>>
  BY <1>1 DEF AccountInv, RangeInv
<1>3. /\ runs' \in Seq(Run) /\ ToSet(runs') \subseteq ToSet(runs) /\ (IsInjective(runs) => IsInjective(runs'))
      /\ ToSet(runs) \subseteq ToSet(runs') \cup deleted'
      /\ deleted \subseteq deleted' /\ deleted' \subseteq Run
      /\ num_runs' \in 0 .. NumRuns /\ actual_num_runs' \in Nat /\ deleted' # {}
  BY <1>1, <1>2, RunsDeleted
<1> QED
  BY <1>1, <1>3, CutAccount


\* The run at the front is given to the slave, or lost with it.
LEMMA DispatchAccount ==
  ASSUME ~TornCommands, Inv, AccountInv, NEW s \in Slave, NEW run \in Run, DispatchRunToSlave(run, s)
  PROVE  AccountInv'
<1>1. /\ pc = "connect" /\ pc' = "spawn" /\ Head(runs) = run /\ slave_index = s /\ runs' = Dequeue(run, runs)
      /\ UNCHANGED <<slave_index, exit_status, num_runs, actual_num_runs, num_results, deleted, lines, timeouts, stops>>
  BY DEF DispatchRunToSlave, Goto
<1>2. runs \in Seq(Run) /\ run \in InRange /\ run \in ToSet(runs) /\ ~Awaited(s)
  <2>1. runs \in Seq(Run) /\ runs # <<>> /\ Head(runs) \in InRange
    BY <1>1 DEF AccountInv, QueueTypes, RangeInv
  <2>2. ~Awaited(s)
    BY <1>1 DEF Inv, Chosen, Idle, Awaited
  <2> QED
    BY <1>1, <2>1, <2>2, FrontOfQueue
<1>3. /\ runs' \in Seq(Run) /\ ToSet(runs') \subseteq ToSet(runs) /\ ToSet(runs) \ {run} \subseteq ToSet(runs')
      /\ IsInjective(runs) => IsInjective(runs') /\ run \notin ToSet(runs')
  BY <1>1, <1>2, DequeueKeeps
<1>4. /\ state \in [Slave -> State] /\ current_run \in [Slave -> Run \cup {NoRun}]
      /\ num_tries \in [Run -> Nat] /\ dropped \subseteq Run
  BY DEF Inv, SlaveTypes, AccountInv, QueueTypes
<1>5. CountTypes'
  BY <1>1, Counters DEF DispatchRunToSlave, AccountInv
<1>6. CASE /\ state' = [state EXCEPT ![s] = "MC_RUNNING"]
           /\ current_run' = [current_run EXCEPT ![s] = run]
           /\ num_tries' = [num_tries EXCEPT ![run] = @ + 1]
           /\ UNCHANGED dropped
  <2>1. /\ Awaited(s)' /\ current_run'[s] = run /\ num_tries' \in [Run -> Nat] /\ num_tries'[run] = num_tries[run] + 1
        /\ \A t \in Slave \ {s} : (Awaited(t)' <=> Awaited(t)) /\ current_run'[t] = current_run[t]
        /\ \A r \in Run \ {run} : num_tries'[r] = num_tries[r]
    BY <1>4, <1>6 DEF Awaited
  <2>2. QueueTypes' /\ RangeInv'
    BY <1>1, <1>2, <1>3, <1>6, <2>1 DEF AccountInv, QueueTypes, RangeInv
  <2>3. NoRunForgotten'
    <3>1. ASSUME NEW r \in InRange, Known(r) PROVE Known(r)'
      <4>1. CASE r = run
        BY <2>1, <4>1 DEF Known, Held, Awaited
      <4>2. CASE r # run
        <5>1. \A t \in Slave : Awaited(t) => t # s
          BY <1>2
        <5>2. r \in ToSet(runs) => r \in ToSet(runs')
          BY <1>3, <4>2
        <5>3. Held(r) => Held(r)'
          BY <2>1, <5>1, <5>2 DEF Held, Awaited
        <5> QED
          BY <1>1, <1>6, <3>1, <5>3 DEF Known, Unresolved
      <4> QED
        BY <4>1, <4>2
    <3> QED
      BY <1>1, <3>1, KnownAll DEF AccountInv
  <2>4. ASSUME MaxTries \in 1 .. 2 PROVE TriesInv'
    <3>1. /\ IsInjective(runs)
          /\ \A r \in Run : num_tries[r] <= MaxTries /\ (r \in ToSet(runs) => num_tries[r] < MaxTries)
          /\ \A r \in Run : num_tries[r] = 0 => \A t \in Slave : current_run[t] # r
          /\ \A r \in Run : num_tries[r] = 1 => \A t, u \in Slave : current_run[t] = r /\ current_run[u] = r => t = u
          /\ \A t \in Slave, r \in Run :
               Awaited(t) /\ current_run[t] = r /\ Unresolved(r) /\ num_tries[r] < MaxTries => r \notin ToSet(runs)
      BY <2>4 DEF AccountInv, TriesInv
    <3>2. \A r \in Run : Unresolved(r)' <=> Unresolved(r)
      BY <1>1 DEF Unresolved
    <3>3. IsInjective(runs') /\ run \notin ToSet(runs')
      BY <1>3, <3>1
    <3>4. ASSUME NEW r \in Run
          PROVE  /\ num_tries'[r] <= MaxTries /\ (r \in ToSet(runs') => num_tries'[r] < MaxTries)
                 /\ num_tries'[r] = 0 => \A t \in Slave : current_run'[t] # r
                 /\ num_tries'[r] = 1 => \A t, u \in Slave : current_run'[t] = r /\ current_run'[u] = r => t = u
      <4>1. CASE r = run
        <5>1. num_tries[run] \in Nat /\ num_tries[run] < MaxTries /\ MaxTries \in Nat
          BY <1>2, <1>4, <2>4, <3>1
        <5>2. num_tries'[run] # 0 /\ num_tries'[run] <= MaxTries
          BY <2>1, <5>1
        <5>3. ASSUME num_tries'[run] = 1, NEW t \in Slave, current_run'[t] = run PROVE t = s
          <6>1. num_tries[run] = 0
            BY <2>1, <5>1, <5>3
          <6> QED
            BY <2>1, <3>1, <5>3, <6>1
        <5> QED
          BY <3>3, <4>1, <5>2, <5>3
      <4>2. CASE r # run
        <5>1. num_tries'[r] = num_tries[r]
          BY <2>1, <4>2
        <5>2. \A t \in Slave : current_run'[t] = r => t # s /\ current_run[t] = r
          BY <2>1, <4>2
        <5> QED
          BY <1>3, <3>1, <5>1, <5>2
      <4> QED
        BY <4>1, <4>2
    <3>5. ASSUME NEW t \in Slave, NEW r \in Run, Awaited(t)', current_run'[t] = r, Unresolved(r)',
                 num_tries'[r] < MaxTries
          PROVE  r \notin ToSet(runs')
      <4>1. CASE r = run
        BY <3>3, <4>1
      <4>2. CASE r # run
        <5>1. t # s /\ Awaited(t) /\ current_run[t] = r /\ num_tries[r] < MaxTries
          BY <2>1, <3>5, <4>2
        <5> QED
          BY <1>3, <3>1, <3>2, <3>5, <5>1
      <4> QED
        BY <4>1, <4>2
    <3> QED
      BY <3>3, <3>4, <3>5 DEF TriesInv
  <2>5. CountInv => CountInv'
    BY <1>1 DEF CountInv, AllResolved, Resolved
  <2> QED
    BY <1>5, <2>2, <2>3, <2>4, <2>5, <1>1 DEF AccountInv, QueueTypes
<1>7. CASE /\ state' = [state EXCEPT ![s] = "MC_DISCONNECTED"]
           /\ dropped' = dropped \cup {run}
           /\ UNCHANGED <<current_run, num_tries>>
  <2>1. \A t \in Slave : Awaited(t)' <=> Awaited(t)
    BY <1>2, <1>4, <1>7 DEF Awaited
  <2>2. QueueTypes' /\ RangeInv'
    BY <1>1, <1>3, <1>7 DEF AccountInv, QueueTypes, RangeInv
  <2>3. NoRunForgotten'
    <3>1. ASSUME NEW r \in InRange, Known(r) PROVE Known(r)'
      <4>1. r # run /\ Held(r) => Held(r)'
        BY <1>3, <1>7, <2>1 DEF Held, Awaited
      <4> QED
        BY <1>1, <1>7, <3>1, <4>1 DEF Known, Unresolved
    <3> QED
      BY <1>1, <3>1, KnownAll DEF AccountInv
  <2>4. TriesInv => TriesInv'
    <3>1. \A r \in Run : r \in ToSet(runs') => r \in ToSet(runs)
      BY <1>3
    <3>2. \A r \in Run : Unresolved(r)' <=> Unresolved(r)
      BY <1>1 DEF Unresolved
    <3> QED
      BY <1>3, <1>7, <2>1, <3>1, <3>2 DEF TriesInv
  <2>5. CountInv => CountInv'
    BY <1>1, <1>7 DEF CountInv, AllResolved, Resolved
  <2> QED
    BY <1>5, <2>2, <2>3, <2>4, <2>5, <1>1 DEF AccountInv, QueueTypes
<1> QED
  BY <1>6, <1>7 DEF DispatchRunToSlave

\* The master ends when it has as many results as there are runs in range: these are their results.
LEMMA MasterShutdownAccount == ASSUME Inv, AccountInv, MasterShutdown PROVE AccountInv'
<1>1. /\ pc = "spawn" /\ pc' = "done" /\ num_results >= actual_num_runs
      /\ UNCHANGED <<slave_index, runs, num_tries, exit_status, num_runs, actual_num_runs, num_results, current_run,
                     lines, deleted, dropped, faults, timeouts, stops>>
      /\ \A s \in Slave : ~Awaited(s)'
  BY DEF MasterShutdown, Goto, runVars, countVars, Awaited
<1>2. QueueTypes' /\ CountTypes' /\ RangeInv' /\ NoRunForgotten'
  BY <1>1 DEF AccountInv, QueueTypes, CountTypes, RangeInv, NoRunForgotten
<1>3. TriesInv => TriesInv'
  BY <1>1 DEF TriesInv
<1>4. ASSUME CountInv PROVE CountInv'
  <2> SUFFICES ASSUME deleted' = {} PROVE CountInv'
    BY DEF CountInv
  <2>0. deleted = {}
    BY <1>1
  <2>1. IsFiniteSet(InRange) /\ Resolved \subseteq InRange /\ actual_num_runs = Cardinality(InRange)
    BY <1>4, <2>0, Numbers, Counters, FS_Subset DEF CountInv
  <2>2. num_results = Cardinality(Resolved)
    BY DEF Inv, ResultsCountedOnce
  <2>3. Cardinality(Resolved) = Cardinality(InRange)
    <3>1. /\ Cardinality(Resolved) \in Nat /\ Cardinality(InRange) \in Nat
          /\ Cardinality(Resolved) <= Cardinality(InRange)
      BY <2>1, FS_Subset, FS_CardinalityType
    <3> QED
      BY <1>1, <2>1, <2>2, <3>1
  <2>4. Resolved = InRange
    BY <2>1, <2>3, FS_Subset
  <2>5. Resolved' = Resolved
    BY <1>1 DEF Resolved
  <2> QED
    BY <1>1, <1>4, <2>0, <2>1, <2>4, <2>5 DEF CountInv, AllResolved
<1> QED
  BY <1>2, <1>3, <1>4, <1>1 DEF AccountInv, QueueTypes

\* Every step keeps the account of the runs.
LEMMA AccountStep == ASSUME ~TornCommands, Inv, Inv', CommandInv, AccountInv, [Next]_vars PROVE AccountInv'
<1>1. CASE Master
  <2>1. \/ SpawnSlaves \/ MasterShutdown \/ SkipRun
        \/ NothingToReceive \/ TimeoutsChecked \/ DispatchNothing \/ (\E s \in Slave : NextDispatch(s))
        \/ \E run \in Run : DispatchEndOfFile(run)
        \/ \E s \in Slave : HandleInitialization(s)
        \/ \E s \in Slave : CheckTimeouts(s)
        \/ \E s \in Slave : \E status \in Resolution \cup {"broken"} : HandleRunData(s, status)
        \/ \E s \in Slave, run \in Run : DispatchRunToSlave(run, s)
    BY <1>1, Zenon DEF Master, MasterSteps
  <2> QED
    BY <2>1, SpawnSlavesAccount, MasterShutdownAccount, SkipRunAccount, QuietMasterAccount, EndOfFileAccount,
       HandleInitializationAccount, CheckTimeoutsAccount, HandleRunDataAccount, DispatchAccount, Zenon
<1>2. CASE Client
  BY <1>2, ClientAccount
<1>3. CASE \E s \in Slave : SlaveSteps(s) \/ SlaveFails(s)
  BY <1>3, SlavesAccount
<1>4. CASE UNCHANGED vars
  <2>1. UNCHANGED account /\ UNCHANGED <<pc, slave_index, state, faults, timeouts, stops>>
    BY <1>4 DEF vars, account, runVars, countVars
  <2>2. CountTypes' /\ \A s \in Slave : Awaited(s)' <=> Awaited(s)
    BY <2>1 DEF AccountInv, CountTypes, Awaited
  <2> QED
    BY <2>1, <2>2, QuietAccount DEF AccountInv, QueueTypes
<1> QED
  BY <1>1, <1>2, <1>3, <1>4 DEF Next

\* The account holds in every behaviour, and with it NoRunForgotten: until the master ends it knows of
\* every run in range that has no result, was not lost with a connection and not deleted at the end
\* of a file, that it is in the queue or with a slave it awaits (dequeue_run, handle_retry,
\* check_timeouts), whatever may be late, repeated, stopped or lost.  The hypothesis: it does not move
\* between the test and the assignment of stop_slave and start_slave, which no lock prevents.
THEOREM NoRunIsForgotten == ASSUME ~TornCommands PROVE Spec => [](AccountInv /\ NoRunForgotten)
<1>1. Init => Inv /\ CommandInv /\ AccountInv
  BY InitInv, AccountInit DEF Init, CommandInv
<1>2. Inv /\ CommandInv /\ AccountInv /\ [Next]_vars => Inv' /\ CommandInv' /\ AccountInv'
  BY InvNext, AccountStep
<1>3. AccountInv => NoRunForgotten
  BY DEF AccountInv
<1> QED
  BY <1>1, <1>2, <1>3, PTL DEF Spec

\* RunsAccountedFor holds in every behaviour when a run has at most two tries and the master does not
\* move between the test and the assignment of stop_slave and start_slave: no run is dispatched more
\* often than max_tries, and the master does not end before the last result, unless runs were deleted
\* at the end of a file that is too short.  With more tries a run may be queued twice.
THEOREM RunsAreAccountedFor == ASSUME MaxTries <= 2, ~TornCommands PROVE Spec => []RunsAccountedFor
<1>1. Inv /\ CommandInv /\ AccountInv => RunsAccountedFor
  <2> SUFFICES ASSUME Inv, CommandInv, AccountInv PROVE RunsAccountedFor
    OBVIOUS
  <2>1. TypeOK
    <3>1. num_results \in Nat
      <4>1. IsFiniteSet(Resolved)
        BY Numbers, FS_Subset DEF Resolved
      <4> QED
        BY <4>1, FS_CardinalityType DEF Inv, ResultsCountedOnce
    <3> QED
      BY <3>1 DEF Inv, CommandInv, ResultTypes, SlaveTypes, AccountInv, QueueTypes, CountTypes, TypeOK
  <2>2. TriesHonoured
    <3>1. MaxTries > 0 => MaxTries \in 1 .. 2
      BY Counters
    <3> QED
      BY <3>1 DEF AccountInv, TriesInv, TriesHonoured
  <2>3. AllResolved
    BY DEF AccountInv, CountInv, AllResolved
  <2> QED
    BY <2>1, <2>2, <2>3 DEF AccountInv, RunsAccountedFor
<1> QED
  BY <1>1, SlavesInStep, NoRunIsForgotten, PTL
==============================================================================
