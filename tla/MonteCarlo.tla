------------------------------ MODULE MonteCarlo ------------------------------
(***************************************************************************)
(* Monte Carlo: one master gives out the runs, slaves in other processes   *)
(* execute them, and every result comes back over a connection of its own. *)
(*                                                                         *)
(* A slave is a parent, which takes orders, and a child forked for each    *)
(* run.  The child reports from its shutdown job; the parent reports when  *)
(* a signal killed the child.  The values of the variables, the jobs of    *)
(* the user and the statistics are left out.                               *)
(***************************************************************************)
EXTENDS Integers, Sequences, SequencesExt, FiniteSets

CONSTANTS
  NumRuns, NumSlaves,
  InRange,       \* the runs in one of the run_ranges, all of them when there is none
  Lines,         \* the numbers of lines the file of a variable may have
  MaxTries,      \* max_tries, 0 for no limit
  Outcomes,      \* how a run may end before any timeout
  TornCommands,  \* may the master go on between the test and the assignment of a client's call?
  Faults,        \* what may go wrong, of "die", "silent", "post", "break" and "refuse"
  MaxFaults,     \* bound: the number of faults of a behaviour,
  MaxTroubles,   \* bound: and that of faults and timeouts, of the master or the slaves
  MaxStops       \* bound: the number of calls of stop_slave

Run   == 0 .. NumRuns - 1
Slave == 1 .. NumSlaves
NoRun == -1
Shutdown == -2   \* the order MC_SHUTDOWN; an order MC_PROCESS_RUN is its run

Resolution == {"MC_RUN_COMPLETE", "MC_RUN_FAILED", "MC_RUN_DUMPED_CORE", "MC_RUN_TIMED_OUT"}
ExitStatus == Resolution \cup {"MC_RUN_INCOMPLETE"}

ASSUME MonteCarloAssumption ==
  /\ NumRuns \in Nat \ {0} /\ NumSlaves \in Nat \ {0}
  /\ InRange \subseteq Run /\ Lines \subseteq Nat
  /\ MaxTries \in Nat /\ TornCommands \in BOOLEAN
  /\ Outcomes \subseteq Resolution \ {"MC_RUN_TIMED_OUT"}
  /\ Faults \subseteq {"die", "silent", "post", "break", "refuse"}
  /\ MaxFaults \in Nat /\ MaxTroubles \in Nat /\ MaxStops \in Nat

VARIABLES
  pc,            \* where the master is in its loop
  slave_index,   \* the slave check_timeouts looks at next, then the one get_ready_slave has found
  runs,          \* the runs to dispatch
  num_tries, exit_status,      \* of each run
  num_runs, actual_num_runs, num_results,
  failed_runs, error_runs,
  state, current_run,          \* of each slave, as the master sees it
  command,       \* the slave and the state it is about to get, of a call of stop_slave or start_slave
  inbox,         \* the connections to the master not yet accepted
  lines,         \* the lines of the file
  process,       \* the slave itself
  job,           \* the run of its child
  orders,        \* the connections to the slave not yet accepted
  deleted,       \* ghost: the runs set_num_runs has deleted
  dropped,       \* ghost: the runs lost with a connection
  reported,      \* ghost: what was reported of each run
  twice,         \* ghost: has a slave reported one run twice?
  faults, timeouts, stops      \* how many there were

runVars    == <<runs, num_tries, exit_status, num_runs, actual_num_runs, num_results,
                failed_runs, error_runs, deleted, dropped>>
slaveVars  == <<process, job, orders, reported, twice>>
countVars  == <<faults, timeouts, stops>>
vars == <<pc, slave_index, runVars, state, current_run, command, inbox, lines, slaveVars, countVars>>

Message == [slave : Slave, status : Resolution \cup {"init", "broken"}]
State   == {"MC_UNINITIALIZED", "MC_INITIALIZING", "MC_READY", "MC_RUNNING", "MC_STOPPING",
            "MC_STOPPED", "MC_FINISHED", "MC_UNRESPONSIVE_RUNNING", "MC_UNRESPONSIVE_STOPPING",
            "MC_DISCONNECTED"}
Process == {"none", "starting", "waiting", "running", "reported", "gone"}

\* Of the variables.
TypeOK ==
  /\ pc \in {"spawn", "receive", "timeouts", "dispatch", "connect", "done"}
  /\ slave_index \in 1 .. NumSlaves + 1
  /\ runs \in Seq(Run) /\ num_tries \in [Run -> Nat] /\ exit_status \in [Run -> ExitStatus]
  /\ num_runs \in 0 .. NumRuns /\ actual_num_runs \in Nat /\ num_results \in Nat
  /\ failed_runs \in Seq(Run) /\ error_runs \in Seq(Run)
  /\ state \in [Slave -> State] /\ current_run \in [Slave -> Run \cup {NoRun}]
  /\ command \subseteq Slave \X State /\ inbox \in Seq(Message) /\ lines \in Lines
  /\ process \in [Slave -> Process] /\ job \in [Slave -> Run \cup {NoRun}]
  /\ orders \in [Slave -> Seq(Run \cup {Shutdown})]
  /\ deleted \subseteq Run /\ dropped \subseteq Run /\ reported \in [Run -> SUBSET Resolution] /\ twice \in BOOLEAN
  /\ faults \in 0 .. MaxFaults /\ timeouts \in 0 .. MaxTroubles /\ stops \in 0 .. MaxStops

\* As the input file leaves it: mc_set_num_runs, add_slave, and the ranges.
Init ==
  /\ pc = "spawn" /\ slave_index = 1
  /\ runs = [i \in 1 .. NumRuns |-> i - 1]
  /\ num_tries = [r \in Run |-> 0] /\ exit_status = [r \in Run |-> "MC_RUN_INCOMPLETE"]
  /\ num_runs = NumRuns /\ actual_num_runs = Cardinality(InRange) /\ num_results = 0
  /\ failed_runs = <<>> /\ error_runs = <<>>
  /\ state = [s \in Slave |-> "MC_UNINITIALIZED"] /\ current_run = [s \in Slave |-> NoRun]
  /\ command = {} /\ inbox = <<>> /\ lines \in Lines
  /\ process = [s \in Slave |-> "none"] /\ job = [s \in Slave |-> NoRun]
  /\ orders = [s \in Slave |-> <<>>]
  /\ deleted = {} /\ dropped = {} /\ reported = [r \in Run |-> {}] /\ twice = FALSE
  /\ faults = 0 /\ timeouts = 0 /\ stops = 0

Fault(f) ==
  /\ f \in Faults /\ faults < MaxFaults /\ faults + timeouts < MaxTroubles
  /\ faults' = faults + 1
Timeout == faults + timeouts < MaxTroubles /\ timeouts' = timeouts + 1

--------------------------------------------------------------------------------
(***************************************************************************)
(* The bookkeeping of the master.                                          *)
(***************************************************************************)
UnresolvedAlways(run) == TRUE
Unresolved(run) == exit_status[run] = "MC_RUN_INCOMPLETE"

\* Mutant of Dequeue: only the run in front.
DequeueFront(run, queue) == IF queue = <<>> THEN queue ELSE Tail(queue)

\* The loop of dequeue_run steps over the run that follows one it erases.
DequeueStep(run, acc, r) ==
  IF r = run /\ ~acc.skip THEN [kept |-> acc.kept, skip |-> TRUE]
                          ELSE [kept |-> Append(acc.kept, r), skip |-> FALSE]
Dequeue(run, queue) ==
  LET Loop[n \in 0 .. Len(queue)] ==
        IF n = 0 THEN [kept |-> <<>>, skip |-> FALSE] ELSE DequeueStep(run, Loop[n - 1], queue[n])
  IN  Loop[Len(queue)].kept

ResolveRun(run, status) ==
  /\ failed_runs' = IF status = "MC_RUN_FAILED" THEN Append(failed_runs, run) ELSE failed_runs
  /\ error_runs' = IF status \notin {"MC_RUN_FAILED", "MC_RUN_COMPLETE"}
                   THEN Append(error_runs, run) ELSE error_runs
  /\ exit_status' = [exit_status EXCEPT ![run] = status]
  /\ num_results' = num_results + 1

MayRetry(run) == MaxTries = 0 \/ num_tries[run] < MaxTries

\* queue is runs as the caller has left it.
HandleRetry(run, status, queue) ==
  IF MayRetry(run)
  THEN /\ runs' = Append(queue, run)
       /\ UNCHANGED <<exit_status, num_results, failed_runs, error_runs>>
  ELSE ResolveRun(run, status) /\ runs' = queue

\* Of the queue and the states: what is resolved, queued or on its way.
UpdateActualNumRuns(queue) ==
  actual_num_runs' = num_results
    + Cardinality({i \in 1 .. Len(queue) : queue[i] \in InRange})
    + Cardinality({s \in Slave : state[s] \in {"MC_RUNNING", "MC_STOPPING"}})

\* Runs are deleted from the back of the queue, whichever runs those are.
SetNumRuns(n) ==
  LET excess == IF num_runs > n THEN num_runs - n ELSE 0
      pops   == IF excess < Len(runs) THEN excess ELSE Len(runs)
      left   == Len(runs) - pops
  IN /\ runs' = SubSeq(runs, 1, left)
     /\ deleted' = deleted \cup {runs[i] : i \in left + 1 .. Len(runs)}
     /\ num_runs' = num_runs - pops
     /\ UpdateActualNumRuns(runs')

EndOfFile(run) == num_tries[run] = 0 /\ run >= lines

--------------------------------------------------------------------------------
(***************************************************************************)
(* The loop of the master.                                                 *)
(***************************************************************************)
Goto(place) == pc' = place

\* The slaves not spawned yet are: system() starts the process.
SpawnSlaves ==
  /\ pc = "spawn" /\ num_results < actual_num_runs
  /\ state' = [s \in Slave |-> IF state[s] = "MC_UNINITIALIZED" THEN "MC_INITIALIZING" ELSE state[s]]
  /\ process' = [s \in Slave |-> IF state[s] = "MC_UNINITIALIZED" THEN "starting" ELSE process[s]]
  /\ Goto("receive")
  /\ UNCHANGED <<slave_index, runVars, current_run, inbox, lines, job, orders, reported, twice, countVars>>

\* With a result for every run the slaves whose port is known are told to shut down.  The sockets
\* are closed: nobody reads what is still in the inbox.
MasterShutdown ==
  /\ pc = "spawn" /\ num_results >= actual_num_runs
  /\ state' = [s \in Slave |-> "MC_FINISHED"]
  /\ orders' = [s \in Slave |->
       IF process[s] # "gone" /\ state[s] \notin {"MC_UNINITIALIZED", "MC_INITIALIZING"}
       THEN Append(orders[s], Shutdown) ELSE orders[s]]
  /\ inbox' = <<>>
  /\ Goto("done")
  /\ UNCHANGED <<slave_index, runVars, current_run, lines, process, job, reported, twice, countVars>>

NothingToReceive ==
  /\ pc = "receive" /\ inbox = <<>>
  /\ slave_index' = 1 /\ Goto("timeouts")
  /\ UNCHANGED <<runVars, state, current_run, inbox, lines, slaveVars, countVars>>

Accept(s, status) ==
  /\ pc = "receive" /\ inbox # <<>> /\ Head(inbox) = [slave |-> s, status |-> status]
  /\ inbox' = Tail(inbox)
  /\ UNCHANGED <<pc, slave_index, num_tries, num_runs, actual_num_runs, current_run, lines,
                 deleted, slaveVars, countVars>>

HandleInitialization(s) ==
  \E status \in {"init", "broken"} :
    /\ Accept(s, status) /\ state[s] = "MC_INITIALIZING"
    /\ state' = [state EXCEPT ![s] = IF status = "init" THEN "MC_READY" ELSE "MC_DISCONNECTED"]
    /\ UNCHANGED <<runs, exit_status, num_results, failed_runs, error_runs, dropped>>

\* The state of a slave whose message has been handled.
AnsweredInTime(s) ==
  state' = [state EXCEPT ![s] = IF state[s] = "MC_RUNNING" THEN "MC_READY"
                                ELSE IF state[s] = "MC_STOPPING" THEN "MC_STOPPED" ELSE state[s]]
Answered(s) ==
  state' = [state EXCEPT ![s] =
    IF state[s] \in {"MC_RUNNING", "MC_UNRESPONSIVE_RUNNING"} THEN "MC_READY"
    ELSE IF state[s] \in {"MC_STOPPING", "MC_UNRESPONSIVE_STOPPING"} THEN "MC_STOPPED"
    ELSE state[s]]

\* The run may wait to be tried again, after a timeout: it is not, now that its result is here.
HandleRunData(s, status) ==
  LET run == current_run[s] IN
  /\ Accept(s, status) /\ state[s] # "MC_INITIALIZING"
  /\ LET queue == Dequeue(run, runs) IN
     \/ /\ ~Unresolved(run)       \* discarded
        /\ runs' = queue /\ Answered(s)
        /\ UNCHANGED <<exit_status, num_results, failed_runs, error_runs, dropped>>
     \/ /\ Unresolved(run) /\ status = "broken"
        /\ runs' = queue /\ dropped' = dropped \cup {run}
        /\ state' = [state EXCEPT ![s] = "MC_DISCONNECTED"]
        /\ UNCHANGED <<exit_status, num_results, failed_runs, error_runs>>
     \/ /\ Unresolved(run) /\ status \in Outcomes
        /\ ResolveRun(run, status) /\ runs' = queue /\ Answered(s)
        /\ UNCHANGED dropped
     \/ /\ Unresolved(run) /\ status = "MC_RUN_TIMED_OUT"
        /\ HandleRetry(run, status, queue) /\ Answered(s)
        /\ UNCHANGED dropped

TimedOutForgiven(s) == state' = [state EXCEPT ![s] = "MC_READY"]
TimedOut(s) ==
  state' = [state EXCEPT ![s] = IF state[s] = "MC_RUNNING" THEN "MC_UNRESPONSIVE_RUNNING"
                                                           ELSE "MC_UNRESPONSIVE_STOPPING"]

\* One round of the loop of check_timeouts.  A run is looked at if it has no result yet; the
\* slave is unresponsive either way.
CheckTimeouts(s) ==
  /\ pc = "timeouts" /\ slave_index = s
  /\ slave_index' = s + 1
  /\ \/ UNCHANGED <<runs, exit_status, num_results, failed_runs, error_runs, state, timeouts>>
     \/ /\ state[s] \in {"MC_RUNNING", "MC_STOPPING"}
        /\ Timeout
        /\ IF Unresolved(current_run[s])
           THEN HandleRetry(current_run[s], "MC_RUN_TIMED_OUT", runs)
           ELSE UNCHANGED <<runs, exit_status, num_results, failed_runs, error_runs>>
        /\ TimedOut(s)
  /\ UNCHANGED <<pc, num_tries, num_runs, actual_num_runs, deleted, dropped, current_run, inbox,
                 lines, slaveVars, faults, stops>>

TimeoutsChecked ==
  /\ pc = "timeouts" /\ slave_index > NumSlaves /\ Goto("dispatch")
  /\ UNCHANGED <<slave_index, runVars, state, current_run, inbox, lines, slaveVars, countVars>>

\* get_next_dispatch: a run out of range is prepared and forgotten.
SkipRun ==
  /\ pc = "dispatch" /\ runs # <<>> /\ Head(runs) \notin InRange
  /\ IF EndOfFile(Head(runs))
     THEN SetNumRuns(Head(runs))
     ELSE runs' = Dequeue(Head(runs), runs) /\ UNCHANGED <<num_runs, actual_num_runs, deleted>>
  /\ UNCHANGED <<pc, slave_index, num_tries, exit_status, num_results, failed_runs, error_runs,
                 dropped, state, current_run, inbox, lines, slaveVars, countVars>>

GetReadySlave(s) == state[s] = "MC_READY" /\ \A t \in 1 .. s - 1 : state[t] # "MC_READY"

NextDispatch(s) ==
  /\ pc = "dispatch" /\ runs # <<>> /\ Head(runs) \in InRange /\ GetReadySlave(s)
  /\ slave_index' = s /\ Goto("connect")
  /\ UNCHANGED <<runVars, state, current_run, inbox, lines, slaveVars, countVars>>

DispatchNothing ==
  /\ pc = "dispatch"
  /\ runs # <<>> => Head(runs) \in InRange /\ \A s \in Slave : ~GetReadySlave(s)
  /\ Goto("spawn")
  /\ UNCHANGED <<slave_index, runVars, state, current_run, inbox, lines, slaveVars, countVars>>

\* A file of values ends: there are no more runs than it has lines.
DispatchEndOfFile(run) ==
  /\ pc = "connect" /\ Head(runs) = run /\ EndOfFile(run)
  /\ SetNumRuns(run) /\ Goto("spawn")
  /\ UNCHANGED <<slave_index, num_tries, exit_status, num_results, failed_runs, error_runs,
                 dropped, state, current_run, inbox, lines, slaveVars, countVars>>

\* The run has left the queue before the connection is tried, and the slave is running whatever
\* a client has made of it since it was found ready.
DispatchRunToSlave(run, s) ==
  /\ pc = "connect" /\ Head(runs) = run /\ slave_index = s /\ ~EndOfFile(run)
  /\ runs' = Dequeue(run, runs) /\ Goto("spawn")
  /\ \/ /\ process[s] # "gone"
        /\ state' = [state EXCEPT ![s] = "MC_RUNNING"]
        /\ current_run' = [current_run EXCEPT ![s] = run]
        /\ num_tries' = [num_tries EXCEPT ![run] = @ + 1]
        /\ orders' = [orders EXCEPT ![s] = Append(@, run)]
        /\ UNCHANGED <<dropped, faults>>
     \/ /\ \/ process[s] = "gone" /\ UNCHANGED faults
           \/ process[s] # "gone" /\ Fault("refuse")
        /\ state' = [state EXCEPT ![s] = "MC_DISCONNECTED"]
        /\ dropped' = dropped \cup {run}
        /\ UNCHANGED <<current_run, num_tries, orders>>
  /\ UNCHANGED <<slave_index, exit_status, num_runs, actual_num_runs, num_results, failed_runs,
                 error_runs, deleted, inbox, lines, process, job, reported, twice, timeouts, stops>>

MasterSteps ==
  \/ SpawnSlaves \/ MasterShutdown \/ NothingToReceive \/ TimeoutsChecked
  \/ SkipRun \/ DispatchNothing
  \/ \E s \in Slave :
       \/ HandleInitialization(s) \/ CheckTimeouts(s) \/ NextDispatch(s)
       \/ \E status \in Resolution \cup {"broken"} : HandleRunData(s, status)
       \/ \E run \in Run : DispatchRunToSlave(run, s)
  \/ \E run \in Run : DispatchEndOfFile(run)
Master == (TornCommands \/ command = {}) /\ MasterSteps /\ UNCHANGED command

--------------------------------------------------------------------------------
(***************************************************************************)
(* A client of the master, in a thread of its own.                         *)
(***************************************************************************)
StopTo  == {<<"MC_READY", "MC_STOPPED">>, <<"MC_RUNNING", "MC_STOPPING">>,
            <<"MC_UNRESPONSIVE_RUNNING", "MC_UNRESPONSIVE_STOPPING">>}
StartTo == {<<c[2], c[1]>> : c \in StopTo}

\* The state of the slave is tested, without a lock, ...
TestState(s, to) ==
  /\ pc # "done" /\ command = {}
  /\ \E t \in State : <<state[s], t>> \in to /\ command' = {<<s, t>>}
  /\ UNCHANGED <<pc, slave_index, runVars, state, current_run, inbox, lines, slaveVars, faults, timeouts>>
StopSlave(s)  == TestState(s, StopTo) /\ stops < MaxStops /\ stops' = stops + 1
StartSlave(s) == TestState(s, StartTo) /\ UNCHANGED stops

\* ... and then set.
SetState(s) ==
  /\ \E t \in State : command = {<<s, t>>} /\ state' = [state EXCEPT ![s] = t]
  /\ command' = {}
  /\ UNCHANGED <<pc, slave_index, runVars, current_run, inbox, lines, slaveVars, countVars>>

Client == \E s \in Slave : StopSlave(s) \/ StartSlave(s) \/ SetState(s)

--------------------------------------------------------------------------------
(***************************************************************************)
(* A slave.                                                                *)
(***************************************************************************)
BecomeIn(s, from, to) == process[s] = from /\ process' = [process EXCEPT ![s] = to]

\* A connection to the master, on which status is sent.  It may break before the status is read.
Send(s, status) ==
  /\ pc # "done"
  /\ \/ inbox' = Append(inbox, [slave |-> s, status |-> status]) /\ UNCHANGED faults
     \/ inbox' = Append(inbox, [slave |-> s, status |-> "broken"]) /\ Fault("break")
Unsent == pc = "done" /\ UNCHANGED <<inbox, faults>>

SlaveInit(s) ==
  /\ \/ BecomeIn(s, "starting", "waiting") /\ Send(s, "init")
     \/ BecomeIn(s, "starting", "gone") /\ Unsent
  /\ UNCHANGED <<pc, slave_index, runVars, state, current_run, lines, job, orders, reported, twice, timeouts, stops>>

\* execute_as_slave: the next order, and the fork of the child for a run.
ExecuteAsSlave(s) ==
  /\ orders[s] # <<>> /\ orders' = [orders EXCEPT ![s] = Tail(@)]
  /\ \/ /\ Head(orders[s]) = Shutdown /\ BecomeIn(s, "waiting", "gone") /\ UNCHANGED job
     \/ /\ Head(orders[s]) # Shutdown /\ BecomeIn(s, "waiting", "running")
        /\ job' = [job EXCEPT ![s] = Head(orders[s])]
  /\ UNCHANGED <<pc, slave_index, runVars, state, current_run, inbox, lines, reported, twice, countVars>>

\* The shutdown job of the child reports how the run ended; nothing if the master is gone.
ChildReports(s, status) ==
  /\ BecomeIn(s, "running", "reported")
  /\ Send(s, status) \/ Unsent
  /\ reported' = [reported EXCEPT ![job[s]] = @ \cup {status}]
  /\ UNCHANGED <<pc, slave_index, runVars, state, current_run, lines, job, orders, twice, timeouts, stops>>

\* The parent waits until its child has exited.
ChildExits(s) ==
  /\ BecomeIn(s, "reported", "waiting") /\ job' = [job EXCEPT ![s] = NoRun]
  /\ UNCHANGED <<pc, slave_index, runVars, state, current_run, inbox, lines, orders, reported, twice, countVars>>

\* A signal killed the child: the parent reports it, or shuts down when it cannot.
ParentReports(s, from, status) ==
  /\ \/ BecomeIn(s, from, "waiting") /\ Send(s, status)
     \/ BecomeIn(s, from, "gone") /\ Unsent
  /\ job' = [job EXCEPT ![s] = NoRun]
  /\ reported' = [reported EXCEPT ![job[s]] = @ \cup {status}]
  /\ UNCHANGED <<pc, slave_index, runVars, state, current_run, lines, orders, twice, stops>>

ChildEnds(s) ==
  \E status \in Outcomes :
    IF status = "MC_RUN_DUMPED_CORE"
    THEN ParentReports(s, "running", status) /\ UNCHANGED timeouts
    ELSE ChildReports(s, status)

\* The alarm the child has set for itself.
ChildTimesOut(s) ==
  /\ Timeout
  /\ ParentReports(s, "running", "MC_RUN_TIMED_OUT")

\* The child is killed when it has reported already, in its jobs of class monte_slave_post.
ChildDiesLate(s) ==
  /\ Fault("post") /\ pc # "done"
  /\ BecomeIn(s, "reported", "waiting") /\ job' = [job EXCEPT ![s] = NoRun]
  /\ \E status \in {"MC_RUN_TIMED_OUT", "MC_RUN_DUMPED_CORE"} :
       /\ inbox' = Append(inbox, [slave |-> s, status |-> status])
       /\ reported' = [reported EXCEPT ![job[s]] = @ \cup {status}]
  /\ twice' = TRUE
  /\ UNCHANGED <<pc, slave_index, runVars, state, current_run, lines, orders, timeouts, stops>>

\* The child exits before its shutdown job: its input does not parse, its directory cannot be
\* made, or the user calls exit().  The parent takes it that the child has reported.
ChildExitsSilently(s) ==
  /\ Fault("silent")
  /\ BecomeIn(s, "running", "waiting") /\ job' = [job EXCEPT ![s] = NoRun]
  /\ UNCHANGED <<pc, slave_index, runVars, state, current_run, inbox, lines, orders, reported, twice, timeouts, stops>>

\* The machine of the slave goes down.
SlaveDies(s) ==
  /\ Fault("die") /\ process[s] \notin {"none", "gone"}
  /\ process' = [process EXCEPT ![s] = "gone"] /\ job' = [job EXCEPT ![s] = NoRun]
  /\ orders' = [orders EXCEPT ![s] = <<>>]
  /\ UNCHANGED <<pc, slave_index, runVars, state, current_run, inbox, lines, reported, twice, timeouts, stops>>

SlaveSteps(s) ==
  (SlaveInit(s) \/ ExecuteAsSlave(s) \/ ChildEnds(s) \/ ChildExits(s)) /\ UNCHANGED command
SlaveFails(s) ==
  /\ ChildTimesOut(s) \/ ChildDiesLate(s) \/ ChildExitsSilently(s) \/ SlaveDies(s)
  /\ UNCHANGED command

--------------------------------------------------------------------------------
Next == Master \/ Client \/ \E s \in Slave : SlaveSteps(s) \/ SlaveFails(s)
Spec == Init /\ [][Next]_vars

\* The loop of the master never waits, nor does a call of a client.  A slave blocks in accept and in
\* waitpid, and its child ends: the alarm is set before it runs.
FairSpec ==
  /\ Spec /\ WF_vars(Master)
  /\ \A s \in Slave : WF_vars(SetState(s)) /\ WF_vars(SlaveSteps(s))

--------------------------------------------------------------------------------
Resolved == {r \in Run : exit_status[r] # "MC_RUN_INCOMPLETE"}

\* A run has one result: num_results counts the runs with one, and the lists of the summary hold
\* each of the others once, although a run may be dispatched twice and answered twice.
ResultsCountedOnce ==
  /\ num_results = Cardinality(Resolved)
  /\ \A r \in Run :
       /\ Cardinality({i \in DOMAIN failed_runs : failed_runs[i] = r})
            = (IF exit_status[r] = "MC_RUN_FAILED" THEN 1 ELSE 0)
       /\ Cardinality({i \in DOMAIN error_runs : error_runs[i] = r})
            = (IF exit_status[r] \in {"MC_RUN_DUMPED_CORE", "MC_RUN_TIMED_OUT"} THEN 1 ELSE 0)

Held(r) ==
  \/ r \in ToSet(runs)
  \/ \E s \in Slave : current_run[s] = r /\ state[s] \in {"MC_RUNNING", "MC_STOPPING"}

\* A run in range without a result waits in the queue or is with a slave the master will hear
\* from or time out.  Only a lost connection loses a run, and only a short file deletes one.
NoRunForgotten ==
  \A r \in InRange \ (Resolved \cup dropped \cup deleted) : pc # "done" => Held(r)

\* The same for a run whose slave is lost: the master is to reassign its work.
RunsReassigned ==
  \A r \in InRange \ (Resolved \cup deleted) : pc # "done" => Held(r)

\* The result of a run is one that was reported of that run, unless the master gave up on it,
\* whichever slave answered late: as long as no slave reports one run twice.
ResultOfItsRun ==
  \A r \in Resolved : exit_status[r] \in reported[r] \cup {"MC_RUN_TIMED_OUT"} \/ twice

\* The same for every slave.
SecondReportDiscarded ==
  \A r \in Resolved : exit_status[r] \in reported[r] \cup {"MC_RUN_TIMED_OUT"}

\* max_tries is the number of times a run may be dispatched.
TriesHonoured == MaxTries > 0 => \A r \in Run : num_tries[r] <= MaxTries

\* The master does not shut down before every run in range has a result, unless runs were deleted
\* because the file of values is too short.
AllResolved == pc = "done" /\ deleted = {} => InRange \subseteq Resolved

\* The same with a file that is too short, of the runs it has values for.
ResolvedToEndOfFile == pc = "done" => \A r \in InRange \ dropped : r < lines => r \in Resolved

\* Through timeouts, retries and lost slaves the master knows where each run is, also when a file
\* is too short; when it is not, it waits for the last result.
RunsAccountedFor == TypeOK /\ NoRunForgotten /\ TriesHonoured /\ AllResolved

\* With a slave that answers there is an end, however many timeouts there are.
Usable(s) == state[s] \notin {"MC_STOPPED", "MC_STOPPING", "MC_UNRESPONSIVE_STOPPING"}
NoTrouble == faults = 0 /\ \E s \in Slave : Usable(s)
Ends == [](NoTrouble /\ lines >= NumRuns) => <>(pc = "done")

\* The same when a file of values is shorter than the runs asked for.
EndsAtEndOfFile == []NoTrouble => <>(pc = "done")

\* After the master, every slave goes away.
SlavesLeave == [](faults = 0) => \A s \in Slave : pc = "done" ~> process[s] \in {"none", "gone"}
==============================================================================
