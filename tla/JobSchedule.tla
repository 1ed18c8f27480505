----------------------------- MODULE JobSchedule -----------------------------
(***************************************************************************)
(* What a scheduler of periodic jobs promises: job j is called once at     *)
(* each of the times First[j], First[j] + Cycle[j], ... up to Stop[j], and *)
(* the time moves on only when the jobs of the current time are done, and  *)
(* never past the next call.  Executive implements this for the jobs of    *)
(* the master thread and of the scheduled threads.                         *)
(***************************************************************************)
EXTENDS Integers

CONSTANTS
  Job,                  \* the jobs the promise is about
  First, Cycle, Stop,   \* [Job -> Nat]: the first call, the period, the last time
  End                   \* the time at which the run ends

\* What is assumed of the constants.
ScheduleAssumption ==
  /\ First \in [Job -> Nat]
  /\ Cycle \in [Job -> Nat \ {0}]
  /\ Stop \in [Job -> Nat]
  /\ End \in Nat

VARIABLES
  now,    \* the simulation time
  last    \* the time of the last finished call of each job, -1 before the first

scheduleVars == <<now, last>>

DueAt(j, n) == n >= First[j] /\ n <= Stop[j] /\ (n - First[j]) % Cycle[j] = 0

Init == now = 0 /\ last = [j \in Job |-> -1]

Call(j) ==
  /\ DueAt(j, now) /\ last[j] < now
  /\ last' = [last EXCEPT ![j] = now]
  /\ UNCHANGED now

\* No call falls between now and time n.
NoneBetween(n) == \A j \in Job : \A m \in (now + 1) .. (n - 1) : ~DueAt(j, m)

Tick ==
  /\ now' \in (now + 1) .. End
  /\ \A j \in Job : DueAt(j, now) => last[j] = now
  /\ NoneBetween(now')
  /\ UNCHANGED last

Next == Tick \/ \E j \in Job : Call(j)

Spec == Init /\ [][Next]_scheduleVars

\* Every call of every job up to the current time has been made, the calls at
\* the current time may still be under way, and no job ran at another time.
NoCallMissed ==
  \A j \in Job :
    /\ \A n \in 0 .. (now - 1) : DueAt(j, n) => last[j] >= n
    /\ last[j] # -1 => DueAt(j, last[j]) /\ last[j] <= now
==============================================================================
