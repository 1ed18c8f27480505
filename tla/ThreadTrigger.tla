---------------------------- MODULE ThreadTrigger ----------------------------
(***************************************************************************)
(* The four mechanisms by which the master starts a child thread           *)
(* (Executive/ThreadTrigger.cpp): a mutex with a condition variable, a     *)
(* flag the child spins on, an eventfd and a futex.                        *)
(*                                                                         *)
(* trig[c].wait says where child c is with respect to wait():              *)
(*   "new"       init() has not been called, go_mutex is free;             *)
(*   "out"       the child is outside wait(); with TT_MUTEX it holds       *)
(*               go_mutex, which only pthread_cond_wait releases;          *)
(*   "in"        the child sleeps, spins or reads in wait();               *)
(*   "signalled" a sleeping child was woken and has not returned yet.      *)
(* trig[c].flag is frame_trigger, trig[c].efd the count of the eventfd.    *)
(***************************************************************************)
EXTENDS Naturals

CONSTANTS
  NumChild,         \* the number of child threads
  TriggerType,      \* [Child -> TriggerKind]: setThreadTrigger of each child
  SpuriousWakeups   \* may pthread_cond_wait and FUTEX_WAIT return unsignalled?

Child == 1 .. NumChild

TriggerKind == {"TT_MUTEX", "TT_FLAG", "TT_EVENTFD", "TT_FUTEX"}

ASSUME TriggerAssumption ==
  /\ NumChild \in Nat
  /\ TriggerType \in [Child -> TriggerKind]
  /\ SpuriousWakeups \in BOOLEAN

VARIABLE trig

TriggerTypeOK ==
  trig \in [Child -> [wait : {"new", "out", "in", "signalled"},
                      flag : BOOLEAN,
                      efd  : Nat]]

TriggerInit == trig = [c \in Child |-> [wait |-> "new", flag |-> FALSE, efd |-> 0]]

(***************************************************************************)
(* init(): only the mutex trigger does something, it locks go_mutex.       *)
(***************************************************************************)
InitTrigger(c) ==
  /\ trig[c].wait = "new"
  /\ trig' = [trig EXCEPT ![c].wait = "out"]

(***************************************************************************)
(* fire(), by the master.  The mutex form blocks while the child holds     *)
(* go_mutex.  A wake of a futex nobody sleeps on has no effect, nor has a  *)
(* signal of the condition variable.                                       *)
(***************************************************************************)
Fire(c) ==
  \/ /\ TriggerType[c] = "TT_MUTEX"
     /\ trig[c].wait # "out"
     /\ trig' = [trig EXCEPT ![c].wait = IF @ = "in" THEN "signalled" ELSE @]
  \/ /\ TriggerType[c] = "TT_FLAG"
     /\ trig' = [trig EXCEPT ![c].flag = TRUE]
  \/ /\ TriggerType[c] = "TT_EVENTFD"
     /\ trig' = [trig EXCEPT ![c].efd = @ + 1]
  \/ /\ TriggerType[c] = "TT_FUTEX"
     /\ trig' = [trig EXCEPT ![c].wait = IF @ = "in" THEN "signalled" ELSE @]

(***************************************************************************)
(* wait(), by the child, in two steps: it goes to sleep (or starts to spin *)
(* or to read), and it returns.  Neither pthread_cond_wait nor FUTEX_WAIT  *)
(* is in a loop that tests a predicate.                                    *)
(***************************************************************************)
EnterWait(c) ==
  /\ trig[c].wait = "out"
  /\ trig' = [trig EXCEPT ![c].wait = "in"]

LeaveWait(c) ==
  \/ /\ TriggerType[c] \in {"TT_MUTEX", "TT_FUTEX"}
     /\ \/ trig[c].wait = "signalled"
        \/ SpuriousWakeups /\ trig[c].wait = "in"
     /\ trig' = [trig EXCEPT ![c].wait = "out"]
  \/ /\ TriggerType[c] = "TT_FLAG"
     /\ trig[c].wait = "in" /\ trig[c].flag
     /\ trig' = [trig EXCEPT ![c].wait = "out", ![c].flag = FALSE]
  \/ /\ TriggerType[c] = "TT_EVENTFD"
     /\ trig[c].wait = "in" /\ trig[c].efd > 0
     /\ trig' = [trig EXCEPT ![c].wait = "out", ![c].efd = 0]
==============================================================================
