---------------------------- MODULE EventManager ----------------------------
(***************************************************************************)
(* The events of the input file: the event manager, which keeps those that *)
(* were added, and the event processor of the main thread, which keeps     *)
(* them in the order of their next times and moves its job to the first.   *)
(*                                                                         *)
(* Events are added, removed and turned on and off by the jobs, by the     *)
(* actions of events and by clients while the simulation is frozen; a      *)
(* checkpoint saves the added events but neither the set of the processor  *)
(* nor the jobs the events hang on: restart builds both anew.              *)
(***************************************************************************)
EXTENDS Integers, Sequences, SequencesExt, FiniteSets

CONSTANTS
  Event,
  Cycle,          \* [Event -> Nat]: cycle_tics, 0 for a read event
  Target,         \* the jobs events may be attached to
  Frame,          \* software_frame_tics
  Never,          \* TRICK_MAX_LONG_LONG, later than any time
  Bold,           \* the calls that are made though the code does not bear them, see Calls
  MaxTime,        \* bound: the last time
  MaxCalls,       \* bound: the number of calls
  MaxReloads      \* bound: the number of checkpoints loaded

\* The calls the code does not bear: to add what is there already; to add to the processor
\* what was attached to a job before; to remove an event that waits for the top of the frame,
\* or whose own action runs, or that shares its job; to save while an event waits; to save
\* one with several jobs; to load while an event waits.
Calls == {"twice", "retarget", "removePending", "removeRunning", "removeShared",
          "savePending", "saveTargets", "loadPending"}
NoEvent == "none"
NoSave == [time |-> Never]

ASSUME EventManagerAssumption ==
  /\ NoEvent \notin Event /\ Bold \subseteq Calls
  /\ Cycle \in [Event -> Nat] /\ Frame \in Nat \ {0}
  /\ Never \in Nat /\ MaxTime \in 0 .. Never - 1 /\ {MaxCalls, MaxReloads} \subseteq Nat

VARIABLES
  pc,              \* "top", "process", "events", "action" or "jobs"
  time,
  active_events,   \* of the manager
  before_after,    \* the events attached to a job, now or before
  target_name,     \* the last job each was attached to
  events_instrumented, inst,   \* the attachments the manager knows, and those of the jobs
  pending_events, event_set,   \* of the processor; the multiset, in its order
  next_tics, active,           \* of each event
  job_next,        \* process_event_job->next_tics
  curr_event,      \* the event process_event took out of the set
  saved,           \* the checkpoint
  asked,           \* ghost: the attachments asked for and not removed
  calls, reloads   \* ghosts: the number of calls and of loads

manager == <<active_events, before_after, target_name, events_instrumented, inst>>
vars == <<pc, time, manager, pending_events, event_set, next_tics, active, job_next, curr_event,
          saved, asked, calls, reloads>>

\* Of the variables; an event is at most once in the processor.
TypeOK ==
  /\ pc \in {"top", "process", "events", "action", "jobs"} /\ time \in 0 .. MaxTime
  /\ active_events \subseteq Event /\ before_after \subseteq Event
  /\ events_instrumented \subseteq Event \X Target /\ inst \subseteq Event \X Target
  /\ pending_events \in Seq(Event) /\ event_set \in Seq(Event)
  /\ IsInjective(pending_events \o event_set)
  /\ next_tics \in [Event -> Nat] /\ active \subseteq Event /\ job_next \in Nat
  /\ curr_event \in Event \cup {NoEvent} /\ asked \subseteq Event \X Target

Init ==
  /\ pc = "top" /\ time = 0
  /\ active_events = {} /\ before_after = {} /\ target_name = [e \in Event |-> NoEvent]
  /\ events_instrumented = {} /\ inst = {}
  /\ pending_events = <<>> /\ event_set = <<>>
  /\ next_tics = [e \in Event |-> 0] /\ active = {} /\ job_next = 0 /\ curr_event = NoEvent
  /\ saved = NoSave /\ asked = {} /\ calls = 0 /\ reloads = 0

--------------------------------------------------------------------------------
(***************************************************************************)
(* The processor.                                                          *)
(***************************************************************************)
\* event_set.insert: behind those of the same time and before.
InsertLast(set, tics, e) == Append(set, e)     \* the mutant: the order is lost
Insert(set, tics, e) ==
  InsertAt(set, 1 + Cardinality({i \in DOMAIN set : tics[set[i]] <= tics[e]}), e)

\* The time of the first event of the set.
HeadTics(set, tics) == IF set = <<>> THEN Never ELSE tics[set[1]]

\* add_pending_events, for one event and for all: a cyclic event starts now, unless it comes from
\* a checkpoint; a read event whose time is past is dropped.  caller is "top_of_frame" or
\* "restart", where is_restart is TRUE.
NewTics(tics, e, now, caller) ==
  IF Cycle[e] # 0 /\ caller # "restart" THEN [tics EXCEPT ![e] = now] ELSE tics

AddPending(p, e, now, caller) ==
  LET tics == NewTics(p.tics, e, now, caller)
      set  == Insert(p.set, tics, e)
  IN  IF Cycle[e] = 0 /\ p.tics[e] < now THEN p
      ELSE [set |-> set, tics |-> tics, job |-> HeadTics(set, tics)]

AddAll(pending, p, now, caller) ==
  LET AddUpTo[n \in 0 .. Len(pending)] ==
        IF n = 0 THEN p ELSE AddPending(AddUpTo[n - 1], pending[n], now, caller)
  IN  AddUpTo[Len(pending)]

TopOfFrame ==
  /\ pc = "top" /\ pc' = "process"
  /\ IF time % Frame = 0
     THEN LET p == AddAll(pending_events, [set |-> event_set, tics |-> next_tics, job |-> job_next], time, "top_of_frame")
          IN  /\ event_set' = p.set /\ next_tics' = p.tics /\ job_next' = p.job
              /\ pending_events' = <<>>
     ELSE UNCHANGED <<pending_events, event_set, next_tics, job_next>>
  /\ UNCHANGED <<time, manager, active, curr_event, saved, asked, calls, reloads>>

\* find_next_job: is the job due?
CallJob ==
  /\ pc = "process" /\ pc' = IF job_next = time THEN "events" ELSE "jobs"
  /\ UNCHANGED <<time, manager, pending_events, event_set, next_tics, active, job_next, curr_event,
                 saved, asked, calls, reloads>>

\* One round of process_event: the first event is taken out and, if it is active, evaluated.  It
\* is turned off when its condition holds, and acts.
DueNow == HeadTics(event_set, next_tics) = time
ProcessEvent ==
  /\ pc = "events" /\ DueNow
  /\ curr_event' = event_set[1] /\ event_set' = Tail(event_set)
  /\ IF curr_event' \in active
     THEN active' \in {active, active \ {curr_event'}}
     ELSE UNCHANGED active
  /\ pc' = "action"
  /\ UNCHANGED <<time, manager, pending_events, next_tics, job_next, saved, asked, calls, reloads>>

\* The event goes back in the set, if it is cyclic: also if its action removed it.
PutBackIfActive(e) == e \in active             \* the mutant: only while it is turned on
PutBack(e) == Cycle[e] # 0
ActionDone ==
  /\ pc = "action" /\ pc' = "events"
  /\ IF PutBack(curr_event)
     THEN /\ next_tics' = [next_tics EXCEPT ![curr_event] = @ + Cycle[curr_event]]
          /\ event_set' = Insert(event_set, next_tics', curr_event)
     ELSE UNCHANGED <<next_tics, event_set>>
  /\ curr_event' = NoEvent
  /\ UNCHANGED <<time, manager, pending_events, active, job_next, saved, asked, calls, reloads>>

ProcessDone ==
  /\ pc = "events" /\ ~DueNow /\ pc' = "jobs"
  /\ job_next' = HeadTics(event_set, next_tics)
  /\ UNCHANGED <<time, manager, pending_events, event_set, next_tics, active, curr_event, saved,
                 asked, calls, reloads>>

\* A job calls the events attached to it.
Fire(e) ==
  /\ pc = "jobs" /\ e \in active /\ \E j \in Target : <<e, j>> \in inst
  /\ active' = active \ {e}
  /\ UNCHANGED <<pc, time, manager, pending_events, event_set, next_tics, job_next, curr_event,
                 saved, asked, calls, reloads>>

AdvanceTime ==
  /\ pc = "jobs" /\ time < MaxTime /\ pc' = "top" /\ time' = time + 1
  /\ UNCHANGED <<manager, pending_events, event_set, next_tics, active, job_next, curr_event,
                 saved, asked, calls, reloads>>

--------------------------------------------------------------------------------
(***************************************************************************)
(* The calls.                                                              *)
(***************************************************************************)
Call == pc \in {"top", "action", "jobs"} /\ calls < MaxCalls /\ calls' = calls + 1

AddEvent(e) ==
  /\ Call /\ Cycle[e] # 0
  /\ e \in active_events => "twice" \in Bold
  /\ e \in before_after => "retarget" \in Bold
  /\ active_events' = active_events \cup {e}
  /\ pending_events' = Append(pending_events, e)
  /\ UNCHANGED <<pc, time, before_after, target_name, events_instrumented, inst, event_set,
                 next_tics, active, job_next, curr_event, saved, asked, reloads>>

\* ippython_add_read: each call makes a new event.
AddRead(e, t) ==
  /\ Call /\ Cycle[e] = 0 /\ e \notin active_events
  /\ next_tics' = [next_tics EXCEPT ![e] = t]
  /\ active_events' = active_events \cup {e}
  /\ pending_events' = Append(pending_events, e)
  /\ active' = active \cup {e}
  /\ UNCHANGED <<pc, time, before_after, target_name, events_instrumented, inst, event_set,
                 job_next, curr_event, saved, asked, reloads>>

\* add_event_before, add_event_after.
AddEventAt(e, j) ==
  /\ Call /\ Cycle[e] # 0
  /\ e \in active_events => "twice" \in Bold \/ (e \in before_after /\ <<e, j>> \notin inst)
  /\ before_after' = before_after \cup {e} /\ target_name' = [target_name EXCEPT ![e] = j]
  /\ events_instrumented' = events_instrumented \cup {<<e, j>>} /\ inst' = inst \cup {<<e, j>>}
  /\ active_events' = active_events \cup {e}
  /\ asked' = asked \cup {<<e, j>>}
  /\ UNCHANGED <<pc, time, pending_events, event_set, next_tics, active, job_next, curr_event,
                 saved, reloads>>

\* EventProcessor::remove_event looks in the set only, and erases the event where it is first.
IsFirst(i, e) == event_set[i] = e /\ \A k \in 1 .. i - 1 : event_set[k] # e
RemoveFromSet(e) ==
  /\ IF e \in ToSet(event_set)
     THEN \E i \in DOMAIN event_set : IsFirst(i, e) /\ event_set' = RemoveAt(event_set, i)
     ELSE UNCHANGED event_set
  /\ job_next' = HeadTics(event_set', next_tics)

\* remove_inst, for every job the event is attached to: by name, and the names are all empty.
NoneDetached(e) == inst                        \* the mutant: the jobs keep the event
Detached(e) == {h \in inst : <<e, h[2]>> \notin events_instrumented}

RemoveEvent(e) ==
  /\ Call /\ e \in active_events
  /\ e \in ToSet(pending_events) => "removePending" \in Bold
  /\ e = curr_event => "removeRunning" \in Bold
  /\ (\E d \in Event \ {e}, j \in Target : {<<e, j>>, <<d, j>>} \subseteq inst) => "removeShared" \in Bold
  /\ IF e \in before_after
     THEN /\ inst' = Detached(e)
          /\ events_instrumented' = {h \in events_instrumented : h[1] # e}
          /\ UNCHANGED <<event_set, job_next>>
     ELSE RemoveFromSet(e) /\ UNCHANGED <<events_instrumented, inst>>
  /\ active_events' = active_events \ {e}
  /\ asked' = {h \in asked : h[1] # e}
  /\ UNCHANGED <<pc, time, before_after, target_name, pending_events, next_tics, active,
                 curr_event, saved, reloads>>

\* activate, deactivate.
Turn(e) ==
  /\ Call /\ e \in active_events
  /\ active' = IF e \in active THEN active \ {e} ELSE active \cup {e}
  /\ UNCHANGED <<pc, time, manager, pending_events, event_set, next_tics, job_next, curr_event,
                 saved, asked, reloads>>

--------------------------------------------------------------------------------
(***************************************************************************)
(* Checkpoints, written and loaded while the simulation is frozen.         *)
(***************************************************************************)
Frozen == pc = "top"

Checkpoint ==
  /\ Frozen /\ saved = NoSave /\ Call
  /\ pending_events # <<>> => "savePending" \in Bold
  /\ (\E e \in Event, i, j \in Target : i # j /\ {<<e, i>>, <<e, j>>} \subseteq asked) => "saveTargets" \in Bold
  /\ saved' = [time |-> time, active_events |-> active_events, before_after |-> before_after,
               target_name |-> target_name, next_tics |-> next_tics, active |-> active,
               job_next |-> job_next, asked |-> asked]
  /\ UNCHANGED <<pc, time, manager, pending_events, event_set, next_tics, active, job_next,
                 curr_event, asked, reloads>>

\* The variables are those of the checkpoint; the manager then adds each of its events again, and
\* the processor moves them to its set, keeping their times.
Attached == {<<e, saved.target_name[e]>> : e \in saved.active_events \cap saved.before_after}
ToProcessor == SetToSeq(saved.active_events \ saved.before_after)
ReloadedSet ==
  AddAll(pending_events \o ToProcessor,
         [set |-> <<>>, tics |-> saved.next_tics, job |-> saved.job_next], saved.time, "restart")

Reload ==
  /\ Frozen /\ saved # NoSave /\ reloads < MaxReloads /\ reloads' = reloads + 1
  /\ pending_events # <<>> => "loadPending" \in Bold
  /\ time' = saved.time /\ active_events' = saved.active_events
  /\ before_after' = saved.before_after /\ target_name' = saved.target_name
  /\ next_tics' = saved.next_tics /\ active' = saved.active /\ asked' = saved.asked
  /\ events_instrumented' = Attached /\ inst' = Attached
  /\ pending_events' = <<>> /\ event_set' = ReloadedSet.set /\ job_next' = ReloadedSet.job
  /\ UNCHANGED <<pc, curr_event, saved, calls>>

--------------------------------------------------------------------------------
Process == TopOfFrame \/ CallJob \/ ProcessEvent \/ ActionDone \/ ProcessDone \/ AdvanceTime
Change(e) ==
  AddEvent(e) \/ (\E t \in 0 .. MaxTime : AddRead(e, t)) \/ (\E j \in Target : AddEventAt(e, j))
    \/ RemoveEvent(e) \/ Turn(e) \/ Fire(e)
Next == Process \/ (\E e \in Event : Change(e)) \/ Checkpoint \/ Reload
Spec == Init /\ [][Next]_vars

--------------------------------------------------------------------------------
AtRest == pc \in {"top", "jobs"}

\* The set stays in the order of the times its events have now: a time that changed under the
\* set would hide the events behind it.
Sorted ==
  \A i, k \in DOMAIN event_set : i < k => next_tics[event_set[i]] <= next_tics[event_set[k]]

\* No event blocks the others: once the events of a time are processed, the first of the set
\* is still to come and the job is set to it.  One in the past would stay first for ever.
NoneBlocked ==
  pc = "jobs" /\ event_set # <<>> => job_next = next_tics[event_set[1]] /\ job_next > time

\* What process_event relies on when it looks at the first event of the set only.
SetInOrder == TypeOK /\ Sorted /\ NoneBlocked

\* An event that was removed is removed "from everywhere it was added": neither the processor
\* nor a job has it any more.
RemovedEverywhere ==
  AtRest => ToSet(pending_events) \cup ToSet(event_set) \cup {h[1] : h \in inst} \subseteq active_events

\* No event is lost: one that is added, and is cyclic or still to come, is with the processor or
\* at all the jobs it was attached to, through removals of others and loads of checkpoints.
NoneLost ==
  AtRest => /\ asked \subseteq inst
            /\ \A e \in active_events \ before_after :
                 Cycle[e] # 0 \/ next_tics[e] > time => e \in ToSet(pending_events \o event_set)
==============================================================================
