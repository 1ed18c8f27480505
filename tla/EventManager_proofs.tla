------------------------ MODULE EventManager_proofs ------------------------
(***************************************************************************)
(* What the event manager promises, for every set of events, every cycle,  *)
(* every frame and any number of calls and of loads, in the programs that  *)
(* make none of the calls the code does not bear (Bold = {}).              *)
(*                                                                         *)
(* The processor is its set, the times of the events and the time its job  *)
(* is set to.  What insert and erase do to a sequence in order is shown    *)
(* first, then what the loop of add_pending_events adds up to, and then,   *)
(* one action after the other, that the invariant EventInv is kept.        *)
(***************************************************************************)
EXTENDS EventManager, SequenceTheorems, FiniteSetTheorems, WellFoundedInduction, TLAPS

\* The events that are with the processor, and the one it works on.
Held == ToSet(pending_events) \cup ToSet(event_set) \cup ({curr_event} \ {NoEvent})

\* An event is with the processor, or attached to jobs: in just one place, and in one it is if it
\* was added and is still to come.
PlaceInv ==
  /\ pc = "action" <=> curr_event # NoEvent
  /\ curr_event \notin ToSet(pending_events) \cup ToSet(event_set)
  /\ Held \subseteq active_events \ before_after
  /\ \A e \in active_events \ before_after : Cycle[e] # 0 \/ next_tics[e] > time => e \in Held

\* The manager, the jobs and those who asked agree on the attachments; the last of an event is among
\* them until it is removed.
AttachInv ==
  /\ target_name \in [Event -> Target \cup {NoEvent}]
  /\ \A e \in before_after : Cycle[e] # 0
  /\ events_instrumented = asked /\ inst = asked
  /\ \A h \in asked : h[1] \in active_events \cap before_after
  /\ \A e \in active_events \cap before_after : <<e, target_name[e]>> \in asked

\* The set is in order, nothing in it is past, and the job is set to its first but while the events
\* are processed.
TimeInv ==
  /\ Sorted
  /\ pc \in {"top", "process", "jobs"} /\ event_set # <<>> => job_next = next_tics[event_set[1]]
  /\ \A d \in ToSet(event_set) : next_tics[d] >= time /\ (pc = "jobs" => next_tics[d] > time)
  /\ pc = "action" => next_tics[curr_event] = time

\* What a checkpoint holds is enough to build the set and the attachments anew.
SavedType ==
  [time : 0 .. MaxTime, active_events : SUBSET Event, before_after : SUBSET Event,
   target_name : [Event -> Target \cup {NoEvent}], next_tics : [Event -> Nat], active : SUBSET Event,
   job_next : Nat, asked : SUBSET (Event \X Target)]
SavedInv ==
  saved # NoSave =>
    /\ saved \in SavedType /\ IsFiniteSet(saved.active_events)
    /\ saved.asked = Attached /\ \A e \in saved.before_after : Cycle[e] # 0
    /\ \A e \in saved.active_events \ saved.before_after :
         Cycle[e] # 0 => saved.next_tics[e] >= saved.time

\* The inductive invariant.
EventInv ==
  TypeOK /\ IsFiniteSet(active_events) /\ PlaceInv /\ AttachInv /\ TimeInv /\ SavedInv

--------------------------------------------------------------------------------
\* Every set of numbers that is not empty has a least one.
LEMMA LeastNumber ==
  ASSUME NEW T, T \subseteq Nat, T # {}
  PROVE  \E x \in T : \A y \in T : x <= y
<1> DEFINE R == OpToRel(<, Nat)
<1>1. IsWellFoundedOn(R, Nat)
  BY NatLessThanWellFounded
<1>2. \A x, y \in Nat : <<x, y>> \in R <=> x < y
  BY DEF OpToRel
<1> HIDE DEF R
<1>3. PICK x \in T : \A y \in T : ~(<<y, x>> \in R)
  BY <1>1, WFMin
<1>4. ASSUME NEW y \in T PROVE x <= y
  <2>1. x \in Nat /\ y \in Nat
    OBVIOUS
  <2>2. ~(<<y, x>> \in R)
    BY <1>3
  <2> QED
    BY <2>1, <2>2, <1>2
<1> QED BY <1>4

\* InsertAt and RemoveAt, element by element.
LEMMA InsertedAt ==
  ASSUME NEW S, NEW s \in Seq(S), NEW i \in 1 .. Len(s) + 1, NEW e \in S
  PROVE  /\ InsertAt(s, i, e) \in Seq(S) /\ Len(InsertAt(s, i, e)) = Len(s) + 1
         /\ \A k \in 1 .. Len(s) + 1 :
              InsertAt(s, i, e)[k] = IF k < i THEN s[k] ELSE IF k = i THEN e ELSE s[k - 1]
<1> DEFINE a == SubSeq(s, 1, i - 1)
           b == SubSeq(s, i, Len(s))
           c == a \o <<e>>
<1>0. Len(s) \in Nat /\ i \in Nat /\ \A k \in 1 .. Len(s) : s[k] \in S
  OBVIOUS
<1>1. a \in Seq(S) /\ Len(a) = i - 1 /\ \A k \in 1 .. i - 1 : a[k] = s[k]
  BY <1>0, SubSeqProperties
<1>2. b \in Seq(S) /\ Len(b) = Len(s) + 1 - i /\ \A k \in 1 .. Len(s) + 1 - i : b[k] = s[i + k - 1]
  BY <1>0, SubSeqProperties
<1>3. InsertAt(s, i, e) = c \o b
  BY DEF InsertAt
<1> HIDE DEF a, b
<1>4. c \in Seq(S) /\ Len(c) = i /\ \A k \in 1 .. i : c[k] = IF k < i THEN a[k] ELSE e
  <2>1. <<e>> \in Seq(S) /\ Len(<<e>>) = 1 /\ <<e>>[1] = e
    OBVIOUS
  <2>2. c \in Seq(S) /\ Len(c) = Len(a) + Len(<<e>>)
        /\ \A k \in 1 .. Len(a) + Len(<<e>>) : c[k] = IF k <= Len(a) THEN a[k] ELSE <<e>>[k - Len(a)]
    BY <1>1, <2>1, ConcatProperties
  <2> HIDE DEF c
  <2>3. ASSUME NEW k \in 1 .. i PROVE c[k] = IF k < i THEN a[k] ELSE e
    <3>1. k \in 1 .. Len(a) + Len(<<e>>) /\ (k < i <=> k <= Len(a))
      BY <1>0, <1>1, <2>1
    <3>2. CASE k < i
      BY <2>2, <3>1, <3>2
    <3>3. CASE k = i
      <4>1. k - Len(a) = 1 /\ ~(k < i)
        BY <1>0, <1>1, <3>3
      <4>2. c[k] = <<e>>[k - Len(a)]
        BY <2>2, <3>1, <4>1
      <4> QED
        BY <2>1, <4>1, <4>2
    <3> QED
      BY <1>0, <3>2, <3>3
  <2> QED
    BY <1>0, <1>1, <2>1, <2>2, <2>3
<1> HIDE DEF c
<1>5. (c \o b) \in Seq(S) /\ Len(c \o b) = Len(c) + Len(b)
      /\ \A k \in 1 .. Len(c) + Len(b) : (c \o b)[k] = IF k <= Len(c) THEN c[k] ELSE b[k - Len(c)]
  BY <1>2, <1>4, ConcatProperties
<1>6. Len(c) + Len(b) = Len(s) + 1
  BY <1>0, <1>2, <1>4
<1>7. ASSUME NEW k \in 1 .. Len(s) + 1
      PROVE  (c \o b)[k] = IF k < i THEN s[k] ELSE IF k = i THEN e ELSE s[k - 1]
  <2>1. CASE k <= i
    BY <1>0, <1>1, <1>4, <1>5, <1>6, <2>1
  <2>2. CASE k > i
    <3>1. (c \o b)[k] = b[k - i]
      BY <1>0, <1>4, <1>5, <1>6, <2>2
    <3>2. k - i \in 1 .. Len(s) + 1 - i /\ i + (k - i) - 1 = k - 1
      BY <1>0, <2>2
    <3>3. (c \o b)[k] = s[k - 1]
      BY <1>2, <3>1, <3>2
    <3> QED
      BY <1>0, <2>2, <3>3
  <2>0. k <= i \/ k > i
    BY <1>0
  <2> QED
    BY <2>0, <2>1, <2>2, Zenon
<1> QED
  BY <1>3, <1>5, <1>6, <1>7

\* The elements behind the one that is removed move up by one.
LEMMA RemovedAt ==
  ASSUME NEW S, NEW s \in Seq(S), NEW i \in 1 .. Len(s)
  PROVE  /\ RemoveAt(s, i) \in Seq(S) /\ Len(RemoveAt(s, i)) = Len(s) - 1
         /\ \A k \in 1 .. Len(s) - 1 : RemoveAt(s, i)[k] = IF k < i THEN s[k] ELSE s[k + 1]
<1> DEFINE a == SubSeq(s, 1, i - 1)
           b == SubSeq(s, i + 1, Len(s))
<1>0. Len(s) \in Nat /\ i \in Nat /\ \A k \in 1 .. Len(s) : s[k] \in S
  OBVIOUS
<1>1. a \in Seq(S) /\ Len(a) = i - 1 /\ \A k \in 1 .. i - 1 : a[k] = s[k]
  BY <1>0, SubSeqProperties
<1>2. b \in Seq(S) /\ Len(b) = Len(s) - i /\ \A k \in 1 .. Len(s) - i : b[k] = s[i + 1 + k - 1]
  BY <1>0, SubSeqProperties
<1>3. RemoveAt(s, i) = a \o b
  BY DEF RemoveAt
<1> HIDE DEF a, b
<1>4. (a \o b) \in Seq(S) /\ Len(a \o b) = Len(a) + Len(b)
      /\ \A k \in 1 .. Len(a) + Len(b) : (a \o b)[k] = IF k <= Len(a) THEN a[k] ELSE b[k - Len(a)]
  BY <1>1, <1>2, ConcatProperties
<1>5. Len(a) + Len(b) = Len(s) - 1
  BY <1>0, <1>1, <1>2
<1>6. ASSUME NEW k \in 1 .. Len(s) - 1 PROVE (a \o b)[k] = IF k < i THEN s[k] ELSE s[k + 1]
  <2>1. CASE k < i
    BY <1>0, <1>1, <1>4, <1>5, <2>1
  <2>2. CASE k >= i
    <3>1. (a \o b)[k] = b[k - (i - 1)]
      BY <1>0, <1>1, <1>4, <1>5, <2>2
    <3>2. k - (i - 1) \in 1 .. Len(s) - i /\ i + 1 + (k - (i - 1)) - 1 = k + 1
      BY <1>0, <2>2
    <3>3. (a \o b)[k] = s[k + 1]
      BY <1>2, <3>1, <3>2
    <3> QED
      BY <1>0, <2>2, <3>3
  <2>0. k < i \/ k >= i
    BY <1>0
  <2> QED
    BY <2>0, <2>1, <2>2, Zenon
<1> QED
  BY <1>3, <1>4, <1>5, <1>6

\* A set in the order of the times.
InOrder(set, tics) == \A i, k \in DOMAIN set : i < k => tics[set[i]] <= tics[set[k]]

\* event_set.insert puts an event between those that are not later and those that are.
LEMMA InsertPlace ==
  ASSUME NEW set \in Seq(Event), NEW tics \in [Event -> Nat], NEW e \in Event, InOrder(set, tics)
  PROVE  \E i \in 1 .. Len(set) + 1 :
           /\ Insert(set, tics, e) = InsertAt(set, i, e)
           /\ \A k \in 1 .. i - 1 : tics[set[k]] <= tics[e]
           /\ \A k \in i .. Len(set) : tics[set[k]] > tics[e]
<1> DEFINE M == {i \in DOMAIN set : tics[set[i]] <= tics[e]}
           U == {i \in 1 .. Len(set) + 1 : i = Len(set) + 1 \/ tics[set[i]] > tics[e]}
<1>0. Len(set) \in Nat /\ DOMAIN set = 1 .. Len(set) /\ \A i \in 1 .. Len(set) : set[i] \in Event
  OBVIOUS
<1>1. U \subseteq Nat /\ Len(set) + 1 \in U
  BY <1>0
<1>2. PICK i \in U : \A k \in U : i <= k
  BY <1>1, LeastNumber
<1>3. i \in 1 .. Len(set) + 1 /\ i \in Nat
  BY <1>0
<1>4. ASSUME NEW k \in 1 .. i - 1 PROVE tics[set[k]] <= tics[e]
  <2>1. k \in 1 .. Len(set) /\ k \notin U
    BY <1>0, <1>2, <1>3
  <2> QED
    BY <1>0, <2>1
<1>5. ASSUME NEW k \in i .. Len(set) PROVE tics[set[k]] > tics[e]
  <2>1. i \in 1 .. Len(set) /\ k \in 1 .. Len(set) /\ tics[set[i]] > tics[e]
    BY <1>0, <1>3
  <2>3. tics[set[i]] \in Nat /\ tics[set[k]] \in Nat /\ tics[e] \in Nat
    BY <1>0, <2>1
  <2>2. tics[set[i]] <= tics[set[k]]
    <3>1. CASE i = k
      BY <2>3, <3>1
    <3>2. CASE i < k
      BY <1>0, <2>1, <3>2 DEF InOrder
    <3> QED
      BY <1>3, <2>1, <3>1, <3>2
  <2> QED
    BY <2>1, <2>2, <2>3
<1>6. M = 1 .. i - 1
  <2>1. ASSUME NEW k \in M PROVE k \in 1 .. i - 1
    <3>1. k \in 1 .. Len(set) /\ tics[set[k]] \in Nat /\ tics[e] \in Nat /\ tics[set[k]] <= tics[e]
      BY <1>0
    <3>2. k \notin i .. Len(set)
      BY <1>5, <3>1
    <3> QED
      BY <1>0, <1>3, <3>1, <3>2
  <2>2. ASSUME NEW k \in 1 .. i - 1 PROVE k \in M
    BY <1>0, <1>3, <1>4
  <2> QED
    BY <2>1, <2>2
<1>7. Cardinality(M) = i - 1
  <2>1. 1 \in Int /\ i - 1 \in Int /\ (1 > i - 1 => i - 1 = 0) /\ (i - 1) - 1 + 1 = i - 1
    BY <1>0, <1>3
  <2>2. Cardinality(1 .. i - 1) = IF 1 > i - 1 THEN 0 ELSE (i - 1) - 1 + 1
    BY <2>1, FS_Interval
  <2> HIDE DEF M
  <2> QED
    BY <1>6, <2>1, <2>2
<1>8. Insert(set, tics, e) = InsertAt(set, 1 + Cardinality(M), e)
  BY DEF Insert
<1>9. 1 + Cardinality(M) = i
  BY <1>3, <1>7
<1> QED
  BY <1>3, <1>4, <1>5, <1>8, <1>9

\* The set that event_set.insert leaves has the event too, each at most once, and is in order.
LEMMA Inserted ==
  ASSUME NEW set \in Seq(Event), NEW tics \in [Event -> Nat], NEW e \in Event,
         InOrder(set, tics), IsInjective(set), e \notin ToSet(set)
  PROVE  LET q == Insert(set, tics, e)
         IN  /\ q \in Seq(Event) /\ q # <<>> /\ IsInjective(q) /\ InOrder(q, tics)
             /\ ToSet(q) = ToSet(set) \cup {e}
<1>1. PICK i \in 1 .. Len(set) + 1 :
           /\ Insert(set, tics, e) = InsertAt(set, i, e)
           /\ \A k \in 1 .. i - 1 : tics[set[k]] <= tics[e]
           /\ \A k \in i .. Len(set) : tics[set[k]] > tics[e]
  BY InsertPlace
<1> DEFINE q == InsertAt(set, i, e)
           n == Len(set)
<1>2. /\ q \in Seq(Event) /\ Len(q) = n + 1
      /\ \A k \in 1 .. n + 1 : q[k] = IF k < i THEN set[k] ELSE IF k = i THEN e ELSE set[k - 1]
  BY InsertedAt
<1>3. n \in Nat /\ DOMAIN set = 1 .. n /\ \A k \in 1 .. n : set[k] \in Event /\ set[k] # e /\ tics[set[k]] \in Nat
  BY DEF ToSet
<1> HIDE DEF q, n
<1>4. DOMAIN q = 1 .. n + 1 /\ q # <<>> /\ tics[e] \in Nat /\ i \in 1 .. n + 1 /\ i \in Nat
  BY <1>2, <1>3 DEF n
<1>5. IsInjective(q)
  <2> SUFFICES ASSUME NEW k \in 1 .. n + 1, NEW m \in 1 .. n + 1, k < m PROVE q[k] # q[m]
    BY <1>3, <1>4 DEF IsInjective
  <2>0. \A x, y \in 1 .. n : x # y => set[x] # set[y]
    BY <1>3 DEF IsInjective
  <2>1. CASE k < i /\ m < i
    <3>1. k \in 1 .. n /\ m \in 1 .. n /\ k # m
      BY <1>3, <1>4, <2>1
    <3>2. q[k] = set[k] /\ q[m] = set[m]
      BY <1>2, <2>1
    <3> QED
      BY <2>0, <3>1, <3>2
  <2>2. CASE k < i /\ m = i
    BY <1>2, <1>3, <1>4, <2>2
  <2>3. CASE k < i /\ m > i
    <3>1. q[k] = set[k] /\ q[m] = set[m - 1] /\ k \in 1 .. n /\ m - 1 \in 1 .. n /\ k # m - 1
      BY <1>2, <1>3, <1>4, <2>3
    <3> QED
      BY <2>0, <3>1
  <2>4. CASE k = i /\ m > i
    <3>1. q[m] = set[m - 1] /\ m - 1 \in 1 .. n /\ q[k] = e
      BY <1>2, <1>3, <1>4, <2>4
    <3> QED
      BY <1>3, <3>1
  <2>5. CASE k > i
    <3>1. /\ ~(k < i) /\ k # i /\ ~(m < i) /\ m # i
          /\ k - 1 \in 1 .. n /\ m - 1 \in 1 .. n /\ k - 1 # m - 1
      BY <1>3, <1>4, <2>5
    <3>2. q[k] = set[k - 1] /\ q[m] = set[m - 1]
      BY <1>2, <3>1
    <3> QED
      BY <2>0, <3>1, <3>2
  <2> QED
    BY <1>3, <1>4, <2>1, <2>2, <2>3, <2>4, <2>5
<1>6. ASSUME NEW k \in 1 .. n + 1, NEW m \in 1 .. n + 1, k < m PROVE tics[q[k]] <= tics[q[m]]
  <2>0. \A x, y \in 1 .. n : x < y => tics[set[x]] <= tics[set[y]]
    BY <1>3 DEF InOrder
  <2>1. CASE k < i /\ m < i
    <3>1. k \in 1 .. n /\ m \in 1 .. n /\ q[k] = set[k] /\ q[m] = set[m]
      BY <1>2, <1>3, <1>4, <2>1
    <3> QED
      BY <1>6, <2>0, <3>1
  <2>2. CASE k < i /\ m = i
    BY <1>1, <1>2, <1>3, <1>4, <1>6, <2>2 DEF InOrder
  <2>3. CASE k < i /\ m > i
    <3>1. q[k] = set[k] /\ q[m] = set[m - 1] /\ k \in 1 .. n /\ m - 1 \in 1 .. n
      BY <1>2, <1>3, <1>4, <1>6, <2>3
    <3>2. k < m - 1 \/ k = m - 1
      BY <1>3, <1>4, <2>3
    <3>3. tics[set[k]] \in Nat
      BY <1>3, <3>1
    <3> QED
      BY <2>0, <3>1, <3>2, <3>3
  <2>4. CASE k = i /\ m > i
    <3>1. ~(m < i) /\ m # i /\ ~(k < i) /\ m - 1 \in i .. n /\ m - 1 \in 1 .. n
      BY <1>3, <1>4, <1>6, <2>4
    <3>2. q[m] = set[m - 1] /\ q[k] = e
      BY <1>2, <2>4, <3>1
    <3>3. tics[set[m - 1]] > tics[e]
      BY <1>1, <3>1 DEF n
    <3>4. tics[set[m - 1]] \in Nat
      BY <1>3, <3>1
    <3> QED
      BY <1>4, <3>2, <3>3, <3>4
  <2>5. CASE k > i
    <3>1. /\ ~(k < i) /\ k # i /\ ~(m < i) /\ m # i
          /\ k - 1 \in 1 .. n /\ m - 1 \in 1 .. n /\ k - 1 < m - 1
      BY <1>3, <1>4, <1>6, <2>5
    <3>2. q[k] = set[k - 1] /\ q[m] = set[m - 1]
      BY <1>2, <3>1
    <3> QED
      BY <2>0, <3>1, <3>2
  <2> QED
    BY <1>4, <1>6, <2>1, <2>2, <2>3, <2>4, <2>5
<1>7. InOrder(q, tics)
  BY <1>4, <1>6 DEF InOrder
<1>8. ToSet(q) = ToSet(set) \cup {e}
  <2>0. ToSet(q) = {q[k] : k \in 1 .. n + 1} /\ ToSet(set) = {set[k] : k \in 1 .. n}
    BY <1>3, <1>4 DEF ToSet
  <2>1. ASSUME NEW k \in 1 .. n + 1 PROVE q[k] \in ToSet(set) \cup {e}
    <3>1. CASE k < i
      <4>1. k \in 1 .. n /\ q[k] = set[k]
        BY <1>2, <1>3, <1>4, <3>1
      <4> QED
        BY <2>0, <4>1
    <3>2. CASE k = i
      BY <1>2, <1>4, <3>2
    <3>3. CASE k > i
      <4>1. k - 1 \in 1 .. n /\ q[k] = set[k - 1]
        BY <1>2, <1>3, <1>4, <3>3
      <4> QED
        BY <2>0, <4>1
    <3> QED
      BY <1>3, <1>4, <3>1, <3>2, <3>3
  <2>2. e \in ToSet(q)
    <3>1. q[i] = e
      BY <1>2, <1>4
    <3> QED
      BY <1>4, <2>0, <3>1
  <2>3. ASSUME NEW k \in 1 .. n PROVE set[k] \in ToSet(q)
    <3>1. CASE k < i
      <4>1. k \in 1 .. n + 1 /\ q[k] = set[k]
        BY <1>2, <1>3, <1>4, <3>1
      <4> QED
        BY <2>0, <4>1
    <3>2. CASE k >= i
      <4>1. k + 1 \in 1 .. n + 1 /\ ~(k + 1 < i) /\ k + 1 # i /\ (k + 1) - 1 = k
        BY <1>3, <1>4, <3>2
      <4>2. q[k + 1] = set[k]
        BY <1>2, <4>1
      <4> QED
        BY <2>0, <4>1, <4>2
    <3> QED
      BY <1>3, <1>4, <3>1, <3>2
  <2> QED
    BY <2>0, <2>1, <2>2, <2>3
<1> QED
  BY <1>1, <1>2, <1>4, <1>5, <1>7, <1>8 DEF q

--------------------------------------------------------------------------------
\* The processor as its job finds it: the set is in order, nothing in it is past and the job is set
\* to its first.
Processor == [set : Seq(Event), tics : [Event -> Nat], job : Nat]
GoodProcessor(p, now) ==
  /\ p \in Processor /\ IsInjective(p.set) /\ InOrder(p.set, p.tics)
  /\ p.set # <<>> => p.job = p.tics[p.set[1]]
  /\ \A d \in ToSet(p.set) : p.tics[d] >= now

\* One pending event is added to p, unless it is a read event that is past, which gives q.
AddsOne(p, e, now, r, q) ==
  /\ GoodProcessor(q, now)
  /\ ToSet(p.set) \subseteq ToSet(q.set) /\ ToSet(q.set) \subseteq ToSet(p.set) \cup {e}
  /\ Cycle[e] # 0 \/ p.tics[e] >= now => e \in ToSet(q.set)
  /\ \A d \in Event : d # e \/ Cycle[d] = 0 \/ r = "restart" => q.tics[d] = p.tics[d]

\* One round of the loop of add_pending_events.  On a restart the time of a cyclic event is the one
\* of the checkpoint, and must not be past.
LEMMA AddedOne ==
  ASSUME EventManagerAssumption, NEW now \in Nat, NEW r, NEW p, GoodProcessor(p, now),
         NEW e \in Event, e \notin ToSet(p.set), r = "restart" /\ Cycle[e] # 0 => p.tics[e] >= now
  PROVE  AddsOne(p, e, now, r, AddPending(p, e, now, r))
<1> DEFINE tics == NewTics(p.tics, e, now, r)
           set == Insert(p.set, tics, e)
<1>0. p.set \in Seq(Event) /\ p.tics \in [Event -> Nat] /\ p.job \in Nat /\ Cycle[e] \in Nat
  BY DEF GoodProcessor, Processor, EventManagerAssumption
<1>1. CASE Cycle[e] = 0 /\ p.tics[e] < now
  <2>1. AddPending(p, e, now, r) = p
    BY <1>1 DEF AddPending
  <2>2. ~(p.tics[e] >= now)
    BY <1>0, <1>1
  <2> QED
    BY <1>1, <2>1, <2>2 DEF AddsOne
<1>2. CASE ~(Cycle[e] = 0 /\ p.tics[e] < now)
  <2>1. AddPending(p, e, now, r) = [set |-> set, tics |-> tics, job |-> HeadTics(set, tics)]
    BY <1>2 DEF AddPending
  <2>2. /\ tics \in [Event -> Nat]
        /\ \A d \in Event : d # e \/ Cycle[d] = 0 \/ r = "restart" => tics[d] = p.tics[d]
        /\ tics[e] >= now
    BY <1>0, <1>2 DEF NewTics
  <2> HIDE DEF tics
  <2>3. \A k \in DOMAIN p.set : p.set[k] \in Event /\ p.set[k] # e
    BY <1>0 DEF ToSet
  <2>4. InOrder(p.set, tics)
    BY <2>2, <2>3 DEF InOrder, GoodProcessor
  <2>5. /\ set \in Seq(Event) /\ set # <<>> /\ IsInjective(set) /\ InOrder(set, tics)
        /\ ToSet(set) = ToSet(p.set) \cup {e}
    BY <1>0, <2>2, <2>4, Inserted DEF GoodProcessor
  <2> HIDE DEF set
  <2>6. HeadTics(set, tics) = tics[set[1]] /\ tics[set[1]] \in Nat
    BY <2>2, <2>5 DEF HeadTics
  <2>7. \A d \in ToSet(set) : tics[d] >= now
    <3>1. ASSUME NEW d \in ToSet(p.set) PROVE tics[d] >= now
      <4>1. d \in Event /\ d # e /\ p.tics[d] >= now
        BY <1>0 DEF ToSet, GoodProcessor
      <4> QED
        BY <2>2, <4>1
    <3> QED
      BY <2>2, <2>5, <3>1
  <2> DEFINE q == [set |-> set, tics |-> tics, job |-> HeadTics(set, tics)]
  <2>8. q.set = set /\ q.tics = tics /\ q.job = tics[set[1]] /\ q \in Processor
    BY <2>2, <2>5, <2>6 DEF Processor
  <2>9. GoodProcessor(q, now)
    BY <2>5, <2>7, <2>8 DEF GoodProcessor
  <2> HIDE DEF q
  <2> QED
    BY <2>1, <2>2, <2>5, <2>8, <2>9 DEF q, AddsOne
<1> QED
  BY <1>1, <1>2

\* The loop of add_pending_events, after n events.
Added(f, pending, p, now, r, n) ==
  /\ GoodProcessor(f[n], now)
  /\ ToSet(p.set) \subseteq ToSet(f[n].set)
  /\ ToSet(f[n].set) \subseteq ToSet(p.set) \cup {pending[i] : i \in 1 .. n}
  /\ \A i \in 1 .. n :
       Cycle[pending[i]] # 0 \/ p.tics[pending[i]] >= now => pending[i] \in ToSet(f[n].set)
  /\ \A d \in Event : d \notin {pending[i] : i \in 1 .. n} \/ Cycle[d] = 0 \/ r = "restart" => f[n].tics[d] = p.tics[d]

\* f is what the loop of add_pending_events has computed after each event.
LoopOf(f, pending, p, now, r) ==
  /\ AddAll(pending, p, now, r) = f[Len(pending)]
  /\ \A n \in 0 .. Len(pending) :
       f[n] = IF n = 0 THEN p ELSE AddPending(f[n - 1], pending[n], now, r)

\* The loop ends, and each of its rounds is add_pending_events of one event.
LEMMA AddLoop ==
  ASSUME NEW pending \in Seq(Event), NEW p, NEW now \in Nat, NEW r
  PROVE  \E f : LoopOf(f, pending, p, now, r)
<1> DEFINE Loop(m) == \E f : f = [n \in 0 .. m |-> IF n = 0 THEN p ELSE AddPending(f[n - 1], pending[n], now, r)]
           T == {m \in Nat : ~Loop(m)}
           F == CHOOSE f : f = [n \in 0 .. Len(pending) |->
                                  IF n = 0 THEN p ELSE AddPending(f[n - 1], pending[n], now, r)]
<1>1. SUFFICES ASSUME T # {} PROVE FALSE
  <2>1. Len(pending) \in Nat
    OBVIOUS
  <2>2. CASE T = {}
    <3>1. Loop(Len(pending))
      BY <2>1, <2>2
    <3>2. F = [n \in 0 .. Len(pending) |-> IF n = 0 THEN p ELSE AddPending(F[n - 1], pending[n], now, r)]
      BY <3>1, Zenon
    <3>3. AddAll(pending, p, now, r) = F[Len(pending)]
      BY DEF AddAll
    <3> HIDE DEF F, Loop, T
    <3>4. \A n \in 0 .. Len(pending) : F[n] = IF n = 0 THEN p ELSE AddPending(F[n - 1], pending[n], now, r)
      BY <3>2
    <3>5. LoopOf(F, pending, p, now, r)
      BY <3>3, <3>4 DEF LoopOf
    <3> QED
      BY <3>5
  <2> QED
    BY <2>2
<1>2. PICK m \in T : \A k \in T : m <= k
  BY <1>1, LeastNumber
<1>3. m # 0
  <2>1. [n \in 0 .. 0 |-> p] =
          [n \in 0 .. 0 |-> IF n = 0 THEN p ELSE AddPending([k \in 0 .. 0 |-> p][n - 1], pending[n], now, r)]
    OBVIOUS
  <2>2. Loop(0)
    BY <2>1
  <2> QED
    BY <2>2
<1>4. m - 1 \in Nat /\ m - 1 \notin T
  <2>1. m \in Nat
    OBVIOUS
  <2> HIDE DEF T
  <2> QED
    BY <1>2, <1>3, <2>1
<1>5. PICK f : f = [n \in 0 .. m - 1 |-> IF n = 0 THEN p ELSE AddPending(f[n - 1], pending[n], now, r)]
  BY <1>4
<1> DEFINE g == [n \in 0 .. m |-> IF n < m THEN f[n] ELSE AddPending(f[m - 1], pending[m], now, r)]
<1>6. ASSUME NEW n \in 0 .. m PROVE g[n] = IF n = 0 THEN p ELSE AddPending(g[n - 1], pending[n], now, r)
  <2>0. m \in Nat /\ n \in Nat
    OBVIOUS
  <2>1. CASE n < m
    <3>1. n \in 0 .. m - 1
      BY <2>0, <2>1
    <3>2. f[n] = IF n = 0 THEN p ELSE AddPending(f[n - 1], pending[n], now, r)
      BY <1>5, <3>1
    <3>3. g[n] = f[n] /\ (n # 0 => g[n - 1] = f[n - 1])
      BY <2>0, <2>1
    <3> HIDE DEF g
    <3> QED
      BY <3>2, <3>3
  <2>2. CASE n = m
    <3>1. g[m] = AddPending(f[m - 1], pending[m], now, r) /\ g[m - 1] = f[m - 1]
      BY <1>3, <2>0
    <3> HIDE DEF g
    <3> QED
      BY <1>3, <2>2, <3>1
  <2> QED
    BY <2>0, <2>1, <2>2
<1>7. g = [n \in 0 .. m |-> IF n = 0 THEN p ELSE AddPending(g[n - 1], pending[n], now, r)]
  BY <1>6
<1>8. Loop(m)
  BY <1>7
<1> QED
  BY <1>8

\* add_pending_events: every event that was pending is in the set, but read events that are past; the
\* set stays in order, and only new cyclic events get another time.
AddsAll(p, pending, now, r, q) ==
  /\ GoodProcessor(q, now)
  /\ ToSet(p.set) \subseteq ToSet(q.set) /\ ToSet(q.set) \subseteq ToSet(p.set) \cup ToSet(pending)
  /\ \A e \in ToSet(pending) : Cycle[e] # 0 \/ p.tics[e] >= now => e \in ToSet(q.set)
  /\ \A d \in Event : d \notin ToSet(pending) \/ Cycle[d] = 0 \/ r = "restart" => q.tics[d] = p.tics[d]

\* add_pending_events of events that are not in the set: the processor is good as before, and all that
\* are cyclic or not past are in the set.
LEMMA AddedAll ==
  ASSUME EventManagerAssumption, NEW now \in Nat, NEW r, NEW p, GoodProcessor(p, now),
         NEW pending \in Seq(Event), IsInjective(pending),
         \A i \in 1 .. Len(pending) : pending[i] \notin ToSet(p.set),
         r = "restart" => \A i \in 1 .. Len(pending) : Cycle[pending[i]] # 0 => p.tics[pending[i]] >= now
  PROVE  AddsAll(p, pending, now, r, AddAll(pending, p, now, r))
<1>0. PICK f : LoopOf(f, pending, p, now, r)
  BY AddLoop
<1>1. /\ AddAll(pending, p, now, r) = f[Len(pending)]
      /\ \A n \in 0 .. Len(pending) :
           f[n] = IF n = 0 THEN p ELSE AddPending(f[n - 1], pending[n], now, r)
  BY <1>0 DEF LoopOf
<1>3. Len(pending) \in Nat /\ DOMAIN pending = 1 .. Len(pending) /\ \A i \in 1 .. Len(pending) : pending[i] \in Event
  OBVIOUS
<1> DEFINE T == {n \in Nat : n <= Len(pending) /\ ~Added(f, pending, p, now, r, n)}
<1>4. T = {}
  <2> SUFFICES ASSUME T # {} PROVE FALSE
    OBVIOUS
  <2>1. PICK m \in T : \A k \in T : m <= k
    BY LeastNumber
  <2>2. m # 0
    <3>1. f[0] = p /\ 1 .. 0 = {}
      BY <1>1, <1>3
    <3>2. Added(f, pending, p, now, r, 0)
      BY <3>1 DEF Added
    <3> QED
      BY <3>2
  <2>3. m \in 1 .. Len(pending) /\ m \in Nat /\ m - 1 \in Nat /\ m - 1 <= Len(pending) /\ m - 1 \notin T
    BY <1>3, <2>1, <2>2
  <2>4. Added(f, pending, p, now, r, m - 1)
    BY <2>3
  <2> DEFINE e == pending[m]
             u == f[m - 1]
             w == f[m]
  <2>5. w = AddPending(u, e, now, r)
    <3>1. m \in 0 .. Len(pending)
      BY <2>3
    <3> QED
      BY <1>1, <2>2, <3>1
  <2>6. e \in Event /\ e \notin {pending[i] : i \in 1 .. m - 1} /\ e \notin ToSet(p.set)
    <3>1. ASSUME NEW i \in 1 .. m - 1 PROVE pending[i] # e
      <4>1. i \in 1 .. Len(pending) /\ i # m
        BY <1>3, <2>3
      <4> QED
        BY <1>3, <2>3, <4>1 DEF IsInjective
    <3> QED
      BY <1>3, <2>3, <3>1
  <2>7. e \notin ToSet(u.set) /\ u.tics[e] = p.tics[e]
    BY <2>4, <2>6 DEF Added
  <2>8. r = "restart" /\ Cycle[e] # 0 => u.tics[e] >= now
    BY <2>3, <2>7
  <2>9. GoodProcessor(u, now)
    BY <2>4 DEF Added
  <2> HIDE DEF u
  <2>10. /\ GoodProcessor(w, now)
         /\ ToSet(u.set) \subseteq ToSet(w.set) /\ ToSet(w.set) \subseteq ToSet(u.set) \cup {e}
         /\ Cycle[e] # 0 \/ u.tics[e] >= now => e \in ToSet(w.set)
         /\ \A d \in Event : d # e \/ Cycle[d] = 0 \/ r = "restart" => w.tics[d] = u.tics[d]
    <3> HIDE DEF e, w
    <3>1. e \in Event /\ e \notin ToSet(u.set) /\ (r = "restart" /\ Cycle[e] # 0 => u.tics[e] >= now)
      BY <2>6, <2>7, <2>8
    <3>2. AddsOne(u, e, now, r, w)
      BY <2>5, <2>9, <3>1, AddedOne
    <3> QED
      BY <3>2 DEF AddsOne
  <2>11. {pending[i] : i \in 1 .. m} = {pending[i] : i \in 1 .. m - 1} \cup {e}
    <3>1. 1 .. m = (1 .. m - 1) \cup {m}
      BY <2>3
    <3> QED
      BY <3>1
  <2> HIDE DEF e, w
  <2>12. /\ ToSet(p.set) \subseteq ToSet(w.set)
         /\ ToSet(w.set) \subseteq ToSet(p.set) \cup {pending[i] : i \in 1 .. m}
    BY <2>4, <2>10, <2>11 DEF Added, u
  <2>13. ASSUME NEW i \in 1 .. m, Cycle[pending[i]] # 0 \/ p.tics[pending[i]] >= now
         PROVE  pending[i] \in ToSet(w.set)
    <3>1. CASE i = m
      BY <2>7, <2>10, <2>13, <3>1 DEF e
    <3>2. CASE i # m
      <4>1. i \in 1 .. m - 1
        BY <2>3, <3>2
      <4>2. pending[i] \in ToSet(u.set)
        BY <2>4, <2>13, <4>1 DEF Added, u
      <4> QED
        BY <2>10, <4>2
    <3> QED
      BY <3>1, <3>2
  <2>14. ASSUME NEW d \in Event, d \notin {pending[i] : i \in 1 .. m} \/ Cycle[d] = 0 \/ r = "restart"
         PROVE  w.tics[d] = p.tics[d]
    <3>1. d \notin {pending[i] : i \in 1 .. m - 1} \/ Cycle[d] = 0 \/ r = "restart"
      BY <2>11, <2>14
    <3>2. u.tics[d] = p.tics[d]
      BY <2>4, <3>1 DEF Added, u
    <3>3. d # e \/ Cycle[d] = 0 \/ r = "restart"
      BY <2>11, <2>14
    <3> QED
      BY <2>10, <3>2, <3>3
  <2>15. Added(f, pending, p, now, r, m)
    BY <2>10, <2>12, <2>13, <2>14 DEF Added, w
  <2> QED
    BY <2>1, <2>15
<1>5. Added(f, pending, p, now, r, Len(pending))
  <2>1. Len(pending) \in Nat /\ Len(pending) <= Len(pending)
    BY <1>3
  <2> QED
    BY <1>4, <2>1
<1>6. ToSet(pending) = {pending[i] : i \in 1 .. Len(pending)}
  BY <1>3 DEF ToSet
<1> QED
  BY <1>1, <1>5, <1>6 DEF Added, AddsAll

--------------------------------------------------------------------------------
\* The events in a sequence, when it is made longer or shorter.
LEMMA NoneInEmpty == ToSet(<<>>) = {} /\ IsInjective(<<>>) /\ <<>> \in Seq(Event)
BY DEF ToSet, IsInjective

\* push_back of an event that is not there.
LEMMA Appended ==
  ASSUME NEW s \in Seq(Event), IsInjective(s), NEW e \in Event, e \notin ToSet(s)
  PROVE  Append(s, e) \in Seq(Event) /\ IsInjective(Append(s, e)) /\ ToSet(Append(s, e)) = ToSet(s) \cup {e}
<1> DEFINE q == Append(s, e)
           n == Len(s)
<1>1. q \in Seq(Event) /\ Len(q) = n + 1 /\ q[n + 1] = e /\ \A k \in 1 .. n : q[k] = s[k]
  OBVIOUS
<1>2. n \in Nat /\ DOMAIN s = 1 .. n /\ DOMAIN q = 1 .. n + 1
  OBVIOUS
<1>3. \A k \in 1 .. n : s[k] # e
  BY <1>2 DEF ToSet
<1> HIDE DEF q, n
<1>4. ASSUME NEW k \in 1 .. n + 1, NEW m \in 1 .. n + 1, k < m PROVE q[k] # q[m]
  <2>1. k \in 1 .. n
    BY <1>2, <1>4
  <2>2. CASE m = n + 1
    BY <1>1, <1>3, <2>1, <2>2
  <2>3. CASE m # n + 1
    <3>1. m \in 1 .. n /\ k # m
      BY <1>2, <1>4, <2>3
    <3> QED
      BY <1>1, <1>2, <2>1, <3>1 DEF IsInjective
  <2> QED
    BY <2>2, <2>3
<1>5. IsInjective(q)
  BY <1>2, <1>4 DEF IsInjective
<1>6. ToSet(q) = ToSet(s) \cup {e}
  <2>1. 1 .. n + 1 = (1 .. n) \cup {n + 1}
    BY <1>2
  <2>2. ToSet(q) = {q[k] : k \in (1 .. n) \cup {n + 1}} /\ ToSet(s) = {s[k] : k \in 1 .. n}
    BY <1>2, <2>1 DEF ToSet
  <2> QED
    BY <1>1, <2>2
<1> QED
  BY <1>1, <1>5, <1>6 DEF q

\* erase leaves the others, in order.
LEMMA RemovedFrom ==
  ASSUME NEW s \in Seq(Event), IsInjective(s), NEW tics \in [Event -> Nat], InOrder(s, tics), NEW i \in 1 .. Len(s)
  PROVE  /\ RemoveAt(s, i) \in Seq(Event) /\ IsInjective(RemoveAt(s, i)) /\ InOrder(RemoveAt(s, i), tics)
         /\ ToSet(RemoveAt(s, i)) = ToSet(s) \ {s[i]}
<1> DEFINE q == RemoveAt(s, i)
           n == Len(s)
           old(k) == IF k < i THEN k ELSE k + 1
<1>1. q \in Seq(Event) /\ Len(q) = n - 1 /\ \A k \in 1 .. n - 1 : q[k] = IF k < i THEN s[k] ELSE s[k + 1]
  BY RemovedAt
<1>2. n \in Nat /\ i \in 1 .. n /\ i \in Nat /\ DOMAIN s = 1 .. n /\ \A k \in 1 .. n : s[k] \in Event
  OBVIOUS
<1> HIDE DEF q, n
<1>3. DOMAIN q = 1 .. n - 1
  BY <1>1, <1>2
<1>4. ASSUME NEW k \in 1 .. n - 1 PROVE old(k) \in 1 .. n /\ old(k) # i /\ q[k] = s[old(k)]
  <2>1. CASE k < i
    BY <1>1, <1>2, <2>1
  <2>2. CASE ~(k < i)
    BY <1>1, <1>2, <2>2
  <2> QED
    BY <2>1, <2>2
<1>5. ASSUME NEW k \in 1 .. n - 1, NEW m \in 1 .. n - 1, k < m PROVE old(k) < old(m)
  BY <1>2, <1>5
<1>6. \A x, y \in 1 .. n : x # y => s[x] # s[y]
  BY <1>2 DEF IsInjective
<1>7. \A x, y \in 1 .. n : x < y => tics[s[x]] <= tics[s[y]]
  BY <1>2 DEF InOrder
<1>8. \A k \in 1 .. n : s[k] = s[i] => k = i
  BY <1>2, <1>6
<1>9. ASSUME NEW k \in 1 .. n, k # i PROVE \E m \in 1 .. n - 1 : old(m) = k
  <2>1. CASE k < i
    BY <1>2, <2>1
  <2>2. CASE k > i
    <3>1. k - 1 \in 1 .. n - 1 /\ old(k - 1) = k
      BY <1>2, <2>2
    <3> QED
      BY <3>1
  <2> QED
    BY <1>2, <1>9, <2>1, <2>2
<1> HIDE DEF old
<1>10. ASSUME NEW k \in 1 .. n - 1, NEW m \in 1 .. n - 1, k < m
       PROVE  q[k] # q[m] /\ tics[q[k]] <= tics[q[m]]
  <2>1. old(k) < old(m) /\ old(k) \in 1 .. n /\ old(m) \in 1 .. n /\ q[k] = s[old(k)] /\ q[m] = s[old(m)]
    BY <1>4, <1>5, <1>10
  <2>2. old(k) # old(m)
    BY <1>2, <2>1
  <2> QED
    BY <1>6, <1>7, <2>1, <2>2
<1>11. IsInjective(q) /\ InOrder(q, tics)
  <2>1. ASSUME NEW a \in 1 .. n - 1, NEW b \in 1 .. n - 1, q[a] = q[b] PROVE a = b
    <3>1. CASE a < b
      BY <1>10, <2>1, <3>1
    <3>2. CASE b < a
      BY <1>10, <2>1, <3>2
    <3>3. a \in Int /\ b \in Int
      BY <1>2
    <3> QED
      BY <3>1, <3>2, <3>3
  <2> QED
    BY <1>3, <1>10, <2>1 DEF IsInjective, InOrder
<1>12. ToSet(q) = ToSet(s) \ {s[i]}
  <2>1. ToSet(q) = {q[k] : k \in 1 .. n - 1} /\ ToSet(s) = {s[k] : k \in 1 .. n}
    BY <1>2, <1>3 DEF ToSet
  <2>2. ASSUME NEW k \in 1 .. n - 1 PROVE q[k] \in ToSet(s) \ {s[i]}
    BY <1>4, <1>8, <2>1
  <2>3. ASSUME NEW k \in 1 .. n, s[k] # s[i] PROVE s[k] \in ToSet(q)
    <3>1. PICK m \in 1 .. n - 1 : old(m) = k
      BY <1>9, <2>3
    <3>2. q[m] = s[k]
      BY <1>4, <3>1
    <3> QED
      BY <2>1, <3>2
  <2> QED
    BY <2>1, <2>2, <2>3
<1> QED
  BY <1>1, <1>11, <1>12 DEF q

\* To take the first event out is to erase at the first place.
LEMMA TailRemoves ==
  ASSUME NEW s \in Seq(Event), s # <<>> PROVE Tail(s) = RemoveAt(s, 1) /\ 1 \in 1 .. Len(s) /\ s[1] \in ToSet(s)
<1>1. Len(s) \in Nat /\ Len(s) # 0 /\ DOMAIN s = 1 .. Len(s)
  OBVIOUS
<1>2. 1 \in 1 .. Len(s)
  BY <1>1
<1>3. RemoveAt(s, 1) \in Seq(Event) /\ Len(RemoveAt(s, 1)) = Len(s) - 1
      /\ \A k \in 1 .. Len(s) - 1 : RemoveAt(s, 1)[k] = IF k < 1 THEN s[k] ELSE s[k + 1]
  BY <1>2, RemovedAt
<1>4. Tail(s) \in Seq(Event) /\ Len(Tail(s)) = Len(s) - 1 /\ \A k \in 1 .. Len(Tail(s)) : Tail(s)[k] = s[k + 1]
  BY HeadTailProperties
<1>5. \A k \in 1 .. Len(Tail(s)) : Tail(s)[k] = RemoveAt(s, 1)[k]
  BY <1>1, <1>3, <1>4
<1>6. Tail(s) = RemoveAt(s, 1)
  <2>1. Len(Tail(s)) = Len(RemoveAt(s, 1))
    BY <1>3, <1>4
  <2> QED
    BY <1>3, <1>4, <1>5, <2>1, SeqEqual
<1> QED
  BY <1>1, <1>2, <1>6 DEF ToSet

\* Two sequences hold each event at most once together, if each does and they have none in common.
LEMMA Apart ==
  ASSUME NEW a \in Seq(Event), NEW b \in Seq(Event)
  PROVE  /\ IsInjective(a \o b) <=> IsInjective(a) /\ IsInjective(b) /\ ToSet(a) \cap ToSet(b) = {}
         /\ ToSet(a \o b) = ToSet(a) \cup ToSet(b)
<1> DEFINE c == a \o b
           n == Len(a)
           m == Len(b)
<1>1. c \in Seq(Event) /\ Len(c) = n + m /\ \A k \in 1 .. n + m : c[k] = IF k <= n THEN a[k] ELSE b[k - n]
  BY ConcatProperties
<1>2. n \in Nat /\ m \in Nat /\ DOMAIN a = 1 .. n /\ DOMAIN b = 1 .. m
  OBVIOUS
<1> HIDE DEF c, n, m
<1>3. DOMAIN c = 1 .. n + m
  BY <1>1, <1>2
<1>4. ASSUME NEW k \in 1 .. n PROVE k \in 1 .. n + m /\ c[k] = a[k]
  BY <1>1, <1>2
<1>5. ASSUME NEW k \in 1 .. m PROVE n + k \in 1 .. n + m /\ c[n + k] = b[k]
  <2>1. n + k \in 1 .. n + m /\ ~(n + k <= n) /\ (n + k) - n = k
    BY <1>2
  <2> QED
    BY <1>1, <2>1
<1>6. ASSUME NEW k \in 1 .. n + m
      PROVE  (k \in 1 .. n /\ c[k] = a[k]) \/ (k > n /\ k - n \in 1 .. m /\ c[k] = b[k - n])
  BY <1>1, <1>2
<1>7. ToSet(a) = {a[k] : k \in 1 .. n} /\ ToSet(b) = {b[k] : k \in 1 .. m} /\ ToSet(c) = {c[k] : k \in 1 .. n + m}
  BY <1>2, <1>3 DEF ToSet
<1>8. ToSet(c) = ToSet(a) \cup ToSet(b)
  <2>1. ToSet(c) \subseteq ToSet(a) \cup ToSet(b)
    BY <1>6, <1>7
  <2>2. ToSet(a) \subseteq ToSet(c)
    BY <1>4, <1>7
  <2>3. ToSet(b) \subseteq ToSet(c)
    <3>1. ASSUME NEW k \in 1 .. m PROVE b[k] \in ToSet(c)
      BY <1>5, <1>7
    <3> QED
      BY <1>7, <3>1
  <2> QED
    BY <2>1, <2>2, <2>3
<1>9. ASSUME IsInjective(c) PROVE IsInjective(a) /\ IsInjective(b) /\ ToSet(a) \cap ToSet(b) = {}
  <2>0. \A x, y \in 1 .. n + m : c[x] = c[y] => x = y
    BY <1>3, <1>9 DEF IsInjective
  <2>1. IsInjective(a)
    BY <1>2, <1>4, <2>0 DEF IsInjective
  <2>2. ASSUME NEW x \in 1 .. m, NEW y \in 1 .. m, b[x] = b[y] PROVE x = y
    <3>1. n + x = n + y
      BY <1>5, <2>0, <2>2
    <3> QED
      BY <1>2, <3>1
  <2>3. ASSUME NEW x \in 1 .. n, NEW y \in 1 .. m, a[x] = b[y] PROVE FALSE
    <3>1. x = n + y
      BY <1>4, <1>5, <2>0, <2>3
    <3> QED
      BY <1>2, <3>1
  <2> QED
    BY <1>2, <1>7, <2>1, <2>2, <2>3 DEF IsInjective
<1>10. ASSUME IsInjective(a), IsInjective(b), ToSet(a) \cap ToSet(b) = {} PROVE IsInjective(c)
  <2>1. \A x, y \in 1 .. n : a[x] = a[y] => x = y
    BY <1>2, <1>10 DEF IsInjective
  <2>2. \A x, y \in 1 .. m : b[x] = b[y] => x = y
    BY <1>2, <1>10 DEF IsInjective
  <2>3. \A x \in 1 .. n, y \in 1 .. m : a[x] # b[y]
    BY <1>7, <1>10
  <2>4. ASSUME NEW x \in 1 .. n + m, NEW y \in 1 .. n + m, c[x] = c[y] PROVE x = y
    <3>1. CASE x \in 1 .. n /\ y \in 1 .. n
      BY <1>4, <2>1, <2>4, <3>1
    <3>2. CASE x \in 1 .. n /\ ~(y \in 1 .. n)
      BY <1>4, <1>6, <2>3, <2>4, <3>2
    <3>3. CASE ~(x \in 1 .. n) /\ y \in 1 .. n
      <4>1. x - n \in 1 .. m /\ c[x] = b[x - n] /\ c[y] = a[y]
        BY <1>4, <1>6, <3>3
      <4> QED
        BY <2>3, <2>4, <3>3, <4>1
    <3>4. CASE ~(x \in 1 .. n) /\ ~(y \in 1 .. n)
      <4>1. x - n \in 1 .. m /\ c[x] = b[x - n] /\ y - n \in 1 .. m /\ c[y] = b[y - n]
        BY <1>6, <3>4
      <4>2. x - n = y - n
        BY <2>2, <2>4, <4>1
      <4> QED
        BY <1>2, <4>2
    <3> QED
      BY <3>1, <3>2, <3>3, <3>4
  <2> QED
    BY <1>3, <2>4 DEF IsInjective
<1> QED
  BY <1>8, <1>9, <1>10 DEF c

\* A finite set as a sequence.
LEMMA Listed ==
  ASSUME NEW S, S \subseteq Event, IsFiniteSet(S)
  PROVE  SetToSeq(S) \in Seq(Event) /\ IsInjective(SetToSeq(S)) /\ ToSet(SetToSeq(S)) = S
<1> DEFINE n == Cardinality(S)
           f == CHOOSE g \in [1 .. n -> S] : IsInjective(g)
<1>1. n \in Nat /\ ExistsBijection(1 .. n, S)
  BY FS_CardinalityType
<1>2. \E g \in [1 .. n -> S] : IsInjective(g)
  BY <1>1 DEF ExistsBijection, Bijection, Injection
<1>3. f \in [1 .. n -> S] /\ IsInjective(f)
  BY <1>2, Zenon
<1>4. SetToSeq(S) = f
  BY DEF SetToSeq
<1> HIDE DEF f
<1>5. IsFiniteSet(1 .. n) /\ Cardinality(1 .. n) = n
  <2>1. Cardinality(1 .. n) = IF 1 > n THEN 0 ELSE n - 1 + 1
    BY <1>1, FS_Interval
  <2> HIDE DEF n
  <2>2. IsFiniteSet(1 .. n)
    BY <1>1, FS_Interval
  <2> QED
    BY <1>1, <2>1, <2>2
<1>6. f \in Injection(1 .. n, S)
  BY <1>3 DEF Injection
<1>7. f \in Surjection(1 .. n, S)
  BY <1>5, <1>6, FS_Injection
<1>8. DOMAIN f = 1 .. n /\ f \in Seq(S)
  BY <1>1, <1>3
<1>9. ToSet(f) = S
  BY <1>3, <1>7, <1>8 DEF ToSet, Surjection
<1>10. f \in Seq(Event)
  BY <1>8, SeqMonotonic
<1> QED
  BY <1>3, <1>4, <1>9, <1>10

--------------------------------------------------------------------------------
\* The invariant, with the two sequences apart.
Apartness(pending, set) ==
  /\ pending \in Seq(Event) /\ set \in Seq(Event) /\ IsInjective(pending) /\ IsInjective(set)
  /\ ToSet(pending) \cap ToSet(set) = {}

\* The time of an empty set is a time that is never reached.
LEMMA NeverReached ==
  ASSUME EventManagerAssumption PROVE Never \in Nat /\ \A t \in 0 .. MaxTime : t \in Nat /\ t < Never
BY DEF EventManagerAssumption

\* What most steps need of the invariant.
LEMMA Unpacked ==
  ASSUME EventManagerAssumption, EventInv
  PROVE  /\ Apartness(pending_events, event_set) /\ InOrder(event_set, next_tics)
         /\ ToSet(pending_events) \subseteq Event /\ ToSet(event_set) \subseteq Event
         /\ time \in Nat /\ time < Never /\ next_tics \in [Event -> Nat] /\ Cycle \in [Event -> Nat]
         /\ event_set # <<>> => event_set[1] \in ToSet(event_set)
<1>1. pending_events \in Seq(Event) /\ event_set \in Seq(Event) /\ IsInjective(pending_events \o event_set)
  BY DEF EventInv, TypeOK
<1>2. Apartness(pending_events, event_set)
  BY <1>1, Apart DEF Apartness
<1>3. InOrder(event_set, next_tics)
  BY DEF EventInv, TimeInv, Sorted, InOrder
<1>4. ToSet(pending_events) \subseteq Event /\ ToSet(event_set) \subseteq Event
  BY <1>1 DEF ToSet
<1>5. time \in Nat /\ time < Never /\ next_tics \in [Event -> Nat] /\ Cycle \in [Event -> Nat]
  BY NeverReached DEF EventInv, TypeOK, EventManagerAssumption
<1>6. event_set # <<>> => event_set[1] \in ToSet(event_set)
  BY <1>1, TailRemoves
<1> QED
  BY <1>2, <1>3, <1>4, <1>5, <1>6

\* Two sequences apart hold each event at most once together, which is what TypeOK says.
LEMMA ApartTogether ==
  ASSUME NEW a, NEW b, Apartness(a, b) PROVE IsInjective(a \o b)
BY Apart DEF Apartness

\* The checkpoint stays as it is until it is written.
LEMMA SavedKept ==
  ASSUME SavedInv, saved' = saved PROVE SavedInv'
BY DEF SavedInv, Attached

\* The steps that leave the two sequences and the manager alone.
LEMMA WaitingSteps ==
  ASSUME EventManagerAssumption, EventInv,
         CallJob \/ ProcessDone \/ AdvanceTime \/ (\E e \in Event : Turn(e) \/ Fire(e))
  PROVE  EventInv'
<1>1. /\ Apartness(pending_events, event_set) /\ InOrder(event_set, next_tics)
      /\ ToSet(event_set) \subseteq Event /\ time \in Nat /\ time < Never
      /\ next_tics \in [Event -> Nat] /\ (event_set # <<>> => event_set[1] \in ToSet(event_set))
  BY Unpacked
<1>2. /\ UNCHANGED <<active_events, before_after, target_name, events_instrumented, inst, pending_events, event_set,
                      next_tics, curr_event, saved, asked>>
      /\ (pc # "action" /\ pc' # "action") \/ pc' = pc
  BY DEF CallJob, ProcessDone, AdvanceTime, Turn, Fire, manager, Call
<1>3. TypeOK'
  <2>1. time' \in 0 .. MaxTime /\ job_next' \in Nat /\ active' \subseteq Event
        /\ pc' \in {"top", "process", "events", "action", "jobs"}
    <3>1. time \in 0 .. MaxTime /\ job_next \in Nat /\ active \subseteq Event /\ MaxTime \in Nat
          /\ pc \in {"top", "process", "events", "action", "jobs"}
      BY DEF EventInv, TypeOK, EventManagerAssumption
    <3>2. CASE CallJob \/ (\E e \in Event : Turn(e) \/ Fire(e))
      BY <3>1, <3>2 DEF CallJob, Turn, Fire
    <3>3. CASE ProcessDone
      <4>1. HeadTics(event_set, next_tics) \in Nat
        BY <1>1, NeverReached DEF HeadTics
      <4> QED
        BY <3>1, <3>3, <4>1 DEF ProcessDone
    <3>4. CASE AdvanceTime
      BY <3>1, <3>4 DEF AdvanceTime
    <3> QED
      BY <3>2, <3>3, <3>4
  <2> QED
    BY <1>2, <2>1 DEF EventInv, TypeOK
<1>4. IsFiniteSet(active_events)' /\ SavedInv' /\ AttachInv'
  BY <1>2, SavedKept DEF EventInv, AttachInv
<1>5. PlaceInv'
  <2>1. (pc = "action") <=> (pc' = "action")
    BY DEF CallJob, ProcessDone, AdvanceTime, Turn, Fire, Call
  <2>2. time <= time'
    BY <1>1 DEF CallJob, ProcessDone, AdvanceTime, Turn, Fire
  <2>3. \A e \in Event : next_tics[e] > time' => next_tics[e] > time
    <3>1. time \in Nat /\ time' \in Nat
      BY <1>1, <1>3 DEF TypeOK, EventManagerAssumption
    <3>2. ASSUME NEW e \in Event PROVE next_tics[e] \in Nat
      BY <1>1
    <3> QED
      BY <2>2, <3>1, <3>2
  <2> QED
    BY <1>2, <2>1, <2>3 DEF EventInv, TypeOK, PlaceInv, Held
<1>6. TimeInv'
  <2>1. ASSUME \A d \in ToSet(event_set) : next_tics[event_set[1]] <= next_tics[d]
        PROVE  TimeInv'
    <3>0. \A d \in ToSet(event_set) : next_tics[d] \in Nat
      BY <1>1
    <3>1. TimeInv /\ Sorted'
      BY <1>2 DEF EventInv, TimeInv, Sorted
    <3>2. CASE CallJob
      <4>1. ASSUME NEW d \in ToSet(event_set), pc' = "jobs" PROVE next_tics[d] > time
        <5>1. event_set # <<>> /\ event_set[1] \in ToSet(event_set)
          BY <1>1, NoneInEmpty
        <5>2. job_next = next_tics[event_set[1]] /\ job_next # time
          BY <3>1, <3>2, <4>1, <5>1 DEF CallJob, TimeInv
        <5>3. next_tics[event_set[1]] >= time /\ next_tics[event_set[1]] \in Nat /\ next_tics[d] \in Nat
          BY <3>0, <3>1, <5>1 DEF TimeInv
        <5> QED
          BY <1>1, <2>1, <5>2, <5>3
      <4> QED
        BY <1>2, <3>1, <3>2, <4>1 DEF CallJob, TimeInv
    <3>3. CASE ProcessDone
      <4>1. ASSUME NEW d \in ToSet(event_set) PROVE next_tics[d] > time
        <5>1. event_set # <<>> /\ event_set[1] \in ToSet(event_set)
          BY <1>1, NoneInEmpty
        <5>2. next_tics[event_set[1]] # time
          BY <3>3, <5>1 DEF ProcessDone, HeadTics, DueNow
        <5>3. next_tics[event_set[1]] >= time /\ next_tics[event_set[1]] \in Nat /\ next_tics[d] \in Nat
          BY <3>0, <3>1, <5>1 DEF TimeInv
        <5> QED
          BY <1>1, <2>1, <5>2, <5>3
      <4> QED
        BY <1>2, <3>1, <3>3, <4>1 DEF ProcessDone, TimeInv, HeadTics
    <3>4. CASE AdvanceTime
      BY <1>1, <1>2, <2>1, <3>0, <3>1, <3>4 DEF AdvanceTime, TimeInv
    <3>5. CASE \E e \in Event : Turn(e) \/ Fire(e)
      BY <1>2, <3>1, <3>5 DEF Turn, Fire, TimeInv
    <3> QED
      BY <3>2, <3>3, <3>4, <3>5
  <2>2. ASSUME NEW d \in ToSet(event_set) PROVE next_tics[event_set[1]] <= next_tics[d]
    <3>1. event_set \in Seq(Event)
      BY <1>1 DEF Apartness
    <3>2. PICK k \in 1 .. Len(event_set) : d = event_set[k]
      BY <3>1 DEF ToSet
    <3>3. 1 \in 1 .. Len(event_set) /\ DOMAIN event_set = 1 .. Len(event_set) /\ event_set[1] \in Event
      BY <3>1, <3>2
    <3>4. CASE k = 1
      BY <1>1, <3>2, <3>3, <3>4
    <3>5. CASE k # 1
      <4>1. 1 < k /\ k \in DOMAIN event_set /\ 1 \in DOMAIN event_set
        BY <3>1, <3>2, <3>3, <3>5
      <4> QED
        BY <1>1, <3>2, <4>1 DEF InOrder
    <3> QED
      BY <3>4, <3>5
  <2> QED
    BY <2>1, <2>2
<1> QED
  BY <1>3, <1>4, <1>5, <1>6 DEF EventInv

\* add_pending_events at the top of a frame.
LEMMA TopOfFrameStep ==
  ASSUME EventManagerAssumption, EventInv, TopOfFrame
  PROVE  EventInv'
<1>1. /\ Apartness(pending_events, event_set) /\ InOrder(event_set, next_tics)
      /\ ToSet(pending_events) \subseteq Event /\ ToSet(event_set) \subseteq Event
      /\ time \in Nat /\ next_tics \in [Event -> Nat] /\ Cycle \in [Event -> Nat]
  BY Unpacked
<1>2. UNCHANGED <<time, active_events, before_after, target_name, events_instrumented, inst, active, curr_event,
                  saved, asked>>
      /\ pc = "top" /\ pc' = "process" /\ job_next \in Nat
  BY DEF TopOfFrame, manager, EventInv, TypeOK
<1>3. IsFiniteSet(active_events)' /\ SavedInv' /\ AttachInv'
  BY <1>2, SavedKept DEF EventInv, AttachInv
<1>4. CASE time % Frame # 0
  <2>1. UNCHANGED <<pending_events, event_set, next_tics, job_next>>
    BY <1>4 DEF TopOfFrame
  <2>2. TypeOK'
    BY <1>2, <2>1 DEF EventInv, TypeOK
  <2>3. PlaceInv' /\ TimeInv'
    BY <1>2, <2>1 DEF EventInv, PlaceInv, Held, TimeInv, Sorted
  <2> QED
    BY <1>3, <2>2, <2>3 DEF EventInv
<1>5. CASE time % Frame = 0
  <2> DEFINE p == [set |-> event_set, tics |-> next_tics, job |-> job_next]
             q == AddAll(pending_events, p, time, "top_of_frame")
  <2>1. p.set = event_set /\ p.tics = next_tics /\ p.job = job_next /\ p \in Processor
    BY <1>1, <1>2 DEF Apartness, Processor
  <2>2. GoodProcessor(p, time)
    BY <1>1, <1>2, <2>1 DEF GoodProcessor, EventInv, TimeInv, Apartness
  <2>3. event_set' = q.set /\ next_tics' = q.tics /\ job_next' = q.job /\ pending_events' = <<>>
    BY <1>5 DEF TopOfFrame
  <2> HIDE DEF p
  <2>4. \A i \in 1 .. Len(pending_events) : pending_events[i] \notin ToSet(p.set)
    <3>1. \A i \in 1 .. Len(pending_events) : pending_events[i] \in ToSet(pending_events)
      BY <1>1 DEF Apartness, ToSet
    <3> QED
      BY <1>1, <2>1, <3>1 DEF Apartness
  <2>5. /\ GoodProcessor(q, time)
        /\ ToSet(p.set) \subseteq ToSet(q.set) /\ ToSet(q.set) \subseteq ToSet(p.set) \cup ToSet(pending_events)
        /\ \A e \in ToSet(pending_events) : Cycle[e] # 0 \/ p.tics[e] >= time => e \in ToSet(q.set)
        /\ \A d \in Event : d \notin ToSet(pending_events) \/ Cycle[d] = 0 => q.tics[d] = p.tics[d]
    <3>1. pending_events \in Seq(Event) /\ IsInjective(pending_events)
      BY <1>1 DEF Apartness
    <3>2. AddsAll(p, pending_events, time, "top_of_frame", q)
      BY <1>1, <2>2, <2>4, <3>1, AddedAll
    <3> QED
      BY <3>2 DEF AddsAll
  <2> HIDE DEF q
  <2>6. /\ GoodProcessor(q, time)
        /\ ToSet(event_set) \subseteq ToSet(event_set') /\ ToSet(event_set') \subseteq ToSet(event_set) \cup ToSet(pending_events)
        /\ \A e \in ToSet(pending_events) : Cycle[e] # 0 \/ next_tics[e] >= time => e \in ToSet(event_set')
        /\ \A d \in Event : d \notin ToSet(pending_events) \/ Cycle[d] = 0 => next_tics'[d] = next_tics[d]
    BY <2>1, <2>3, <2>5
  <2>7. /\ event_set' \in Seq(Event) /\ next_tics' \in [Event -> Nat] /\ job_next' \in Nat
        /\ IsInjective(event_set') /\ InOrder(event_set', next_tics')
        /\ event_set' # <<>> => job_next' = next_tics'[event_set'[1]]
        /\ \A d \in ToSet(event_set') : next_tics'[d] >= time
    BY <2>3, <2>5 DEF GoodProcessor, Processor
  <2>8. Apartness(pending_events', event_set') /\ ToSet(pending_events') = {}
    BY <2>3, <2>7, NoneInEmpty DEF Apartness
  <2>9. TypeOK'
    <3>1. IsInjective(pending_events' \o event_set')
      BY <2>8, ApartTogether
    <3> QED
      BY <1>2, <2>7, <2>8, <3>1 DEF EventInv, TypeOK, Apartness
  <2>10. PlaceInv'
    <3>1. Held' \subseteq Held
      BY <1>2, <2>6, <2>8 DEF Held
    <3>2. (pc' = "action" <=> curr_event' # NoEvent) /\ curr_event' = NoEvent
      BY <1>2 DEF EventInv, PlaceInv
    <3>3. ASSUME NEW e \in active_events \ before_after, Cycle[e] # 0 \/ next_tics'[e] > time PROVE e \in Held'
      <4>1. e \in Event
        BY DEF EventInv, TypeOK
      <4>2. Cycle[e] # 0 \/ next_tics[e] > time
        BY <2>6, <3>3, <4>1
      <4>3. e \in ToSet(pending_events) \cup ToSet(event_set)
        BY <1>2, <3>2, <4>2 DEF EventInv, PlaceInv, Held
      <4>4. next_tics[e] > time => next_tics[e] >= time
        BY <1>1, <4>1
      <4> QED
        BY <2>6, <4>2, <4>3, <4>4 DEF Held
    <3>4. curr_event' \notin ToSet(pending_events') \cup ToSet(event_set')
      BY <1>1, <2>6, <2>8, <3>2 DEF EventManagerAssumption
    <3> QED
      BY <1>2, <3>1, <3>2, <3>3, <3>4 DEF EventInv, PlaceInv
  <2>11. TimeInv'
    BY <1>2, <2>7 DEF TimeInv, Sorted, InOrder
  <2> QED
    BY <1>3, <2>9, <2>10, <2>11 DEF EventInv
<1> QED
  BY <1>4, <1>5

\* process_event takes the first event out, ...
LEMMA ProcessEventStep ==
  ASSUME EventManagerAssumption, EventInv, ProcessEvent
  PROVE  EventInv'
<1>1. /\ Apartness(pending_events, event_set) /\ InOrder(event_set, next_tics)
      /\ ToSet(pending_events) \subseteq Event /\ ToSet(event_set) \subseteq Event
      /\ time \in Nat /\ time < Never /\ next_tics \in [Event -> Nat]
  BY Unpacked
<1>2. UNCHANGED <<time, active_events, before_after, target_name, events_instrumented, inst, pending_events, next_tics,
                  job_next, saved, asked>>
      /\ pc = "events" /\ pc' = "action" /\ active' \subseteq active /\ curr_event' = event_set[1]
      /\ event_set' = Tail(event_set)
  BY DEF ProcessEvent, manager
<1>3. event_set # <<>> /\ next_tics[event_set[1]] = time
  BY <1>1 DEF ProcessEvent, DueNow, HeadTics
<1>4. event_set' = RemoveAt(event_set, 1) /\ 1 \in 1 .. Len(event_set) /\ event_set[1] \in ToSet(event_set)
  BY <1>1, <1>2, <1>3, TailRemoves DEF Apartness
<1>5. /\ event_set' \in Seq(Event) /\ IsInjective(event_set') /\ InOrder(event_set', next_tics)
      /\ ToSet(event_set') = ToSet(event_set) \ {curr_event'}
  <2>1. event_set \in Seq(Event) /\ IsInjective(event_set)
    BY <1>1 DEF Apartness
  <2>2. /\ RemoveAt(event_set, 1) \in Seq(Event) /\ IsInjective(RemoveAt(event_set, 1))
        /\ InOrder(RemoveAt(event_set, 1), next_tics)
        /\ ToSet(RemoveAt(event_set, 1)) = ToSet(event_set) \ {event_set[1]}
    BY <1>1, <1>4, <2>1, RemovedFrom
  <2> QED
    BY <1>2, <1>4, <2>2
<1>6. Apartness(pending_events', event_set') /\ curr_event' \in Event
  BY <1>1, <1>2, <1>4, <1>5 DEF Apartness
<1>7. IsFiniteSet(active_events)' /\ SavedInv' /\ AttachInv'
  BY <1>2, SavedKept DEF EventInv, AttachInv
<1>8. TypeOK'
  <2>1. IsInjective(pending_events' \o event_set')
    BY <1>6, ApartTogether
  <2> QED
    BY <1>2, <1>6, <2>1 DEF EventInv, TypeOK, Apartness
<1>9. PlaceInv'
  <2>1. curr_event = NoEvent /\ curr_event' # NoEvent
    BY <1>2, <1>6 DEF EventInv, PlaceInv, EventManagerAssumption
  <2>2. Held' = Held
    BY <1>2, <1>4, <1>5, <2>1 DEF Held
  <2>3. curr_event' \notin ToSet(pending_events') \cup ToSet(event_set')
    BY <1>1, <1>2, <1>4, <1>5 DEF Apartness
  <2> QED
    BY <1>2, <2>1, <2>2, <2>3 DEF EventInv, PlaceInv
<1>10. TimeInv'
  BY <1>2, <1>3, <1>5 DEF EventInv, TimeInv, Sorted, InOrder
<1> QED
  BY <1>7, <1>8, <1>9, <1>10 DEF EventInv

\* ... and puts it back in at its next time, if it is cyclic.
LEMMA ActionDoneStep ==
  ASSUME EventManagerAssumption, EventInv, ActionDone
  PROVE  EventInv'
<1>1. /\ Apartness(pending_events, event_set) /\ InOrder(event_set, next_tics)
      /\ ToSet(pending_events) \subseteq Event /\ ToSet(event_set) \subseteq Event
      /\ time \in Nat /\ next_tics \in [Event -> Nat] /\ Cycle \in [Event -> Nat]
  BY Unpacked
<1>2. UNCHANGED <<time, active_events, before_after, target_name, events_instrumented, inst, pending_events, active,
                  job_next, saved, asked>>
      /\ pc = "action" /\ pc' = "events" /\ curr_event' = NoEvent
  BY DEF ActionDone, manager
<1>3. curr_event \in Event /\ curr_event \notin ToSet(pending_events) \cup ToSet(event_set) /\ next_tics[curr_event] = time
  BY <1>2 DEF EventInv, TypeOK, PlaceInv, TimeInv
<1>4. IsFiniteSet(active_events)' /\ SavedInv' /\ AttachInv'
  BY <1>2, SavedKept DEF EventInv, AttachInv
<1>5. /\ next_tics' \in [Event -> Nat] /\ \A d \in Event \ {curr_event} : next_tics'[d] = next_tics[d]
      /\ next_tics'[curr_event] >= time
      /\ event_set' \in Seq(Event) /\ IsInjective(event_set') /\ InOrder(event_set', next_tics')
      /\ ToSet(event_set') = ToSet(event_set) \cup (IF Cycle[curr_event] # 0 THEN {curr_event} ELSE {})
  <2>1. CASE Cycle[curr_event] = 0
    BY <1>1, <1>3, <2>1 DEF ActionDone, PutBack, Apartness
  <2>2. CASE Cycle[curr_event] # 0
    <3>1. next_tics' = [next_tics EXCEPT ![curr_event] = @ + Cycle[curr_event]]
          /\ event_set' = Insert(event_set, next_tics', curr_event)
      BY <2>2 DEF ActionDone, PutBack
    <3>2. /\ next_tics' \in [Event -> Nat] /\ \A d \in Event \ {curr_event} : next_tics'[d] = next_tics[d]
          /\ next_tics'[curr_event] >= time
      BY <1>1, <1>3, <3>1
    <3>3. \A k \in DOMAIN event_set : event_set[k] \in Event \ {curr_event}
      BY <1>1, <1>3 DEF Apartness, ToSet
    <3>4. InOrder(event_set, next_tics')
      BY <1>1, <3>2, <3>3 DEF InOrder
    <3>5. /\ event_set' \in Seq(Event) /\ IsInjective(event_set') /\ InOrder(event_set', next_tics')
          /\ ToSet(event_set') = ToSet(event_set) \cup {curr_event}
      BY <1>1, <1>3, <3>1, <3>2, <3>4, Inserted DEF Apartness
    <3> QED
      BY <2>2, <3>2, <3>5
  <2> QED
    BY <2>1, <2>2
<1>6. Apartness(pending_events', event_set')
  BY <1>1, <1>2, <1>3, <1>5 DEF Apartness
<1>7. TypeOK'
  <2>1. IsInjective(pending_events' \o event_set')
    BY <1>6, ApartTogether
  <2> QED
    BY <1>2, <1>5, <1>6, <2>1 DEF EventInv, TypeOK, Apartness
<1>8. PlaceInv'
  <2>1. Held' \subseteq Held
    BY <1>2, <1>3, <1>5 DEF Held, EventManagerAssumption
  <2>2. ASSUME NEW e \in active_events \ before_after, Cycle[e] # 0 \/ next_tics'[e] > time PROVE e \in Held'
    <3>1. CASE e = curr_event
      <4>1. Cycle[e] # 0
        <5>1. CASE Cycle[e] = 0
          <6>1. next_tics' = next_tics
            BY <3>1, <5>1 DEF ActionDone, PutBack
          <6> QED
            BY <1>1, <1>3, <2>2, <3>1, <5>1, <6>1
        <5> QED
          BY <5>1
      <4> QED
        BY <1>5, <3>1, <4>1 DEF Held
    <3>2. CASE e # curr_event
      <4>1. e \in Event /\ (Cycle[e] # 0 \/ next_tics[e] > time)
        BY <1>5, <2>2, <3>2 DEF EventInv, TypeOK
      <4>2. e \in ToSet(pending_events) \cup ToSet(event_set)
        BY <2>2, <3>2, <4>1 DEF EventInv, PlaceInv, Held
      <4> QED
        BY <1>2, <1>5, <4>2 DEF Held
    <3> QED
      BY <3>1, <3>2
  <2>3. NoEvent \notin ToSet(pending_events') \cup ToSet(event_set')
    BY <1>1, <1>2, <1>3, <1>5 DEF EventManagerAssumption
  <2> QED
    BY <1>2, <2>1, <2>2, <2>3 DEF EventInv, PlaceInv
<1>9. TimeInv'
  <2>1. \A d \in ToSet(event_set') : next_tics'[d] >= time
    BY <1>1, <1>3, <1>5 DEF EventInv, TimeInv
  <2> QED
    BY <1>2, <1>5, <2>1 DEF TimeInv, Sorted, InOrder
<1> QED
  BY <1>4, <1>7, <1>8, <1>9 DEF EventInv

\* An event that is new to the processor waits for the top of the frame.
LEMMA AddStep ==
  ASSUME EventManagerAssumption, Bold = {}, EventInv, NEW e \in Event,
         AddEvent(e) \/ \E t \in 0 .. MaxTime : AddRead(e, t)
  PROVE  EventInv'
<1>1. /\ Apartness(pending_events, event_set) /\ InOrder(event_set, next_tics)
      /\ ToSet(pending_events) \subseteq Event /\ ToSet(event_set) \subseteq Event
      /\ time \in Nat /\ next_tics \in [Event -> Nat] /\ Cycle \in [Event -> Nat]
      /\ (event_set # <<>> => event_set[1] \in ToSet(event_set))
  BY Unpacked
<1>2. UNCHANGED <<pc, time, before_after, target_name, events_instrumented, inst, event_set, job_next, curr_event,
                  saved, asked>>
      /\ active_events' = active_events \cup {e} /\ pending_events' = Append(pending_events, e)
      /\ active' \in {active, active \cup {e}}
  BY DEF AddEvent, AddRead
<1>3. e \notin active_events /\ e \notin before_after
  BY DEF AddEvent, AddRead, EventInv, AttachInv
<1>4. e \notin Held /\ e \notin ToSet(pending_events) /\ e \notin ToSet(event_set) /\ e # curr_event
  BY <1>3 DEF EventInv, PlaceInv, Held, EventManagerAssumption
<1>5. next_tics' \in [Event -> Nat] /\ \A d \in Event \ {e} : next_tics'[d] = next_tics[d]
  <2>1. CASE AddEvent(e)
    BY <1>1, <2>1 DEF AddEvent
  <2>2. ASSUME NEW t \in 0 .. MaxTime, AddRead(e, t)
        PROVE  next_tics' \in [Event -> Nat] /\ \A d \in Event \ {e} : next_tics'[d] = next_tics[d]
    <3>1. t \in Nat /\ next_tics' = [next_tics EXCEPT ![e] = t]
      BY <2>2, NeverReached DEF AddRead
    <3> QED
      BY <1>1, <3>1
  <2> QED
    BY <2>1, <2>2
<1>6. /\ pending_events' \in Seq(Event) /\ IsInjective(pending_events')
      /\ ToSet(pending_events') = ToSet(pending_events) \cup {e}
  <2>1. pending_events \in Seq(Event) /\ IsInjective(pending_events)
    BY <1>1 DEF Apartness
  <2> QED
    BY <1>2, <1>4, <2>1, Appended
<1>7. Apartness(pending_events', event_set')
  BY <1>1, <1>2, <1>4, <1>6 DEF Apartness
<1>8. TypeOK'
  <2>1. IsInjective(pending_events' \o event_set')
    BY <1>7, ApartTogether
  <2> QED
    BY <1>2, <1>5, <1>7, <2>1 DEF EventInv, TypeOK, Apartness
<1>9. IsFiniteSet(active_events)' /\ SavedInv'
  <2>1. IsFiniteSet(active_events \cup {e})
    BY FS_AddElement DEF EventInv
  <2> QED
    BY <1>2, <2>1, SavedKept DEF EventInv
<1>10. AttachInv'
  BY <1>2, <1>3 DEF EventInv, AttachInv
<1>11. PlaceInv'
  <2>1. Held' = Held \cup {e}
    BY <1>2, <1>6 DEF Held
  <2>2. ASSUME NEW d \in active_events' \ before_after', Cycle[d] # 0 \/ next_tics'[d] > time' PROVE d \in Held'
    <3>1. CASE d = e
      BY <2>1, <3>1
    <3>2. CASE d # e
      BY <1>2, <1>5, <2>1, <2>2, <3>2 DEF EventInv, TypeOK, PlaceInv
    <3> QED
      BY <3>1, <3>2
  <2> QED
    BY <1>2, <1>3, <1>4, <1>6, <2>1, <2>2 DEF EventInv, PlaceInv
<1>12. TimeInv'
  <2>1. \A d \in ToSet(event_set) : next_tics'[d] = next_tics[d]
    BY <1>1, <1>4, <1>5
  <2>2. \A k \in DOMAIN event_set : event_set[k] \in ToSet(event_set)
    BY DEF ToSet
  <2>3. Sorted'
    BY <1>1, <1>2, <2>1, <2>2 DEF Sorted, InOrder
  <2>4. pc = "action" => curr_event \in Event
    BY DEF EventInv, TypeOK, PlaceInv
  <2> QED
    BY <1>1, <1>2, <1>4, <1>5, <2>1, <2>3, <2>4 DEF EventInv, TimeInv
<1> QED
  BY <1>8, <1>9, <1>10, <1>11, <1>12 DEF EventInv

\* An event that is attached to a job is not given to the processor.
LEMMA AttachStep ==
  ASSUME EventManagerAssumption, Bold = {}, EventInv, NEW e \in Event, NEW j \in Target, AddEventAt(e, j)
  PROVE  EventInv'
<1>1. UNCHANGED <<pc, time, pending_events, event_set, next_tics, job_next, curr_event, saved>>
      /\ before_after' = before_after \cup {e} /\ target_name' = [target_name EXCEPT ![e] = j]
      /\ events_instrumented' = events_instrumented \cup {<<e, j>>} /\ inst' = inst \cup {<<e, j>>}
      /\ active_events' = active_events \cup {e} /\ active' = active /\ asked' = asked \cup {<<e, j>>}
      /\ Cycle[e] # 0
  BY DEF AddEventAt
<1>2. e \in active_events => e \in before_after
  BY DEF AddEventAt
<1>3. TypeOK'
  <2>1. /\ UNCHANGED <<pc, time, pending_events, event_set, next_tics, job_next, curr_event>>
        /\ active_events' \subseteq Event /\ before_after' \subseteq Event /\ active' \subseteq Event
    BY <1>1 DEF EventInv, TypeOK
  <2>2. /\ events_instrumented' \subseteq Event \X Target /\ inst' \subseteq Event \X Target
        /\ asked' \subseteq Event \X Target
    BY <1>1 DEF EventInv, TypeOK
  <2> QED
    BY <2>1, <2>2 DEF EventInv, TypeOK
<1>4. IsFiniteSet(active_events)' /\ SavedInv'
  <2>1. IsFiniteSet(active_events \cup {e})
    BY FS_AddElement DEF EventInv
  <2> QED
    BY <1>1, <2>1, SavedKept DEF EventInv
<1>5. active_events' \ before_after' = active_events \ before_after
  BY <1>1, <1>2
<1>6. PlaceInv' /\ TimeInv'
  BY <1>1, <1>5 DEF EventInv, PlaceInv, Held, TimeInv, Sorted
<1>7. AttachInv'
  <2>1. target_name' \in [Event -> Target \cup {NoEvent}] /\ target_name'[e] = j
        /\ \A d \in Event \ {e} : target_name'[d] = target_name[d]
    BY <1>1 DEF EventInv, AttachInv
  <2>2. ASSUME NEW d \in active_events' \cap before_after' PROVE <<d, target_name'[d]>> \in asked'
    <3>1. CASE d = e
      BY <1>1, <2>1, <3>1
    <3>2. CASE d # e
      BY <1>1, <2>1, <3>2 DEF EventInv, TypeOK, AttachInv
    <3> QED
      BY <3>1, <3>2
  <2>3. \A h \in asked' : h[1] \in active_events' \cap before_after'
    BY <1>1 DEF EventInv, AttachInv
  <2> QED
    BY <1>1, <2>1, <2>2, <2>3 DEF EventInv, AttachInv
<1> QED
  BY <1>3, <1>4, <1>6, <1>7 DEF EventInv

\* An event that is removed is taken from the set, or from the jobs.
LEMMA RemoveStep ==
  ASSUME EventManagerAssumption, Bold = {}, EventInv, NEW e \in Event, RemoveEvent(e)
  PROVE  EventInv'
<1>1. /\ Apartness(pending_events, event_set) /\ InOrder(event_set, next_tics)
      /\ ToSet(pending_events) \subseteq Event /\ ToSet(event_set) \subseteq Event
      /\ time \in Nat /\ next_tics \in [Event -> Nat]
      /\ (event_set # <<>> => event_set[1] \in ToSet(event_set))
  BY Unpacked
<1>2. UNCHANGED <<pc, time, before_after, target_name, pending_events, next_tics, active, curr_event, saved>>
      /\ active_events' = active_events \ {e} /\ asked' = {h \in asked : h[1] # e}
      /\ pc \in {"top", "action", "jobs"}
  BY DEF RemoveEvent, Call
<1>3. e \notin ToSet(pending_events) /\ e # curr_event
      /\ \A d \in Event \ {e}, j \in Target : ~({<<e, j>>, <<d, j>>} \subseteq inst)
  BY DEF RemoveEvent
<1>4. /\ event_set' \in Seq(Event) /\ IsInjective(event_set') /\ InOrder(event_set', next_tics)
      /\ ToSet(event_set') = ToSet(event_set) \ {e}
  <2>1. CASE e \in before_after
    <3>1. event_set' = event_set /\ e \notin ToSet(event_set)
      BY <2>1 DEF RemoveEvent, EventInv, PlaceInv, Held
    <3> QED
      BY <1>1, <3>1 DEF Apartness
  <2>2. CASE e \notin before_after /\ e \notin ToSet(event_set)
    <3>1. event_set' = event_set
      BY <2>2 DEF RemoveEvent, RemoveFromSet
    <3> QED
      BY <1>1, <2>2, <3>1 DEF Apartness
  <2>3. CASE e \notin before_after /\ e \in ToSet(event_set)
    <3>1. PICK i \in DOMAIN event_set : IsFirst(i, e) /\ event_set' = RemoveAt(event_set, i)
      BY <2>3 DEF RemoveEvent, RemoveFromSet
    <3>2. i \in 1 .. Len(event_set) /\ event_set[i] = e /\ event_set \in Seq(Event) /\ IsInjective(event_set)
      BY <1>1, <3>1 DEF IsFirst, Apartness
    <3>3. /\ RemoveAt(event_set, i) \in Seq(Event) /\ IsInjective(RemoveAt(event_set, i))
          /\ InOrder(RemoveAt(event_set, i), next_tics)
          /\ ToSet(RemoveAt(event_set, i)) = ToSet(event_set) \ {event_set[i]}
      BY <1>1, <3>2, RemovedFrom
    <3> QED
      BY <3>1, <3>2, <3>3
  <2> QED
    BY <2>1, <2>2, <2>3
<1>5. /\ job_next' \in Nat
      /\ pc \in {"top", "jobs"} /\ event_set' # <<>> => job_next' = next_tics[event_set'[1]]
  <2>1. CASE e \in before_after
    BY <2>1 DEF RemoveEvent, EventInv, TypeOK, TimeInv
  <2>2. CASE e \notin before_after
    <3>1. job_next' = HeadTics(event_set', next_tics)
      BY <2>2 DEF RemoveEvent, RemoveFromSet
    <3>2. event_set' # <<>> => event_set'[1] \in Event
      BY <1>4
    <3> QED
      BY <1>1, <3>1, <3>2, NeverReached DEF HeadTics
  <2> QED
    BY <2>1, <2>2
<1>6. Apartness(pending_events', event_set')
  BY <1>1, <1>2, <1>4 DEF Apartness
<1>7. inst' = asked' /\ events_instrumented' = asked'
  <2>1. inst = asked /\ events_instrumented = asked /\ asked \subseteq Event \X Target
        /\ \A h \in asked : h[1] \in active_events \cap before_after
    BY DEF EventInv, AttachInv, TypeOK
  <2>2. CASE e \in before_after
    <3>1. inst' = {h \in inst : <<e, h[2]>> \notin events_instrumented}
          /\ events_instrumented' = {h \in events_instrumented : h[1] # e}
      BY <2>2 DEF RemoveEvent, Detached
    <3>2. ASSUME NEW h \in asked PROVE <<e, h[2]>> \notin asked <=> h[1] # e
      <4>1. h[1] \in Event /\ h[2] \in Target /\ h = <<h[1], h[2]>>
        BY <2>1
      <4> QED
        BY <1>3, <2>1, <4>1
    <3> QED
      BY <1>2, <2>1, <3>1, <3>2
  <2>3. CASE e \notin before_after
    <3>1. inst' = inst /\ events_instrumented' = events_instrumented
      BY <2>3 DEF RemoveEvent
    <3>2. \A h \in asked : h[1] # e
      BY <2>1, <2>3
    <3> QED
      BY <1>2, <2>1, <3>1, <3>2
  <2> QED
    BY <2>2, <2>3
<1>8. TypeOK'
  <2>1. IsInjective(pending_events' \o event_set')
    BY <1>6, ApartTogether
  <2> QED
    BY <1>2, <1>4, <1>5, <1>6, <1>7, <2>1 DEF EventInv, TypeOK, Apartness
<1>9. IsFiniteSet(active_events)' /\ SavedInv'
  <2>1. IsFiniteSet(active_events \ {e})
    BY FS_RemoveElement DEF EventInv
  <2> QED
    BY <1>2, <2>1, SavedKept DEF EventInv
<1>10. AttachInv'
  BY <1>2, <1>7 DEF EventInv, TypeOK, AttachInv
<1>11. PlaceInv'
  <2>1. Held' = Held \ {e}
    BY <1>2, <1>3, <1>4 DEF Held
  <2> QED
    BY <1>2, <1>4, <2>1 DEF EventInv, PlaceInv
<1>12. TimeInv'
  BY <1>2, <1>4, <1>5 DEF EventInv, TimeInv, Sorted, InOrder
<1> QED
  BY <1>8, <1>9, <1>10, <1>11, <1>12 DEF EventInv

\* A checkpoint that is written while no event waits, each attached to one job at most.
LEMMA CheckpointStep ==
  ASSUME EventManagerAssumption, Bold = {}, EventInv, Checkpoint
  PROVE  EventInv'
<1>1. UNCHANGED <<pc, time, active_events, before_after, target_name, events_instrumented, inst, pending_events,
                  event_set, next_tics, active, job_next, curr_event, asked>>
      /\ pc = "top" /\ pending_events = <<>>
      /\ \A d \in Event, i, j \in Target : {<<d, i>>, <<d, j>>} \subseteq asked => i = j
  BY DEF Checkpoint, Frozen, manager
<1>2. saved' = [time |-> time, active_events |-> active_events, before_after |-> before_after,
                target_name |-> target_name, next_tics |-> next_tics, active |-> active,
                job_next |-> job_next, asked |-> asked]
  BY DEF Checkpoint
<1>3. TypeOK' /\ IsFiniteSet(active_events)' /\ PlaceInv' /\ AttachInv' /\ TimeInv'
  BY <1>1 DEF EventInv, TypeOK, PlaceInv, Held, AttachInv, TimeInv, Sorted
<1>4. saved' \in SavedType
  BY <1>2 DEF SavedType, EventInv, TypeOK, AttachInv
<1>5. Attached' = asked
  <2>1. Attached' = {<<d, target_name[d]>> : d \in active_events \cap before_after}
    BY <1>2 DEF Attached
  <2>2. \A d \in active_events \cap before_after : <<d, target_name[d]>> \in asked
    BY DEF EventInv, AttachInv
  <2>3. ASSUME NEW h \in asked PROVE h \in {<<d, target_name[d]>> : d \in active_events \cap before_after}
    <3>1. h[1] \in Event /\ h[2] \in Target /\ h = <<h[1], h[2]>>
      BY DEF EventInv, TypeOK
    <3>2. h[1] \in active_events \cap before_after
      BY DEF EventInv, AttachInv
    <3>3. <<h[1], target_name[h[1]]>> \in asked /\ target_name[h[1]] \in Target
      BY <2>2, <3>2 DEF EventInv, TypeOK
    <3>4. target_name[h[1]] = h[2]
      BY <1>1, <3>1, <3>3
    <3> QED
      BY <3>1, <3>2, <3>4
  <2> QED
    BY <2>1, <2>2, <2>3
<1>6. ASSUME NEW d \in active_events \ before_after, Cycle[d] # 0 PROVE next_tics[d] >= time
  <2>1. curr_event = NoEvent
    BY <1>1 DEF EventInv, PlaceInv
  <2>2. d \in ToSet(event_set)
    BY <1>1, <1>6, <2>1, NoneInEmpty DEF EventInv, PlaceInv, Held
  <2> QED
    BY <2>2 DEF EventInv, TimeInv
<1>7. SavedInv'
  <2>1. saved'.active_events = active_events /\ saved'.before_after = before_after /\ saved'.asked = asked
        /\ saved'.next_tics = next_tics /\ saved'.time = time
    BY <1>2
  <2> QED
    BY <1>4, <1>5, <1>6, <2>1 DEF SavedInv, EventInv, AttachInv
<1> QED
  BY <1>3, <1>7 DEF EventInv

\* A checkpoint that is loaded while no event waits: the set and the attachments are built anew.
LEMMA ReloadStep ==
  ASSUME EventManagerAssumption, Bold = {}, EventInv, Reload
  PROVE  EventInv'
<1>1. UNCHANGED <<pc, curr_event, saved>> /\ pc = "top" /\ pending_events = <<>> /\ saved # NoSave
      /\ time' = saved.time /\ active_events' = saved.active_events
      /\ before_after' = saved.before_after /\ target_name' = saved.target_name
      /\ next_tics' = saved.next_tics /\ active' = saved.active /\ asked' = saved.asked
      /\ events_instrumented' = Attached /\ inst' = Attached
      /\ pending_events' = <<>> /\ event_set' = ReloadedSet.set /\ job_next' = ReloadedSet.job
  BY DEF Reload, Frozen
<1>2. /\ saved \in SavedType /\ IsFiniteSet(saved.active_events)
      /\ saved.asked = Attached /\ \A e \in saved.before_after : Cycle[e] # 0
      /\ \A e \in saved.active_events \ saved.before_after :
           Cycle[e] # 0 => saved.next_tics[e] >= saved.time
  BY <1>1 DEF EventInv, SavedInv
<1>3. /\ saved.time \in 0 .. MaxTime /\ saved.active_events \subseteq Event /\ saved.before_after \subseteq Event
      /\ saved.target_name \in [Event -> Target \cup {NoEvent}] /\ saved.next_tics \in [Event -> Nat]
      /\ saved.active \subseteq Event /\ saved.job_next \in Nat /\ saved.asked \subseteq Event \X Target
  BY <1>2 DEF SavedType
<1>4. saved.time \in Nat
  BY <1>3, NeverReached
<1> DEFINE S == saved.active_events \ saved.before_after
           p == [set |-> <<>>, tics |-> saved.next_tics, job |-> saved.job_next]
           q == AddAll(ToProcessor, p, saved.time, "restart")
<1>5. ToProcessor \in Seq(Event) /\ IsInjective(ToProcessor) /\ ToSet(ToProcessor) = S
  <2>1. S \subseteq Event /\ IsFiniteSet(S)
    BY <1>2, <1>3, FS_Subset
  <2>2. SetToSeq(S) \in Seq(Event) /\ IsInjective(SetToSeq(S)) /\ ToSet(SetToSeq(S)) = S
    BY <2>1, Listed
  <2> QED
    BY <2>2 DEF ToProcessor
<1>6. ReloadedSet = q
  <2>1. pending_events \o ToProcessor = ToProcessor
    BY <1>1, <1>5, ConcatEmptySeq
  <2> QED
    BY <2>1 DEF ReloadedSet
<1>7. p.set = <<>> /\ p.tics = saved.next_tics /\ p.job = saved.job_next /\ p \in Processor
  BY <1>3, NoneInEmpty DEF Processor
<1> HIDE DEF p
<1>8. GoodProcessor(p, saved.time)
  <2>1. InOrder(<<>>, p.tics)
    BY DEF InOrder
  <2> QED
    BY <1>7, <2>1, NoneInEmpty DEF GoodProcessor
<1>9. \A i \in 1 .. Len(ToProcessor) : ToProcessor[i] \in S
  <2>1. \A i \in 1 .. Len(ToProcessor) : ToProcessor[i] \in ToSet(ToProcessor)
    BY <1>5 DEF ToSet
  <2> QED
    BY <1>5, <2>1
<1>10. AddsAll(p, ToProcessor, saved.time, "restart", q)
  <2>1. \A i \in 1 .. Len(ToProcessor) : ToProcessor[i] \notin ToSet(p.set)
    BY <1>7, NoneInEmpty
  <2>2. \A i \in 1 .. Len(ToProcessor) : Cycle[ToProcessor[i]] # 0 => p.tics[ToProcessor[i]] >= saved.time
    BY <1>2, <1>7, <1>9
  <2> QED
    BY <1>4, <1>5, <1>8, <2>1, <2>2, AddedAll
<1> HIDE DEF q
<1>11. /\ GoodProcessor(q, saved.time) /\ ToSet(q.set) \subseteq S
       /\ \A e \in S : Cycle[e] # 0 \/ p.tics[e] >= saved.time => e \in ToSet(q.set)
       /\ \A d \in Event : q.tics[d] = p.tics[d]
  BY <1>5, <1>7, <1>10, NoneInEmpty DEF AddsAll
<1>12. /\ event_set' \in Seq(Event) /\ job_next' \in Nat /\ IsInjective(event_set')
       /\ InOrder(event_set', q.tics)
       /\ event_set' # <<>> => job_next' = q.tics[event_set'[1]]
       /\ \A d \in ToSet(event_set') : q.tics[d] >= saved.time
       /\ ToSet(event_set') = ToSet(q.set)
  BY <1>1, <1>6, <1>11 DEF GoodProcessor, Processor
<1>13. \A d \in Event : next_tics'[d] = q.tics[d]
  BY <1>1, <1>7, <1>11
<1>14. \A k \in DOMAIN event_set' : event_set'[k] \in Event
  BY <1>12
<1>15. Apartness(pending_events', event_set') /\ ToSet(pending_events') = {}
  BY <1>1, <1>12, NoneInEmpty DEF Apartness
<1>16. TypeOK'
  <2>1. IsInjective(pending_events' \o event_set')
    BY <1>15, ApartTogether
  <2>2. inst' \subseteq Event \X Target /\ events_instrumented' \subseteq Event \X Target
    BY <1>1, <1>2, <1>3
  <2> QED
    BY <1>1, <1>3, <1>12, <1>15, <2>1, <2>2 DEF EventInv, TypeOK, Apartness
<1>17. IsFiniteSet(active_events)' /\ SavedInv'
  BY <1>1, <1>2, SavedKept DEF EventInv
<1>18. AttachInv'
  <2>1. \A h \in asked' : h[1] \in active_events' \cap before_after'
    BY <1>1, <1>2 DEF Attached
  <2>2. \A e \in active_events' \cap before_after' : <<e, target_name'[e]>> \in asked'
    BY <1>1, <1>2 DEF Attached
  <2> QED
    BY <1>1, <1>2, <1>3, <2>1, <2>2 DEF AttachInv
<1>19. PlaceInv'
  <2>1. curr_event' = NoEvent /\ Held' = ToSet(q.set)
    BY <1>1, <1>12, <1>15 DEF EventInv, PlaceInv, Held
  <2>2. NoEvent \notin ToSet(q.set) /\ Held' \subseteq active_events' \ before_after'
    BY <1>1, <1>3, <1>11, <2>1 DEF EventManagerAssumption
  <2>3. ASSUME NEW e \in S, Cycle[e] # 0 \/ saved.next_tics[e] > saved.time PROVE e \in ToSet(q.set)
    <3>1. saved.next_tics[e] \in Nat
      BY <1>3
    <3>2. Cycle[e] # 0 \/ p.tics[e] >= saved.time
      BY <1>4, <1>7, <2>3, <3>1
    <3> QED
      BY <1>11, <3>2
  <2> QED
    BY <1>1, <1>12, <1>15, <2>1, <2>2, <2>3 DEF PlaceInv
<1>20. TimeInv'
  <2>1. Sorted'
    BY <1>12, <1>13, <1>14 DEF Sorted, InOrder
  <2>2. event_set' # <<>> => job_next' = next_tics'[event_set'[1]]
    <3>1. event_set' # <<>> => event_set'[1] \in Event
      BY <1>12
    <3> QED
      BY <1>12, <1>13, <3>1
  <2>3. \A d \in ToSet(event_set') : next_tics'[d] >= time'
    <3>1. ToSet(event_set') \subseteq Event
      BY <1>3, <1>11, <1>12
    <3> QED
      BY <1>1, <1>12, <1>13, <3>1
  <2> QED
    BY <1>1, <2>1, <2>2, <2>3 DEF TimeInv
<1> QED
  BY <1>16, <1>17, <1>18, <1>19, <1>20 DEF EventInv

--------------------------------------------------------------------------------
\* The invariant holds at the start, where there are no events, ...
LEMMA EventInit ==
  ASSUME EventManagerAssumption, Init PROVE EventInv
<1>1. Apartness(pending_events, event_set) /\ ToSet(pending_events) = {} /\ ToSet(event_set) = {}
  BY NoneInEmpty DEF Init, Apartness
<1>2. TypeOK
  <2>1. IsInjective(pending_events \o event_set)
    BY <1>1, ApartTogether
  <2> QED
    BY <1>1, <2>1 DEF Init, TypeOK, Apartness, EventManagerAssumption
<1>3. IsFiniteSet(active_events)
  BY FS_EmptySet DEF Init
<1>4. PlaceInv /\ AttachInv /\ TimeInv /\ SavedInv
  BY <1>1 DEF Init, PlaceInv, Held, AttachInv, TimeInv, Sorted, SavedInv
<1> QED
  BY <1>2, <1>3, <1>4 DEF EventInv

\* ... and every step keeps it.
LEMMA EventSteps ==
  ASSUME EventManagerAssumption, Bold = {}, EventInv, [Next]_vars PROVE EventInv'
<1>1. CASE Process
  BY <1>1, TopOfFrameStep, ProcessEventStep, ActionDoneStep, WaitingSteps DEF Process
<1>2. ASSUME NEW e \in Event, Change(e) PROVE EventInv'
  <2>1. CASE AddEvent(e) \/ \E t \in 0 .. MaxTime : AddRead(e, t)
    BY <2>1, AddStep
  <2>2. CASE \E j \in Target : AddEventAt(e, j)
    BY <2>2, AttachStep
  <2>3. CASE RemoveEvent(e)
    BY <2>3, RemoveStep
  <2>4. CASE Turn(e) \/ Fire(e)
    BY <2>4, WaitingSteps
  <2> QED
    BY <1>2, <2>1, <2>2, <2>3, <2>4 DEF Change
<1>3. CASE Checkpoint \/ Reload
  BY <1>3, CheckpointStep, ReloadStep
<1>4. CASE UNCHANGED vars
  BY <1>4 DEF vars, manager, EventInv, TypeOK, PlaceInv, Held, AttachInv, TimeInv, Sorted, SavedInv, Attached
<1> QED
  BY <1>1, <1>2, <1>3, <1>4 DEF Next

\* An event that was added is in just one place, the set of the processor is in order with nothing
\* past in it, the attachments are those asked for, and a checkpoint holds all that is needed to build
\* them anew: at every step of the manager, the processor, the calls and the loads.
THEOREM EventInvariant ==
  ASSUME EventManagerAssumption, Bold = {} PROVE Spec => []EventInv
<1>1. Init => EventInv
  BY EventInit
<1>2. EventInv /\ [Next]_vars => EventInv'
  BY EventSteps
<1> QED
  BY <1>1, <1>2, PTL DEF Spec

\* event_set is always in the order of the times its events have now, and once the events of a time are
\* processed its first is still to come and process_event_job is set to it: so process_event may look
\* at the first event only, and none is stuck behind one that is past.
THEOREM SetStaysInOrder ==
  ASSUME EventManagerAssumption, Bold = {} PROVE Spec => []SetInOrder
<1>1. EventInv => SetInOrder
  <2> SUFFICES ASSUME EventInv PROVE NoneBlocked
    BY DEF EventInv, TimeInv, SetInOrder
  <2>1. event_set # <<>> => event_set[1] \in ToSet(event_set)
    BY Unpacked
  <2> QED
    BY <2>1 DEF EventInv, TypeOK, TimeInv, NoneBlocked
<1>2. Spec => []EventInv
  BY EventInvariant
<1> QED
  BY <1>1, <1>2, PTL

\* Once EventManager::remove_event has returned, and the event's own action with it, no sequence of the
\* processor and no job has the event any more.
THEOREM RemovedFromEverywhere ==
  ASSUME EventManagerAssumption, Bold = {} PROVE Spec => []RemovedEverywhere
<1>1. EventInv => RemovedEverywhere
  BY DEF EventInv, PlaceInv, AttachInv, Held, RemovedEverywhere
<1>2. Spec => []EventInv
  BY EventInvariant
<1> QED
  BY <1>1, <1>2, PTL

\* An event that was added, and is cyclic or still to come, is with the processor or at every job it was
\* attached to: calls for other events, the restart and the reload of the processor lose none.
THEOREM NoEventIsLost ==
  ASSUME EventManagerAssumption, Bold = {} PROVE Spec => []NoneLost
<1>1. EventInv => NoneLost
  <2> SUFFICES ASSUME EventInv, AtRest PROVE NoneLost
    BY DEF NoneLost
  <2>1. asked \subseteq inst
    BY DEF EventInv, AttachInv
  <2>2. curr_event = NoEvent
    BY DEF EventInv, PlaceInv, AtRest
  <2>3. ToSet(pending_events \o event_set) = ToSet(pending_events) \cup ToSet(event_set)
    BY Apart DEF EventInv, TypeOK
  <2> QED
    BY <2>1, <2>2, <2>3 DEF EventInv, PlaceInv, Held, NoneLost
<1>2. Spec => []EventInv
  BY EventInvariant
<1> QED
  BY <1>1, <1>2, PTL
============================================================================
