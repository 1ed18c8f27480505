-------------------- MODULE ScheduledJobQueue_proofs --------------------
(***************************************************************************)
(* A sweep of a job queue that changes under its cursor calls its jobs in  *)
(* their order, skips none and leaves none behind the time, for every      *)
(* queue and every sequence of changes, but those the constants exclude: a *)
(* job that removes the very next one, that adds one before the cursor, or *)
(* that turns off a job of a system class.                                 *)
(***************************************************************************)
EXTENDS ScheduledJobQueue, SequenceTheorems, FiniteSetTheorems, TLAPS

\* The jobs that run do not spoil the times of the calls.
Punctual == ~AddsBehind /\ ~DisablesSystem

Passed == {list[i] : i \in 1 .. curr_index}               \* the jobs behind the cursor
Ahead  == {list[i] : i \in curr_index + 1 .. Len(list)}   \* and those it has not reached
Running(j) == pc = "call" /\ j = curr_job

\* The jobs called are behind the cursor.
CalledPassed == pc # "idle" => ToSet(called) \subseteq Passed

\* A job that was due when the sweep began, and stayed, has been called or is ahead and still due.
StayedKept ==
  pc # "idle" =>
    /\ stayed \subseteq (ToSet(called) \cup {j \in Ahead : Due(j)}) \ disabled
    /\ Running(curr_job) /\ curr_job \in stayed => curr_job \in ToSet(called)

\* A job behind the cursor has its next call in the future, where next_job_time does not miss it,
\* but for one that runs and will set its own; none ahead has its next call in the past.
CallsAhead ==
  kind = "scheduled" /\ pc # "idle" =>
    /\ \A j \in Passed : \/ Running(j) /\ j \in SystemJobs
                         \/ next_tics[j] > time /\ next_job_time <= next_tics[j]
    /\ \A j \in Ahead : next_tics[j] >= time

Inv ==
  /\ TypeOK /\ Sorted(list) /\ CalledInOrder /\ CalledPassed /\ StayedKept
  /\ Punctual => disabled \cap SystemJobs = {} /\ CallsAhead /\ NoneLeftBehind

(***************************************************************************)
(* Sequences.                                                              *)
(***************************************************************************)
\* One sequence after another.
LEMMA Concatenation ==
  ASSUME NEW S, NEW a \in Seq(S), NEW b \in Seq(S)
  PROVE  /\ a \o b \in Seq(S) /\ Len(a \o b) = Len(a) + Len(b)
         /\ \A i \in 1 .. Len(a) : (a \o b)[i] = a[i]
         /\ \A i \in 1 .. Len(b) : (a \o b)[Len(a) + i] = b[i]
  BY ConcatProperties

\* One job between two sequences of jobs.
LEMMA Splice ==
  ASSUME NEW S, NEW a \in Seq(S), NEW b \in Seq(S), NEW e \in S
  PROVE  /\ a \o <<e>> \o b \in Seq(S) /\ Len(a \o <<e>> \o b) = Len(a) + 1 + Len(b)
         /\ \A i \in 1 .. Len(a) : (a \o <<e>> \o b)[i] = a[i]
         /\ (a \o <<e>> \o b)[Len(a) + 1] = e
         /\ \A i \in 1 .. Len(b) : (a \o <<e>> \o b)[Len(a) + 1 + i] = b[i]
  <1>0. Len(a) \in Nat /\ Len(b) \in Nat
    BY LenProperties
  <1>1. <<e>> \in Seq(S) /\ Len(<<e>>) = 1 /\ <<e>>[1] = e
    OBVIOUS
  <1>2. PICK d : d = a \o <<e>>
    OBVIOUS
  <1>3. /\ d \in Seq(S) /\ Len(d) = Len(a) + Len(<<e>>)
        /\ (\A i \in 1 .. Len(a) : d[i] = a[i]) /\ \A i \in 1 .. Len(<<e>>) : d[Len(a) + i] = <<e>>[i]
    BY <1>1, <1>2, Concatenation
  <1>4. 1 \in 1 .. 1 /\ \A i \in 1 .. Len(a) : i \in 1 .. Len(a) + 1
    BY <1>0
  <1>5. Len(d) = Len(a) + 1 /\ (\A i \in 1 .. Len(a) : d[i] = a[i]) /\ d[Len(a) + 1] = e
    BY <1>1, <1>3, <1>4, Zenon
  <1>6. PICK f : f = d \o b
    OBVIOUS
  <1>7. /\ f \in Seq(S) /\ Len(f) = Len(d) + Len(b)
        /\ (\A i \in 1 .. Len(d) : f[i] = d[i]) /\ \A i \in 1 .. Len(b) : f[Len(d) + i] = b[i]
    <2>1. d \in Seq(S)
      BY <1>3
    <2> QED
      BY <1>6, <2>1, ConcatProperties
  <1>8. (\A i \in 1 .. Len(a) : f[i] = a[i]) /\ f[Len(a) + 1] = e
    <2>1. Len(a) + 1 \in 1 .. Len(d) /\ \A i \in 1 .. Len(a) : i \in 1 .. Len(d)
      BY <1>0, <1>5
    <2> QED
      BY <1>5, <1>7, <2>1, Zenon
  <1>9. f = a \o <<e>> \o b
    BY <1>2, <1>6
  <1> QED
    BY <1>5, <1>7, <1>8, <1>9, Zenon

\* push_ordered: those from the place on move up by one.
LEMMA InsertAtProperties ==
  ASSUME NEW S, NEW s \in Seq(S), NEW k \in 1 .. Len(s) + 1, NEW e \in S
  PROVE  /\ InsertAt(s, k, e) \in Seq(S)
         /\ Len(InsertAt(s, k, e)) = Len(s) + 1
         /\ \A i \in 1 .. k - 1 : InsertAt(s, k, e)[i] = s[i]
         /\ InsertAt(s, k, e)[k] = e
         /\ \A i \in k .. Len(s) : InsertAt(s, k, e)[i + 1] = s[i]
  <1>1. PICK n \in Nat : n = Len(s)
    BY LenProperties
  <1>2. PICK p \in Nat : p + 1 = k /\ p = k - 1 /\ p <= n /\ n - p \in Nat
    BY <1>1
  <1>3. PICK a : a = SubSeq(s, 1, p)
    OBVIOUS
  <1>4. a \in Seq(S) /\ Len(a) = p /\ \A i \in 1 .. p : a[i] = s[i]
    BY <1>1, <1>2, <1>3, SubSeqProperties
  <1>5. PICK b : b = SubSeq(s, p + 1, n)
    OBVIOUS
  <1>6. b \in Seq(S) /\ Len(b) = n - p /\ \A i \in 1 .. n - p : b[i] = s[p + i]
    BY <1>1, <1>2, <1>5, SubSeqProperties
  <1>7. PICK f : f = a \o <<e>> \o b
    OBVIOUS
  <1>8. /\ f \in Seq(S) /\ Len(f) = Len(a) + 1 + Len(b)
        /\ (\A i \in 1 .. Len(a) : f[i] = a[i]) /\ f[Len(a) + 1] = e
        /\ \A i \in 1 .. Len(b) : f[Len(a) + 1 + i] = b[i]
    <2>1. a \in Seq(S) /\ b \in Seq(S)
      BY <1>4, <1>6
    <2> QED
      BY <1>7, <2>1, Splice, SMT
  <1>9. /\ f \in Seq(S) /\ Len(f) = p + 1 + (n - p)
        /\ (\A i \in 1 .. p : f[i] = a[i]) /\ f[p + 1] = e
        /\ \A i \in 1 .. n - p : f[p + 1 + i] = b[i]
    BY <1>4, <1>6, <1>8, Zenon
  <1>10. ASSUME NEW i \in p + 1 .. n
         PROVE  f[i + 1] = s[i]
    <2>1. PICK h \in 1 .. n - p : i = p + h
      <3>1. i - p \in 1 .. n - p /\ i = p + (i - p)
        BY <1>2
      <3> QED
        BY <3>1
    <2>2. p + 1 + h = i + 1
      BY <1>2, <2>1
    <2> QED
      BY <1>6, <1>9, <2>1, <2>2, Zenon
  <1>11. InsertAt(s, k, e) = f
    BY <1>1, <1>2, <1>3, <1>5, <1>7, Zenon DEF InsertAt
  <1>12. Len(f) = n + 1 /\ \A i \in 1 .. p : f[i] = s[i]
    BY <1>2, <1>4, <1>9
  <1> QED
    BY <1>1, <1>2, <1>9, <1>10, <1>11, <1>12, Zenon

\* remove: those behind the place move down by one.
LEMMA RemoveAtProperties ==
  ASSUME NEW S, NEW s \in Seq(S), NEW k \in 1 .. Len(s)
  PROVE  /\ RemoveAt(s, k) \in Seq(S)
         /\ Len(RemoveAt(s, k)) = Len(s) - 1
         /\ \A i \in 1 .. k - 1 : RemoveAt(s, k)[i] = s[i]
         /\ \A i \in k .. Len(s) - 1 : RemoveAt(s, k)[i] = s[i + 1]
  <1>1. PICK n \in Nat : n = Len(s)
    BY LenProperties
  <1>2. PICK p \in Nat : p + 1 = k /\ p + 2 = k + 1 /\ p = k - 1 /\ p < n /\ n - p - 1 \in Nat
    BY <1>1
  <1>3. PICK a : a = SubSeq(s, 1, p)
    OBVIOUS
  <1>4. a \in Seq(S) /\ Len(a) = p /\ \A i \in 1 .. p : a[i] = s[i]
    BY <1>1, <1>2, <1>3, SubSeqProperties
  <1>5. PICK b : b = SubSeq(s, p + 2, n)
    OBVIOUS
  <1>6. b \in Seq(S) /\ Len(b) = n - p - 1 /\ \A i \in 1 .. n - p - 1 : b[i] = s[p + 1 + i]
    BY <1>1, <1>2, <1>5, SubSeqProperties
  <1>7. PICK f : f = a \o b
    OBVIOUS
  <1>8. /\ f \in Seq(S) /\ Len(f) = Len(a) + Len(b)
        /\ (\A i \in 1 .. Len(a) : f[i] = a[i])
        /\ \A i \in 1 .. Len(b) : f[Len(a) + i] = b[i]
    <2>1. a \in Seq(S) /\ b \in Seq(S)
      BY <1>4, <1>6
    <2> QED
      BY <1>7, <2>1, ConcatProperties
  <1>9. /\ f \in Seq(S) /\ Len(f) = p + (n - p - 1)
        /\ (\A i \in 1 .. p : f[i] = a[i])
        /\ \A i \in 1 .. n - p - 1 : f[p + i] = b[i]
    BY <1>4, <1>6, <1>8, Zenon
  <1>10. ASSUME NEW i \in p + 1 .. n - 1
         PROVE  f[i] = s[i + 1]
    <2>1. PICK h \in 1 .. n - p - 1 : i = p + h
      <3>1. i - p \in 1 .. n - p - 1 /\ i = p + (i - p)
        BY <1>2
      <3> QED
        BY <3>1
    <2>2. p + 1 + h = i + 1
      BY <1>2, <2>1
    <2> QED
      BY <1>6, <1>9, <2>1, <2>2, Zenon
  <1>11. RemoveAt(s, k) = f
    BY <1>1, <1>2, <1>3, <1>5, <1>7, Zenon DEF RemoveAt
  <1>12. Len(f) = n - 1 /\ \A i \in 1 .. p : f[i] = s[i]
    BY <1>2, <1>4, <1>9
  <1> QED
    BY <1>1, <1>2, <1>9, <1>10, <1>11, <1>12, Zenon

\* The numbers among the constants.
LEMMA Numbers ==
  /\ NumJobs \in Nat /\ Word \in Nat \ {0} /\ NumJobs < Word /\ Job \subseteq Nat
  /\ MaxTime \in Nat /\ Never \in Nat /\ MaxTime < Never
  BY ScheduledJobQueueAssumption DEF Job

\* The order of a sorted queue is that of its jobs.
LEMMA SortedMeans ==
  ASSUME NEW q \in Seq(Job)
  PROVE  /\ Len(q) \in Nat /\ DOMAIN q = 1 .. Len(q)
         /\ \A i \in 1 .. Len(q) : q[i] \in Job /\ q[i] \in Nat
         /\ Sorted(q) <=> \A i, k \in 1 .. Len(q) : i < k => q[i] < q[k]
         /\ Sorted(q) => \A i, k \in 1 .. Len(q) : q[i] = q[k] => i = k
         /\ Sorted(q) => \A i, k \in 1 .. Len(q) : q[i] < q[k] => i < k
  <1>1. Len(q) \in Nat /\ DOMAIN q = 1 .. Len(q)
    BY LenProperties
  <1>2. \A i \in 1 .. Len(q) : q[i] \in Job /\ q[i] \in Nat
    BY ElementOfSeq, Numbers
  <1>3. Sorted(q) <=> \A i, k \in 1 .. Len(q) : i < k => q[i] < q[k]
    BY <1>1 DEF Sorted
  <1>4. ASSUME \A i, k \in 1 .. Len(q) : i < k => q[i] < q[k], NEW i \in 1 .. Len(q), NEW k \in 1 .. Len(q)
        PROVE  (q[i] = q[k] => i = k) /\ (q[i] < q[k] => i < k)
    <2>1. i \in Nat /\ k \in Nat /\ q[i] \in Nat /\ q[k] \in Nat
      BY <1>1, <1>2
    <2> QED
      BY <1>4, <2>1
  <1> QED
    BY <1>1, <1>2, <1>3, <1>4

\* An interval from 1 on, and its subsets.
LEMMA Interval ==
  ASSUME NEW n \in Nat
  PROVE  IsFiniteSet(1 .. n) /\ Cardinality(1 .. n) = n
  <1>1. IsFiniteSet(1 .. n) /\ Cardinality(1 .. n) = IF 1 > n THEN 0 ELSE n - 1 + 1
    BY FS_Interval
  <1> QED
    BY <1>1

\* A sorted queue has no more jobs than there are.
LEMMA SortedLength ==
  ASSUME NEW q \in Seq(Job), Sorted(q)
  PROVE  Len(q) <= NumJobs
  <1> DEFINE f == [i \in 1 .. Len(q) |-> q[i]]
  <1>1. f \in Injection(1 .. Len(q), Job)
    <2>1. f \in [1 .. Len(q) -> Job]
      OBVIOUS
    <2>2. \A a, b \in 1 .. Len(q) : q[a] = q[b] => a = b
      BY SortedMeans
    <2> QED
      BY <2>1, <2>2 DEF Injection, IsInjective
  <1>2. IsFiniteSet(Job) /\ Cardinality(Job) = NumJobs
    BY Interval, Numbers DEF Job
  <1>3. IsFiniteSet(1 .. Len(q)) /\ Cardinality(1 .. Len(q)) = Len(q)
    BY Interval
  <1>4. Cardinality(1 .. Len(q)) <= Cardinality(Job)
    BY <1>1, <1>2, <1>3, FS_Injection DEF ExistsInjection
  <1> QED
    BY <1>2, <1>3, <1>4

\* The place of a job in the queue: the jobs before it are those up to there.
LEMMA InsertPointProperties ==
  ASSUME NEW job \in Job, list \in Seq(Job), Sorted(list)
  PROVE  /\ InsertPoint(job) \in 0 .. Len(list)
         /\ \A i \in 1 .. Len(list) : list[i] < job <=> i <= InsertPoint(job)
         /\ job \in InQueue => InsertPoint(job) < Len(list) /\ list[InsertPoint(job) + 1] = job
  <1> DEFINE A == {i \in 1 .. Len(list) : list[i] < job}
             B == {j \in InQueue : j < job}
             n == Cardinality(A)
             f == [i \in A |-> list[i]]
  <1>1. IsFiniteSet(A) /\ n \in 0 .. Len(list)
    <2>1. IsFiniteSet(1 .. Len(list)) /\ Cardinality(1 .. Len(list)) = Len(list)
      BY Interval
    <2>2. A \in SUBSET (1 .. Len(list))
      OBVIOUS
    <2>3. IsFiniteSet(A) /\ n <= Len(list)
      BY <2>1, <2>2, FS_Subset
    <2> QED
      BY <2>3, FS_CardinalityType
  <1>2. f \in Bijection(A, B)
    <2>1. f \in Injection(A, B)
      <3>1. f \in [A -> B]
        BY DEF InQueue, ToSet
      <3>2. \A a, b \in A : list[a] = list[b] => a = b
        BY SortedMeans
      <3> QED
        BY <3>1, <3>2 DEF Injection, IsInjective
    <2>2. \A b \in B : \E a \in A : f[a] = b
      BY DEF InQueue, ToSet
    <2> QED
      BY <2>1, <2>2 DEF Bijection, Surjection, Injection
  <1>3. InsertPoint(job) = n
    BY <1>1, <1>2, FS_Bijection DEF ExistsBijection, InsertPoint
  <1>4. \A a \in A : a <= n
    <2> SUFFICES ASSUME NEW a \in A PROVE a <= n
      OBVIOUS
    <2>1. 1 .. a \subseteq A
      <3> SUFFICES ASSUME NEW i \in 1 .. a PROVE list[i] < job
        OBVIOUS
      <3>1. i \in 1 .. Len(list) /\ list[i] \in Nat /\ list[a] \in Nat /\ job \in Nat
        BY SortedMeans, Numbers
      <3> QED
        BY <3>1, SortedMeans
    <2>2. Cardinality(1 .. a) = a
      BY Interval
    <2> QED
      BY <1>1, <2>1, <2>2, FS_Subset
  <1>5. A = 1 .. n
    <2>1. A \in SUBSET (1 .. n)
      BY <1>1, <1>4
    <2>2. IsFiniteSet(1 .. n) /\ Cardinality(1 .. n) = Cardinality(A)
      BY <1>1, Interval
    <2> QED
      BY <2>1, <2>2, FS_Subset, Zenon
  <1>6. \A i \in 1 .. Len(list) : list[i] < job <=> i <= n
    BY <1>1, <1>5
  <1>7. ASSUME job \in InQueue
        PROVE  n < Len(list) /\ list[n + 1] = job
    <2>1. PICK k \in 1 .. Len(list) : list[k] = job
      BY <1>7 DEF InQueue, ToSet
    <2>2. k > n
      BY <1>1, <1>6, <2>1, Numbers
    <2>3. k = n + 1
      <3> SUFFICES ASSUME n + 1 < k PROVE FALSE
        BY <1>1, <2>2
      <3>1. n + 1 \in 1 .. Len(list) /\ list[n + 1] < list[k]
        BY <1>1 DEF Sorted
      <3> QED
        BY <1>1, <1>6, <2>1, <3>1
    <2> QED
      BY <1>1, <2>1, <2>3
  <1> QED
    BY <1>1, <1>3, <1>6, <1>7

(***************************************************************************)
(* The cursor.                                                             *)
(***************************************************************************)
\* The cursor splits the queue, in its order.
LEMMA CursorSplits ==
  ASSUME list \in Seq(Job), Sorted(list), curr_index \in 0 .. Len(list)
  PROVE  /\ InQueue = Passed \cup Ahead /\ Passed \cap Ahead = {}
         /\ Passed \subseteq Job /\ Ahead \subseteq Job
         /\ \A a \in Passed, b \in Ahead : a < b
  <1>0. /\ Len(list) \in Nat /\ DOMAIN list = 1 .. Len(list) /\ curr_index \in Nat
        /\ \A i \in 1 .. Len(list) : list[i] \in Job
        /\ \A i, k \in 1 .. Len(list) : i < k => list[i] < list[k]
    BY SortedMeans
  <1>1. /\ \A i \in 1 .. curr_index : i \in 1 .. Len(list)
        /\ \A i \in curr_index + 1 .. Len(list) : i \in 1 .. Len(list)
        /\ \A i \in 1 .. Len(list) : i \in 1 .. curr_index \/ i \in curr_index + 1 .. Len(list)
        /\ \A i \in 1 .. curr_index, k \in curr_index + 1 .. Len(list) : i < k
    BY <1>0
  <1>2. InQueue = Passed \cup Ahead /\ Passed \subseteq Job /\ Ahead \subseteq Job
    BY <1>0, <1>1, Zenon DEF InQueue, ToSet, Passed, Ahead
  <1>3. \A a \in Passed, b \in Ahead : a < b
    BY <1>0, <1>1 DEF Passed, Ahead
  <1>4. \A a \in Passed : ~(a < a)
    BY <1>2, Numbers
  <1> QED
    BY <1>2, <1>3, <1>4, Zenon

\* The cursor passes one job.
LEMMA CursorMoves ==
  ASSUME list \in Seq(Job), Sorted(list), curr_index \in 0 .. Len(list), curr_index < Len(list),
         list' = list, curr_index' = curr_index + 1
  PROVE  /\ list[curr_index + 1] \in Ahead /\ list[curr_index + 1] \in Job
         /\ Passed' = Passed \cup {list[curr_index + 1]}
         /\ Ahead' = Ahead \ {list[curr_index + 1]}
  <1>0. /\ Len(list) \in Nat /\ curr_index \in Nat
        /\ \A i \in 1 .. Len(list) : list[i] \in Job
        /\ \A i, k \in 1 .. Len(list) : list[i] = list[k] => i = k
    BY SortedMeans
  <1>1. /\ \A i \in 1 .. curr_index + 1 : i \in 1 .. curr_index \/ i = curr_index + 1
        /\ \A i \in 1 .. curr_index : i \in 1 .. curr_index + 1
        /\ curr_index + 1 \in 1 .. curr_index + 1
        /\ curr_index + 1 \in curr_index + 1 .. Len(list)
        /\ \A i \in curr_index + 1 .. Len(list) : i \in 1 .. Len(list)
        /\ \A i \in curr_index + 1 .. Len(list) : i = curr_index + 1 \/ i \in curr_index + 1 + 1 .. Len(list)
        /\ \A i \in curr_index + 1 + 1 .. Len(list) : i \in curr_index + 1 .. Len(list) /\ i # curr_index + 1
    BY <1>0
  <1>2. Passed' = {list[i] : i \in 1 .. curr_index + 1} /\ Ahead' = {list[i] : i \in curr_index + 1 + 1 .. Len(list)}
    BY DEF Passed, Ahead
  <1>3. Passed' = Passed \cup {list[curr_index + 1]}
    BY <1>1, <1>2, Zenon DEF Passed
  <1>4. Ahead' = Ahead \ {list[curr_index + 1]}
    <2>1. \A i \in curr_index + 1 + 1 .. Len(list) : list[i] # list[curr_index + 1]
      BY <1>0, <1>1, Zenon
    <2>2. Ahead' \subseteq Ahead \ {list[curr_index + 1]}
      BY <1>1, <1>2, <2>1, Zenon DEF Ahead
    <2>3. Ahead \ {list[curr_index + 1]} \subseteq Ahead'
      BY <1>1, <1>2, Zenon DEF Ahead
    <2> QED
      BY <2>2, <2>3, Zenon
  <1> QED
    BY <1>0, <1>1, <1>3, <1>4, Zenon DEF Ahead

\* The cursor when a job is put into the queue.
LEMMA Insertion ==
  ASSUME list \in Seq(Job), Sorted(list), NEW job \in Job, job \notin InQueue,
         list' = InsertAt(list, InsertPoint(job) + 1, job)
  PROVE  /\ list' \in Seq(Job) /\ Sorted(list') /\ Len(list') = Len(list) + 1
         /\ InQueue' = InQueue \cup {job}
         /\ \A i \in 1 .. Len(list) : list'[IF i <= InsertPoint(job) THEN i ELSE i + 1] = list[i]
         /\ list'[InsertPoint(job) + 1] = job
         /\ InsertPoint(job) \in 0 .. Len(list)
  <1>1. PICK p \in Nat : p = InsertPoint(job)
    BY InsertPointProperties
  <1>2. PICK n \in Nat : n = Len(list)
    BY LenProperties
  <1>3. /\ p <= n /\ p \in 0 .. n
        /\ \A i \in 1 .. n : list[i] < job <=> i <= p
    BY <1>1, <1>2, InsertPointProperties
  <1>4. /\ list' \in Seq(Job) /\ Len(list') = n + 1
        /\ \A i \in 1 .. p : list'[i] = list[i]
        /\ list'[p + 1] = job
        /\ \A i \in p + 1 .. n : list'[i + 1] = list[i]
    <2>1. PICK k \in 1 .. Len(list) + 1 : k = p + 1 /\ p = k - 1
      BY <1>2, <1>3
    <2>2. list' = InsertAt(list, k, job)
      BY <1>1, <2>1
    <2>3. /\ InsertAt(list, k, job) \in Seq(Job) /\ Len(InsertAt(list, k, job)) = Len(list) + 1
          /\ \A i \in 1 .. k - 1 : InsertAt(list, k, job)[i] = list[i]
          /\ InsertAt(list, k, job)[k] = job
          /\ \A i \in k .. Len(list) : InsertAt(list, k, job)[i + 1] = list[i]
      BY <2>1, InsertAtProperties
    <2> QED
      BY <1>2, <2>1, <2>2, <2>3, Zenon
  <1>5. /\ \A i \in 1 .. n : list[i] \in Job /\ list[i] \in Nat
        /\ \A i, k \in 1 .. n : i < k => list[i] < list[k]
    BY <1>2, SortedMeans
  <1>6. \A i \in 1 .. n : list[i] # job
    BY <1>2, SortedMeans DEF InQueue, ToSet
  <1>7. job \in Nat
    BY Numbers
  <1>8. ASSUME NEW i \in 1 .. n + 1
        PROVE  \/ i <= p /\ i \in 1 .. n /\ list'[i] = list[i] /\ list[i] < job
               \/ i = p + 1 /\ list'[i] = job
               \/ i > p + 1 /\ i - 1 \in 1 .. n /\ list'[i] = list[i - 1] /\ job < list[i - 1]
    <2>1. CASE i <= p
      BY <1>3, <1>4, <2>1
    <2>2. CASE i = p + 1
      BY <1>4, <2>2
    <2>3. CASE i > p + 1
      <3>1. i - 1 \in p + 1 .. n /\ i - 1 \in 1 .. n /\ ~(i - 1 <= p) /\ (i - 1) + 1 = i
        BY <2>3
      <3>2. list'[i] = list[i - 1]
        BY <1>4, <3>1
      <3>3. job < list[i - 1]
        BY <1>3, <1>5, <1>6, <1>7, <3>1
      <3> QED
        BY <2>3, <3>1, <3>2, <3>3
    <2>4. i <= p \/ i = p + 1 \/ i > p + 1
      OBVIOUS
    <2> QED
      BY <2>1, <2>2, <2>3, <2>4
  <1>9. ASSUME NEW i \in 1 .. n + 1, NEW k \in 1 .. n + 1, i < k
        PROVE  list'[i] < list'[k]
    <2>1. \A h \in 1 .. n : list[h] \in Nat
      BY <1>5
    <2>2. CASE i <= p
      BY <1>5, <1>7, <1>8, <1>9, <2>1, <2>2
    <2>3. CASE i = p + 1
      BY <1>5, <1>7, <1>8, <1>9, <2>1, <2>3
    <2>4. CASE i > p + 1
      BY <1>5, <1>7, <1>8, <1>9, <2>1, <2>4
    <2>5. i <= p \/ i = p + 1 \/ i > p + 1
      OBVIOUS
    <2> QED
      BY <2>2, <2>3, <2>4, <2>5
  <1>10. Sorted(list')
    <2>1. DOMAIN list' = 1 .. n + 1
      BY <1>4
    <2> QED
      BY <1>9, <2>1 DEF Sorted
  <1>11. \A i \in 1 .. n : list'[IF i <= p THEN i ELSE i + 1] = list[i]
    <2>1. \A i \in 1 .. n : IF i <= p THEN i \in 1 .. p ELSE i \in p + 1 .. n
      OBVIOUS
    <2> QED
      BY <1>4, <2>1
  <1>12. InQueue' = InQueue \cup {job}
    <2>1. DOMAIN list' = 1 .. n + 1 /\ DOMAIN list = 1 .. n
      BY <1>2, <1>4
    <2>2. InQueue' = {list'[i] : i \in 1 .. n + 1} /\ InQueue = {list[i] : i \in 1 .. n}
      BY <2>1 DEF InQueue, ToSet
    <2>3. \A i \in 1 .. n + 1 : list'[i] = job \/ \E k \in 1 .. n : list'[i] = list[k]
      BY <1>8
    <2>4. \A i \in 1 .. n : \E k \in 1 .. n + 1 : list'[k] = list[i]
      BY <1>11
    <2>5. p + 1 \in 1 .. n + 1
      BY <1>3
    <2>6. InQueue' \subseteq InQueue \cup {job}
      BY <2>2, <2>3, Zenon
    <2>7. InQueue \subseteq InQueue'
      BY <2>2, <2>4, Zenon
    <2>8. job \in InQueue'
      BY <1>4, <2>2, <2>5, Zenon
    <2> QED
      BY <2>6, <2>7, <2>8, Zenon
  <1> QED
    BY <1>1, <1>2, <1>3, <1>4, <1>10, <1>11, <1>12

\* A sorted queue from which one is taken.
LEMMA Removal ==
  ASSUME NEW q \in Seq(Job), Sorted(q), NEW k \in 1 .. Len(q), NEW r, r = RemoveAt(q, k)
  PROVE  /\ r \in Seq(Job) /\ Sorted(r) /\ Len(r) = Len(q) - 1
         /\ ToSet(r) = ToSet(q) \ {q[k]}
         /\ \A i \in 1 .. k - 1 : r[i] = q[i]
         /\ \A i \in k .. Len(q) - 1 : r[i] = q[i + 1]
  <1>1. PICK n \in Nat : n = Len(q)
    BY LenProperties
  <1>2. k \in 1 .. n /\ k \in Nat
    BY <1>1
  <1>3. /\ r \in Seq(Job) /\ Len(r) = n - 1
        /\ \A i \in 1 .. k - 1 : r[i] = q[i]
        /\ \A i \in k .. n - 1 : r[i] = q[i + 1]
    BY <1>1, RemoveAtProperties
  <1>4. /\ \A i \in 1 .. n : q[i] \in Job /\ q[i] \in Nat
        /\ \A i, h \in 1 .. n : i < h => q[i] < q[h]
        /\ \A i, h \in 1 .. n : q[i] = q[h] => i = h
    BY <1>1, SortedMeans
  <1>5. ASSUME NEW i \in 1 .. n - 1
        PROVE  \/ i < k /\ i \in 1 .. n /\ r[i] = q[i]
               \/ i >= k /\ i + 1 \in 1 .. n /\ r[i] = q[i + 1]
    <2>1. i < k \/ i >= k
      BY <1>2
    <2> QED
      BY <1>2, <1>3, <2>1
  <1>6. ASSUME NEW i \in 1 .. n - 1, NEW h \in 1 .. n - 1, i < h
        PROVE  r[i] < r[h]
    BY <1>2, <1>4, <1>5, <1>6
  <1>7. DOMAIN r = 1 .. n - 1 /\ DOMAIN q = 1 .. n
    BY <1>1, <1>2, <1>3
  <1>8. Sorted(r)
    BY <1>6, <1>7 DEF Sorted
  <1>9. ToSet(r) = {r[i] : i \in 1 .. n - 1} /\ ToSet(q) = {q[i] : i \in 1 .. n}
    BY <1>7 DEF ToSet
  <1>10. \A i \in 1 .. n - 1 : \E h \in 1 .. n : r[i] = q[h] /\ h # k
    BY <1>2, <1>5
  <1>11. ToSet(r) \subseteq ToSet(q) \ {q[k]}
    <2>1. \A h \in 1 .. n : h # k => q[h] # q[k]
      BY <1>2, <1>4
    <2> QED
      BY <1>9, <1>10, <2>1
  <1>12. ASSUME NEW h \in 1 .. n, h # k
         PROVE  \E i \in 1 .. n - 1 : r[i] = q[h]
    <2>1. CASE h < k
      <3>1. h \in 1 .. n - 1 /\ h \in 1 .. k - 1
        BY <1>2, <2>1
      <3> QED
        BY <1>3, <3>1
    <2>2. CASE h > k
      <3>1. h - 1 \in 1 .. n - 1 /\ h - 1 \in k .. n - 1 /\ (h - 1) + 1 = h
        BY <1>2, <2>2
      <3> QED
        BY <1>3, <3>1
    <2> QED
      BY <1>2, <1>12, <2>1, <2>2
  <1>13. ToSet(q) \ {q[k]} \subseteq ToSet(r)
    BY <1>9, <1>12, Zenon
  <1>14. ToSet(r) = ToSet(q) \ {q[k]}
    BY <1>11, <1>13, Zenon
  <1> QED
    BY <1>1, <1>3, <1>8, <1>14

\* The jobs called, when one of them leaves the queue.
LEMMA WithoutProperties ==
  ASSUME NEW q \in Seq(Job), Sorted(q), NEW job
  PROVE  /\ Without(q, job) \in Seq(Job) /\ Sorted(Without(q, job))
         /\ ToSet(Without(q, job)) = ToSet(q) \ {job}
  <1>1. CASE job \in ToSet(q)
    <2>1. PICK k \in DOMAIN q : q[k] = job /\ Without(q, job) = RemoveAt(q, k)
      <3>1. \E i \in DOMAIN q : q[i] = job
        BY <1>1 DEF ToSet
      <3> QED
        BY <1>1, <3>1, Zenon DEF Without
    <2>2. k \in 1 .. Len(q)
      BY LenProperties
    <2> QED
      BY <2>1, <2>2, Removal
  <1>2. CASE job \notin ToSet(q)
    BY <1>2 DEF Without
  <1> QED
    BY <1>1, <1>2

\* push() keeps the cursor between the jobs it was between.
LEMMA PushKeepsCursor ==
  ASSUME list \in Seq(Job), Sorted(list), NEW job \in Job, job \notin InQueue,
         curr_index \in 0 .. Len(list), Push(job)
  PROVE  /\ curr_index' \in 0 .. Len(list')
         /\ Passed' = IF InsertPoint(job) < curr_index THEN Passed \cup {job} ELSE Passed
         /\ Ahead' = IF InsertPoint(job) < curr_index THEN Ahead ELSE Ahead \cup {job}
  <1>1. PICK p \in Nat : p = InsertPoint(job)
    BY InsertPointProperties
  <1>2. PICK n \in Nat : n = Len(list)
    BY LenProperties
  <1>3. list' = InsertAt(list, InsertPoint(job) + 1, job)
    BY DEF Push
  <1>4. /\ list' \in Seq(Job) /\ Sorted(list') /\ Len(list') = n + 1 /\ p \in 0 .. n
        /\ \A i \in 1 .. n : list'[IF i <= p THEN i ELSE i + 1] = list[i]
        /\ list'[p + 1] = job
    BY <1>1, <1>2, <1>3, Insertion
  <1>5. PICK c \in Nat : c = curr_index
    OBVIOUS
  <1>6. c <= n /\ p <= n
    BY <1>2, <1>4, <1>5
  <1>7. curr_index' = IF p < c THEN c + 1 ELSE c
    <2>1. Len(list') <= NumJobs
      BY <1>4, SortedLength
    <2>2. c + 1 < Word /\ Word \in Nat
      BY <1>4, <1>6, <2>1, Numbers
    <2>3. (c + 1) % Word = c + 1
      BY <2>2
    <2> QED
      BY <1>1, <1>5, <2>3 DEF Push
  <1>8. PICK d \in Nat : d = curr_index' /\ d = IF p < c THEN c + 1 ELSE c
    BY <1>7
  <1>9. /\ Passed = {list[i] : i \in 1 .. c} /\ Passed' = {list'[i] : i \in 1 .. d}
        /\ Ahead = {list[i] : i \in c + 1 .. n} /\ Ahead' = {list'[i] : i \in d + 1 .. n + 1}
    BY <1>2, <1>4, <1>5, <1>8 DEF Passed, Ahead
  <1>10. ASSUME NEW i \in 1 .. n
         PROVE  \E h \in 1 .. n + 1 : list'[h] = list[i] /\ (h <= d <=> i <= c)
    <2>1. CASE i <= p
      <3>1. list'[i] = list[i]
        BY <1>4, <2>1
      <3>2. i \in 1 .. n + 1 /\ (i <= d <=> i <= c)
        BY <1>8, <2>1
      <3> QED
        BY <3>1, <3>2
    <2>2. CASE i > p
      <3>1. list'[i + 1] = list[i]
        BY <1>4, <2>2
      <3>2. i + 1 \in 1 .. n + 1 /\ (i + 1 <= d <=> i <= c)
        BY <1>8, <2>2
      <3> QED
        BY <3>1, <3>2
    <2> QED
      BY <2>1, <2>2
  <1>11. ASSUME NEW h \in 1 .. n + 1
         PROVE  \/ list'[h] = job /\ (h <= d <=> p < c)
                \/ \E i \in 1 .. n : list'[h] = list[i] /\ (h <= d <=> i <= c)
    <2>1. CASE h <= p
      <3>1. h \in 1 .. n /\ list'[h] = list[h]
        BY <1>4, <1>6, <2>1
      <3>2. h <= d <=> h <= c
        BY <1>8, <2>1
      <3> QED
        BY <3>1, <3>2
    <2>2. CASE h = p + 1
      <3>1. p + 1 <= d <=> p < c
        BY <1>8
      <3> QED
        BY <1>4, <2>2, <3>1
    <2>3. CASE h > p + 1
      <3>1. h - 1 \in 1 .. n /\ ~(h - 1 <= p) /\ (h - 1) + 1 = h
        BY <2>3
      <3>2. list'[h] = list[h - 1]
        BY <1>4, <3>1
      <3>3. h <= d <=> h - 1 <= c
        BY <1>8, <2>3
      <3> QED
        BY <3>1, <3>2, <3>3
    <2> QED
      BY <2>1, <2>2, <2>3
  <1>12. /\ \A i \in 1 .. c : i \in 1 .. n /\ i <= c
         /\ \A i \in c + 1 .. n : i \in 1 .. n /\ ~(i <= c)
         /\ \A i \in 1 .. n : IF i <= c THEN i \in 1 .. c ELSE i \in c + 1 .. n
         /\ \A i \in 1 .. d : i \in 1 .. n + 1 /\ i <= d
         /\ \A i \in d + 1 .. n + 1 : i \in 1 .. n + 1 /\ ~(i <= d)
         /\ \A i \in 1 .. n + 1 : IF i <= d THEN i \in 1 .. d ELSE i \in d + 1 .. n + 1
    BY <1>6, <1>8
  <1>13. p + 1 \in 1 .. n + 1 /\ (p + 1 <= d <=> p < c) /\ list'[p + 1] = job
    BY <1>4, <1>8
  <1>14. Passed \subseteq Passed' /\ Ahead \subseteq Ahead'
    BY <1>9, <1>10, <1>12
  <1>15. /\ Passed' \subseteq IF p < c THEN Passed \cup {job} ELSE Passed
         /\ Ahead' \subseteq IF p < c THEN Ahead ELSE Ahead \cup {job}
    BY <1>9, <1>11, <1>12
  <1>16. IF p < c THEN job \in Passed' ELSE job \in Ahead'
    BY <1>9, <1>12, <1>13
  <1>17. d \in 0 .. n + 1
    BY <1>6, <1>8
  <1> QED
    BY <1>1, <1>4, <1>5, <1>8, <1>14, <1>15, <1>16, <1>17

\* remove() keeps the cursor between the jobs it was between, unless it removes the next one.
LEMMA EraseKeepsCursor ==
  ASSUME list \in Seq(Job), Sorted(list), NEW job \in InQueue, curr_index \in 0 .. Word - 1, Erase(job)
  PROVE  /\ list' \in Seq(Job) /\ Sorted(list') /\ InQueue' = InQueue \ {job}
         /\ curr_index' \in 0 .. Word - 1
         /\ curr_index \in 0 .. Len(list) /\ InsertPoint(job) # curr_index =>
              /\ curr_index' \in 0 .. Len(list')
              /\ Passed' = Passed \ {job} /\ Ahead' = Ahead \ {job}
  <1>1. job \in Job
    BY SortedMeans DEF InQueue, ToSet
  <1>2. PICK p \in Nat : p = InsertPoint(job)
    BY <1>1, InsertPointProperties
  <1>3. PICK n \in Nat : n = Len(list)
    BY LenProperties
  <1>4. p < n /\ list[p + 1] = job
    BY <1>1, <1>2, <1>3, InsertPointProperties
  <1>5. PICK k \in 1 .. n : k = p + 1
    BY <1>4
  <1>6. /\ list' \in Seq(Job) /\ Sorted(list') /\ Len(list') = n - 1
        /\ InQueue' = InQueue \ {job}
        /\ \A i \in 1 .. k - 1 : list'[i] = list[i]
        /\ \A i \in k .. n - 1 : list'[i] = list[i + 1]
    <2>1. list' = RemoveAt(list, k) /\ k \in 1 .. Len(list) /\ list[k] = job
      BY <1>2, <1>3, <1>4, <1>5 DEF Erase
    <2>2. /\ list' \in Seq(Job) /\ Sorted(list') /\ Len(list') = Len(list) - 1
          /\ ToSet(list') = ToSet(list) \ {list[k]}
          /\ \A i \in 1 .. k - 1 : list'[i] = list[i]
          /\ \A i \in k .. Len(list) - 1 : list'[i] = list[i + 1]
      BY <2>1, Removal
    <2> QED
      BY <1>3, <2>1, <2>2 DEF InQueue
  <1>7. PICK c \in Nat : c = curr_index
    BY Numbers
  <1>8. curr_index' \in 0 .. Word - 1 /\ curr_index' = IF p < c THEN c - 1 ELSE IF p = c THEN curr_index' ELSE c
    <2>1. PICK w \in Nat \ {0} : w = Word
      BY Numbers
    <2>2. curr_index' = IF p <= c THEN (c + w - 1) % w ELSE c
      BY <1>2, <1>7, <2>1 DEF Erase
    <2>3. (c + w - 1) % w \in 0 .. w - 1
      OBVIOUS
    <2>4. p < c => (c + w - 1) % w = c - 1
      <3>1. ASSUME p < c PROVE c - 1 \in 0 .. w - 1 /\ c + w - 1 = (c - 1) + w
        BY <1>7, <2>1, <3>1
      <3>2. ASSUME NEW x \in 0 .. w - 1 PROVE (x + w) % w = x
        OBVIOUS
      <3> QED
        BY <3>1, <3>2
    <2>5. c \in 0 .. w - 1
      BY <1>7, <2>1
    <2> QED
      BY <2>1, <2>2, <2>3, <2>4, <2>5
  <1>9. ASSUME curr_index \in 0 .. Len(list), InsertPoint(job) # curr_index
        PROVE  /\ curr_index' \in 0 .. Len(list')
               /\ Passed' = Passed \ {job} /\ Ahead' = Ahead \ {job}
    <2>1. p # c /\ c <= n
      BY <1>2, <1>3, <1>7, <1>9
    <2>2. PICK d \in Nat : d = curr_index' /\ d = IF p < c THEN c - 1 ELSE c
      BY <1>8, <2>1
    <2>3. /\ Passed = {list[i] : i \in 1 .. c} /\ Passed' = {list'[i] : i \in 1 .. d}
          /\ Ahead = {list[i] : i \in c + 1 .. n} /\ Ahead' = {list'[i] : i \in d + 1 .. n - 1}
      BY <1>3, <1>6, <1>7, <2>2 DEF Passed, Ahead
    <2>4. \A i \in 1 .. n : i # p + 1 => list[i] # job
      <3>1. \A i, h \in 1 .. n : list[i] = list[h] => i = h
        BY <1>3, SortedMeans
      <3> QED
        BY <1>4, <1>5, <3>1
    <2>5. ASSUME NEW h \in 1 .. n - 1
          PROVE  \E i \in 1 .. n : i # p + 1 /\ list'[h] = list[i] /\ (h <= d <=> i <= c)
      <3>1. CASE h <= p
        <4>1. h \in 1 .. k - 1 /\ h \in 1 .. n /\ h # p + 1 /\ (h <= d <=> h <= c)
          BY <1>4, <1>5, <2>2, <3>1
        <4> QED
          BY <1>6, <4>1
      <3>2. CASE h > p
        <4>1. h \in k .. n - 1 /\ h + 1 \in 1 .. n /\ h + 1 # p + 1 /\ (h <= d <=> h + 1 <= c)
          BY <1>4, <1>5, <2>1, <2>2, <3>2
        <4> QED
          BY <1>6, <4>1
      <3> QED
        BY <3>1, <3>2
    <2>6. ASSUME NEW i \in 1 .. n, i # p + 1
          PROVE  \E h \in 1 .. n - 1 : list'[h] = list[i] /\ (h <= d <=> i <= c)
      <3>1. CASE i <= p
        <4>1. i \in 1 .. k - 1 /\ i \in 1 .. n - 1 /\ (i <= d <=> i <= c)
          BY <1>4, <1>5, <2>2, <3>1
        <4> QED
          BY <1>6, <4>1
      <3>2. CASE i > p + 1
        <4>1. i - 1 \in k .. n - 1 /\ i - 1 \in 1 .. n - 1 /\ (i - 1) + 1 = i /\ (i - 1 <= d <=> i <= c)
          BY <1>4, <1>5, <2>1, <2>2, <3>2
        <4> QED
          BY <1>6, <4>1
      <3> QED
        BY <2>6, <3>1, <3>2
    <2>7. /\ \A i \in 1 .. c : i \in 1 .. n /\ i <= c
          /\ \A i \in c + 1 .. n : i \in 1 .. n /\ ~(i <= c)
          /\ \A i \in 1 .. n : IF i <= c THEN i \in 1 .. c ELSE i \in c + 1 .. n
          /\ \A i \in 1 .. d : i \in 1 .. n - 1 /\ i <= d
          /\ \A i \in d + 1 .. n - 1 : i \in 1 .. n - 1 /\ ~(i <= d)
          /\ \A i \in 1 .. n - 1 : IF i <= d THEN i \in 1 .. d ELSE i \in d + 1 .. n - 1
      BY <1>4, <2>1, <2>2
    <2>8. Passed' \subseteq Passed \ {job} /\ Ahead' \subseteq Ahead \ {job}
      <3>1. \A h \in 1 .. n - 1 : \E i \in 1 .. n : list'[h] = list[i] /\ list[i] # job /\ (h <= d <=> i <= c)
        BY <2>4, <2>5
      <3>2. Passed' \subseteq Passed \ {job}
        BY <2>3, <2>7, <3>1
      <3>3. Ahead' \subseteq Ahead \ {job}
        BY <2>3, <2>7, <3>1
      <3> QED
        BY <3>2, <3>3
    <2>9. Passed \ {job} \subseteq Passed' /\ Ahead \ {job} \subseteq Ahead'
      BY <1>4, <2>3, <2>6, <2>7
    <2>10. d \in 0 .. n - 1
      BY <1>4, <2>1, <2>2
    <2> QED
      BY <1>6, <2>2, <2>8, <2>9, <2>10
  <1> QED
    BY <1>6, <1>8, <1>9

\* A sorted queue at whose end a job is put that comes after all of it.
LEMMA Appended ==
  ASSUME NEW q \in Seq(Job), Sorted(q), NEW job \in Job, \A j \in ToSet(q) : j < job
  PROVE  /\ Append(q, job) \in Seq(Job) /\ Sorted(Append(q, job))
         /\ ToSet(Append(q, job)) = ToSet(q) \cup {job}
  <1>1. PICK n \in Nat : n = Len(q)
    BY LenProperties
  <1>2. PICK r \in Seq(Job) : r = Append(q, job)
    BY AppendProperties, Zenon
  <1>3. Len(r) = n + 1 /\ (\A i \in 1 .. n : r[i] = q[i]) /\ r[n + 1] = job
    BY <1>1, <1>2
  <1>4. DOMAIN r = 1 .. n + 1 /\ DOMAIN q = 1 .. n
    BY <1>1, <1>3
  <1>5. /\ \A i \in 1 .. n : q[i] \in Job /\ q[i] \in Nat /\ q[i] < job
        /\ \A i, k \in 1 .. n : i < k => q[i] < q[k]
    BY <1>1, <1>4, SortedMeans DEF ToSet
  <1>6. \A i \in 1 .. n + 1 : i \in 1 .. n \/ i = n + 1
    OBVIOUS
  <1>7. Sorted(r)
    <2> SUFFICES ASSUME NEW i \in 1 .. n + 1, NEW k \in 1 .. n + 1, i < k
                 PROVE  r[i] < r[k]
      BY <1>4 DEF Sorted
    <2>1. i \in 1 .. n
      BY <1>6
    <2> QED
      BY <1>3, <1>5, <1>6, <2>1
  <1>8. ToSet(r) = ToSet(q) \cup {job}
    <2>1. ToSet(r) = {r[i] : i \in 1 .. n + 1} /\ ToSet(q) = {q[i] : i \in 1 .. n}
      BY <1>4 DEF ToSet
    <2>2. \A i \in 1 .. n : i \in 1 .. n + 1
      OBVIOUS
    <2>3. n + 1 \in 1 .. n + 1
      OBVIOUS
    <2> QED
      BY <1>3, <1>6, <2>1, <2>2, <2>3
  <1> QED
    BY <1>2, <1>7, <1>8

(***************************************************************************)
(* The invariant, of the initial states and of each action.                *)
(***************************************************************************)
\* It holds at first.
LEMMA InitInv == Init => Inv
  <1> SUFFICES ASSUME Init PROVE Inv
    OBVIOUS
  <1>1. TypeOK
    BY ScheduledJobQueueAssumption, Numbers DEF Init, TypeOK
  <1>2. Sorted(list) /\ CalledInOrder
    BY ScheduledJobQueueAssumption DEF Init, CalledInOrder, Sorted
  <1>3. CalledPassed /\ StayedKept /\ CallsAhead
    BY DEF Init, CalledPassed, StayedKept, CallsAhead
  <1>4. NoneLeftBehind
    <2>1. InQueue \subseteq Job
      BY ScheduledJobQueueAssumption, SortedMeans DEF Init, InQueue, ToSet
    <2> QED
      BY <2>1, ScheduledJobQueueAssumption DEF Init, NoneLeftBehind
  <1> QED
    BY <1>1, <1>2, <1>3, <1>4 DEF Init, Inv

\* While a sweep goes on the cursor is in the queue or at its end.
LEMMA CursorInQueue ==
  ASSUME Inv, pc # "idle"
  PROVE  list \in Seq(Job) /\ Sorted(list) /\ curr_index \in 0 .. Len(list)
  <1>1. Len(list) \in Nat
    BY LenProperties DEF Inv, TypeOK
  <1> QED
    BY <1>1, Numbers DEF Inv, TypeOK

\* A sweep begins at the first job, with none called.
LEMMA BeginInv == Inv /\ Begin => Inv'
  <1> SUFFICES ASSUME Inv, Begin PROVE Inv'
    OBVIOUS
  <1>1. TypeOK'
    <2>1. InQueue \subseteq Job
      BY SortedMeans DEF Inv, TypeOK, InQueue, ToSet
    <2>2. Len(list) \in Nat
      BY LenProperties DEF Inv, TypeOK
    <2>3. stayed' \subseteq Job
      BY <2>1 DEF Begin
    <2>4. curr_index' \in 0 .. Word - 1 /\ curr_index' <= Len(list')
      BY <2>2, Numbers DEF Begin
    <2> QED
      BY <2>3, <2>4, Numbers DEF Begin, Inv, TypeOK
  <1>2. Sorted(list') /\ CalledInOrder'
    BY DEF Inv, Begin, CalledInOrder, Sorted
  <1>3. Passed' = {} /\ Ahead' = InQueue /\ InQueue' = InQueue
    <2>1. 1 .. 0 = {} /\ 0 + 1 = 1 /\ DOMAIN list = 1 .. Len(list)
      BY SortedMeans DEF Inv, TypeOK
    <2>2. Passed' = {list[i] : i \in 1 .. 0} /\ Ahead' = {list[i] : i \in 0 + 1 .. Len(list)}
      BY DEF Begin, Passed, Ahead
    <2> QED
      BY <2>1, <2>2 DEF Begin, InQueue, ToSet
  <1>4. CalledPassed' /\ StayedKept'
    <2>1. \A j : Due(j)' <=> Due(j)
      BY DEF Begin, Due
    <2>2. ToSet(called') = {}
      BY DEF Begin, ToSet
    <2>3. ~Running(curr_job)'
      BY DEF Begin, Running
    <2> QED
      BY <1>3, <2>1, <2>2, <2>3 DEF Begin, CalledPassed, StayedKept
  <1>5. ASSUME Punctual PROVE CallsAhead' /\ NoneLeftBehind'
    BY <1>3, <1>5 DEF Begin, Inv, CallsAhead, NoneLeftBehind
  <1> QED
    BY <1>1, <1>2, <1>4, <1>5 DEF Inv, Begin

\* A job is called, if it is due, and is behind the cursor from then on.
LEMMA NextJobInv == Inv /\ NextJob => Inv'
  <1> SUFFICES ASSUME Inv, NextJob PROVE Inv'
    OBVIOUS
  <1>0. /\ pc = "sweep" /\ list' = list /\ curr_index' = curr_index + 1
        /\ kind' = kind /\ disabled' = disabled /\ time' = time /\ stayed' = stayed /\ changes' = changes
        /\ kind \in {"class", "scheduled"}
    BY ScheduledJobQueueAssumption DEF NextJob, Inv, TypeOK
  <1>1. list \in Seq(Job) /\ Sorted(list) /\ curr_index \in 0 .. Len(list) /\ curr_index < Len(list)
    BY <1>0, CursorInQueue DEF NextJob, list_size
  <1>2. PICK j : j = list[curr_index + 1]
    OBVIOUS
  <1>3. /\ j \in Ahead /\ j \in Job
        /\ Passed' = Passed \cup {j} /\ Ahead' = Ahead \ {j}
    BY <1>0, <1>1, <1>2, CursorMoves
  <1>4. GetNextJob(j) \/ FindNextJob(j)
    BY <1>2 DEF NextJob
  <1>5. /\ InQueue = Passed \cup Ahead /\ Passed \cap Ahead = {}
        /\ Passed \subseteq Job /\ Ahead \subseteq Job
        /\ \A a \in Passed, b \in Ahead : a < b
    BY <1>1, CursorSplits
  <1>6. \/ Due(j) /\ j \notin disabled /\ pc' = "call" /\ curr_job' = j /\ called' = Append(called, j)
        \/ (~Due(j) \/ j \in disabled) /\ UNCHANGED <<pc, curr_job, called>>
    BY <1>4 DEF GetNextJob, FindNextJob, Call, Due
  <1>7. pc # "idle" /\ ToSet(called) \subseteq Passed /\ called \in Seq(Job) /\ Sorted(called)
    BY <1>0 DEF Inv, CalledPassed, CalledInOrder, TypeOK
  <1>8. /\ called' \in Seq(Job) /\ Sorted(called')
        /\ ToSet(called') = IF Due(j) /\ j \notin disabled THEN ToSet(called) \cup {j} ELSE ToSet(called)
    <2>1. CASE Due(j) /\ j \notin disabled
      <3>1. \A i \in ToSet(called) : i < j
        BY <1>3, <1>5, <1>7
      <3>2. called' = Append(called, j)
        BY <1>6, <2>1
      <3> QED
        BY <1>3, <1>7, <2>1, <3>1, <3>2, Appended
    <2>2. CASE ~(Due(j) /\ j \notin disabled)
      BY <1>6, <1>7, <2>2
    <2> QED
      BY <2>1, <2>2
  <1>9. /\ next_tics \in [Job -> Nat] /\ next_job_time \in Nat /\ time \in Nat /\ time < Never
    BY Numbers DEF Inv, TypeOK
  <1>10. /\ next_tics' \in [Job -> Nat] /\ next_job_time' \in Nat
         /\ \A i \in Job : i # j => next_tics'[i] = next_tics[i]
         /\ kind = "scheduled" => next_job_time' <= next_job_time
         /\ kind = "scheduled" =>
              \/ next_tics[j] = time /\ j \in SystemJobs
              \/ next_tics[j] < time
              \/ next_tics'[j] > time /\ next_job_time' <= next_tics'[j]
    <2>1. CASE GetNextJob(j)
      BY <1>9, <2>1 DEF GetNextJob
    <2>2. CASE FindNextJob(j)
      <3>1. Cycle[j] \in Nat \ {0} /\ Stop[j] \in Nat /\ Never \in Nat
        BY <1>3, ScheduledJobQueueAssumption, Numbers
      <3>2. next_tics[j] \in Nat
        BY <1>3, <1>9
      <3>3. CASE next_tics[j] = time /\ j \in SystemJobs
        BY <1>9, <2>2, <3>3 DEF FindNextJob
      <3>4. CASE next_tics[j] = time /\ j \notin SystemJobs
        <4> DEFINE t == IF next_tics[j] + Cycle[j] > Stop[j] THEN Never ELSE next_tics[j] + Cycle[j]
        <4>1. t \in Nat /\ t > time
          BY <1>9, <3>1, <3>2, <3>4
        <4>2. next_tics' = [next_tics EXCEPT ![j] = t] /\ next_job_time' = Earlier(next_job_time, next_tics'[j])
          BY <2>2, <3>4 DEF FindNextJob
        <4> HIDE DEF t
        <4>3. next_tics'[j] = t
          BY <1>3, <1>9, <4>2
        <4> QED
          BY <1>3, <1>9, <4>1, <4>2, <4>3 DEF Earlier
      <3>5. CASE next_tics[j] # time
        BY <1>9, <2>2, <3>2, <3>5 DEF FindNextJob, Earlier
      <3> QED
        BY <3>3, <3>4, <3>5
    <2> QED
      BY <1>4, <2>1, <2>2
  <1>11. TypeOK'
    <2>1. curr_index' \in 0 .. Word - 1 /\ curr_index' <= Len(list')
      <3>1. Len(list) \in Nat /\ Len(list) <= NumJobs
        BY <1>1, SortedLength, LenProperties
      <3> QED
        BY <1>0, <1>1, <3>1, Numbers
    <2>2. pc' \in {"sweep", "call"} /\ curr_job' \in Job
      BY <1>0, <1>3, <1>6 DEF Inv, TypeOK
    <2> QED
      BY <1>0, <1>8, <1>10, <2>1, <2>2 DEF Inv, TypeOK
  <1>12. Sorted(list') /\ CalledInOrder'
    BY <1>0, <1>1, <1>8 DEF CalledInOrder
  <1>13. CalledPassed'
    BY <1>3, <1>7, <1>8 DEF CalledPassed
  <1>14. StayedKept'
    <2>1. stayed \subseteq (ToSet(called) \cup {i \in Ahead : Due(i)}) \ disabled
      BY <1>7 DEF Inv, StayedKept
    <2>2. \A i \in Ahead : i # j => (Due(i)' <=> Due(i))
      BY <1>0, <1>5, <1>10 DEF Due
    <2>3. stayed' \subseteq (ToSet(called') \cup {i \in Ahead' : Due(i)'}) \ disabled'
      BY <1>0, <1>3, <1>8, <2>1, <2>2
    <2>4. Running(curr_job)' => curr_job' \in ToSet(called')
      BY <1>0, <1>6, <1>8 DEF Running
    <2> QED
      BY <2>3, <2>4 DEF StayedKept
  <1>15. ASSUME Punctual PROVE CallsAhead'
    <2> SUFFICES ASSUME kind = "scheduled"
                 PROVE  /\ \A i \in Passed' : \/ Running(i)' /\ i \in SystemJobs
                                              \/ next_tics'[i] > time /\ next_job_time' <= next_tics'[i]
                        /\ \A i \in Ahead' : next_tics'[i] >= time
      BY <1>0 DEF CallsAhead
    <2>1. /\ \A i \in Passed : next_tics[i] > time /\ next_job_time <= next_tics[i]
          /\ \A i \in Ahead : next_tics[i] >= time
      BY <1>0, <1>15 DEF Inv, CallsAhead, Running
    <2>2. ASSUME NEW i \in Passed PROVE next_tics'[i] > time /\ next_job_time' <= next_tics'[i]
      <3>1. i \in Job /\ i # j /\ next_tics[i] \in Nat
        BY <1>3, <1>5, <1>9
      <3> QED
        BY <1>9, <1>10, <2>1, <3>1
    <2>3. \/ Running(j)' /\ j \in SystemJobs
          \/ next_tics'[j] > time /\ next_job_time' <= next_tics'[j]
      <3>1. next_tics[j] \in Nat /\ ~(next_tics[j] < time)
        BY <1>3, <1>9, <2>1
      <3>2. CASE next_tics[j] = time /\ j \in SystemJobs
        <4>1. Due(j) /\ j \notin disabled
          BY <1>15, <3>2 DEF Due, Inv
        <4>2. pc' = "call" /\ curr_job' = j
          BY <1>6, <4>1
        <4>3. Running(j)'
          BY <4>2 DEF Running
        <4> QED
          BY <3>2, <4>3, Zenon
      <3> QED
        BY <1>10, <3>1, <3>2
    <2>4. \A i \in Ahead' : next_tics'[i] >= time
      BY <1>3, <1>5, <1>10, <2>1
    <2> QED
      BY <1>3, <2>2, <2>3, <2>4
  <1>16. NoneLeftBehind'
    BY <1>0, <1>6 DEF NoneLeftBehind
  <1> QED
    BY <1>0, <1>11, <1>12, <1>13, <1>14, <1>15, <1>16 DEF Inv

\* A job returns; one of a system class has a next call by then.
LEMMA ReturnInv == Inv /\ Return => Inv'
  <1> SUFFICES ASSUME Inv, Return PROVE Inv'
    OBVIOUS
  <1>0. /\ pc = "call" /\ pc' = "sweep"
        /\ UNCHANGED <<kind, list, curr_index, disabled, time, curr_job, called, stayed, changes>>
    BY DEF Return
  <1>1. list \in Seq(Job) /\ Sorted(list) /\ curr_index \in 0 .. Len(list)
    BY <1>0, CursorInQueue
  <1>2. /\ Passed \cap Ahead = {} /\ Passed \subseteq Job /\ Ahead \subseteq Job
    BY <1>1, CursorSplits
  <1>3. Passed' = Passed /\ Ahead' = Ahead
    BY <1>0 DEF Passed, Ahead
  <1>4. next_tics \in [Job -> Nat] /\ next_job_time \in Nat /\ time \in Nat /\ curr_job \in Job
    BY Numbers DEF Inv, TypeOK
  <1>5. /\ next_tics' \in [Job -> Nat] /\ next_job_time' \in Nat
        /\ \A i \in Job : i # curr_job => next_tics'[i] = next_tics[i]
        /\ next_job_time' <= next_job_time
        /\ IF kind = "scheduled" /\ curr_job \in SystemJobs
           THEN next_tics'[curr_job] > time /\ next_job_time' <= next_tics'[curr_job]
           ELSE next_tics' = next_tics
    <2>1. CASE kind = "scheduled" /\ curr_job \in SystemJobs
      <3> DEFINE t == time + Cycle[curr_job]
      <3>1. t \in Nat /\ t > time
        <4>1. Cycle[curr_job] \in Nat \ {0}
          BY <1>4, ScheduledJobQueueAssumption
        <4> QED
          BY <1>4, <4>1
      <3>2. next_tics' = [next_tics EXCEPT ![curr_job] = t] /\ next_job_time' = Earlier(next_job_time, next_tics'[curr_job])
        BY <2>1 DEF Return
      <3> HIDE DEF t
      <3>3. next_tics'[curr_job] = t
        BY <1>4, <3>2
      <3> QED
        BY <1>4, <2>1, <3>1, <3>2, <3>3 DEF Earlier
    <2>2. CASE ~(kind = "scheduled" /\ curr_job \in SystemJobs)
      BY <1>4, <2>2 DEF Return
    <2> QED
      BY <2>1, <2>2
  <1>6. TypeOK'
    BY <1>0, <1>5 DEF Inv, TypeOK
  <1>7. Sorted(list') /\ CalledInOrder' /\ CalledPassed'
    BY <1>0, <1>3 DEF Inv, CalledInOrder, CalledPassed
  <1>8. StayedKept'
    <2>1. /\ stayed \subseteq (ToSet(called) \cup {i \in Ahead : Due(i)}) \ disabled
          /\ curr_job \in stayed => curr_job \in ToSet(called)
          /\ ToSet(called) \subseteq Passed
      BY <1>0 DEF Inv, StayedKept, CalledPassed, Running
    <2>2. \A i \in Ahead : i # curr_job => (Due(i)' <=> Due(i))
      BY <1>0, <1>2, <1>5 DEF Due
    <2>3. stayed' \subseteq (ToSet(called') \cup {i \in Ahead' : Due(i)'}) \ disabled'
      BY <1>0, <1>2, <1>3, <2>1, <2>2
    <2>4. ~Running(curr_job)'
      BY <1>0 DEF Running
    <2> QED
      BY <2>3, <2>4 DEF StayedKept
  <1>9. ASSUME Punctual PROVE CallsAhead'
    <2> SUFFICES ASSUME kind = "scheduled"
                 PROVE  /\ \A i \in Passed : next_tics'[i] > time /\ next_job_time' <= next_tics'[i]
                        /\ \A i \in Ahead : next_tics'[i] >= time
      BY <1>0, <1>3 DEF CallsAhead
    <2>1. /\ \A i \in Passed : \/ i = curr_job /\ i \in SystemJobs
                               \/ next_tics[i] > time /\ next_job_time <= next_tics[i]
          /\ \A i \in Ahead : next_tics[i] >= time
      <3>1. CallsAhead /\ pc # "idle"
        BY <1>0, <1>9 DEF Inv
      <3> QED
        BY <3>1 DEF CallsAhead, Running
    <2>2. ASSUME NEW i \in Passed PROVE next_tics'[i] > time /\ next_job_time' <= next_tics'[i]
      <3>1. i \in Job /\ next_tics[i] \in Nat
        BY <1>2, <1>4
      <3>2. CASE i = curr_job /\ i \in SystemJobs
        BY <1>5, <3>2
      <3>3. CASE ~(i = curr_job /\ i \in SystemJobs)
        <4>1. next_tics'[i] = next_tics[i]
          BY <1>5, <3>1, <3>3
        <4> QED
          BY <1>4, <1>5, <2>1, <3>1, <3>3, <4>1
      <3> QED
        BY <3>2, <3>3
    <2>3. ASSUME NEW i \in Ahead PROVE next_tics'[i] >= time
      <3>1. i \in Job /\ next_tics'[i] \in Nat
        BY <1>2, <1>5
      <3> QED
        BY <1>4, <1>5, <2>1, <3>1
    <2> QED
      BY <2>2, <2>3
  <1>10. NoneLeftBehind'
    BY <1>0 DEF NoneLeftBehind
  <1> QED
    BY <1>0, <1>6, <1>7, <1>8, <1>9, <1>10 DEF Inv

\* A sweep ends behind the last job.
LEMMA EndInv == Inv /\ End => Inv'
  <1> SUFFICES ASSUME Inv, End PROVE Inv'
    OBVIOUS
  <1>0. /\ pc = "sweep" /\ pc' = "idle"
        /\ UNCHANGED <<kind, list, next_job_time, next_tics, disabled, curr_job, called, stayed, changes>>
    BY DEF End
  <1>1. list \in Seq(Job) /\ Sorted(list) /\ curr_index \in 0 .. Len(list) /\ curr_index >= Len(list)
    BY <1>0, CursorInQueue DEF End, list_size
  <1>2. Len(list) \in Nat /\ Len(list) <= NumJobs
    BY <1>1, SortedLength, LenProperties
  <1>3. TypeOK'
    <2>1. curr_index' \in 0 .. Word - 1
      BY <1>1, <1>2, Numbers DEF End, list_size
    <2>2. time' \in 0 .. MaxTime
      <3>1. next_job_time \in Nat /\ time \in 0 .. MaxTime
        BY DEF Inv, TypeOK
      <3> QED
        BY <3>1, Numbers DEF End
    <2> QED
      BY <1>0, <2>1, <2>2 DEF Inv, TypeOK
  <1>4. Sorted(list') /\ CalledInOrder' /\ CalledPassed' /\ StayedKept' /\ CallsAhead'
    BY <1>0 DEF Inv, CalledInOrder, CalledPassed, StayedKept, CallsAhead
  <1>5. ASSUME Punctual PROVE NoneLeftBehind'
    <2> SUFFICES ASSUME kind = "scheduled", NEW j \in InQueue PROVE next_tics[j] >= time'
      BY <1>0 DEF NoneLeftBehind, InQueue
    <2>1. InQueue = Passed
      <3>1. curr_index = Len(list) /\ DOMAIN list = 1 .. Len(list)
        BY <1>1, <1>2
      <3> QED
        BY <3>1 DEF InQueue, ToSet, Passed
    <2>2. next_tics[j] > time /\ next_job_time <= next_tics[j]
      BY <1>0, <1>5, <2>1 DEF Inv, CallsAhead, Running
    <2>3. time' = next_job_time
      BY ScheduledJobQueueAssumption DEF End
    <2>4. j \in Job /\ next_tics[j] \in Nat /\ next_job_time \in Nat
      <3>1. j \in Job
        BY <1>1, SortedMeans DEF InQueue, ToSet
      <3> QED
        BY <3>1 DEF Inv, TypeOK
    <2> QED
      BY <2>2, <2>3, <2>4
  <1> QED
    BY <1>0, <1>3, <1>4, <1>5 DEF Inv

\* A job is added, before or behind the cursor.
LEMMA AddJobInv == \A job \in Job : Inv /\ AddJob(job) => Inv'
  <1> SUFFICES ASSUME NEW job \in Job, Inv, AddJob(job) PROVE Inv'
    OBVIOUS
  <1>0. /\ pc \in {"idle", "call"} /\ job \notin InQueue /\ Push(job)
        /\ next_tics' = [next_tics EXCEPT ![job] = time + Start[job]]
        /\ UNCHANGED <<kind, pc, next_job_time, disabled, time, curr_job, called, stayed>>
        /\ Punctual /\ pc = "call" /\ kind = "scheduled" => InsertPoint(job) >= curr_index
    BY DEF Punctual, AddJob, Change
  <1>1. list \in Seq(Job) /\ Sorted(list) /\ curr_index \in 0 .. Word - 1
    BY DEF Inv, TypeOK
  <1>2. /\ list' \in Seq(Job) /\ Sorted(list')
        /\ InQueue' = InQueue \cup {job} /\ InsertPoint(job) \in Nat
    <2>1. list' = InsertAt(list, InsertPoint(job) + 1, job)
      BY <1>0 DEF Push
    <2>2. InsertPoint(job) \in 0 .. Len(list)
      BY <1>1, InsertPointProperties
    <2> QED
      BY <1>0, <1>1, <2>1, <2>2, Insertion
  <1>3. ASSUME pc # "idle"
        PROVE  /\ curr_index' \in 0 .. Len(list')
               /\ Passed' = IF InsertPoint(job) < curr_index THEN Passed \cup {job} ELSE Passed
               /\ Ahead' = IF InsertPoint(job) < curr_index THEN Ahead ELSE Ahead \cup {job}
    <2>1. curr_index \in 0 .. Len(list)
      BY <1>3, CursorInQueue
    <2> QED
      BY <1>0, <1>1, <2>1, PushKeepsCursor
  <1>4. /\ InQueue \subseteq Job
        /\ pc # "idle" => InQueue = Passed \cup Ahead
    <2>1. InQueue \subseteq Job
      BY <1>1, SortedMeans DEF InQueue, ToSet
    <2>2. ASSUME pc # "idle" PROVE InQueue = Passed \cup Ahead
      BY <2>2, CursorInQueue, CursorSplits
    <2> QED
      BY <2>1, <2>2
  <1>5. time + Start[job] \in Nat /\ time + Start[job] >= time
    <2>1. Start[job] \in Nat /\ time \in Nat
      BY ScheduledJobQueueAssumption, Numbers DEF Inv, TypeOK
    <2> QED
      BY <2>1
  <1>6. /\ next_tics' \in [Job -> Nat] /\ next_tics'[job] >= time
        /\ \A i \in Job : i # job => next_tics'[i] = next_tics[i]
    <2> DEFINE t == time + Start[job]
    <2>1. t \in Nat /\ t >= time /\ next_tics' = [next_tics EXCEPT ![job] = t]
      BY <1>0, <1>5
    <2> HIDE DEF t
    <2> QED
      BY <2>1 DEF Inv, TypeOK
  <1>7. TypeOK'
    <2>1. curr_index' \in 0 .. Word - 1
      <3>1. PICK w \in Nat \ {0} : w = Word
        BY Numbers
      <3>2. PICK c \in 0 .. w - 1 : c = curr_index
        BY <1>1, <3>1
      <3>3. curr_index' = (c + 1) % w \/ curr_index' = c
        BY <1>0, <3>1, <3>2 DEF Push
      <3>4. (c + 1) % w \in 0 .. w - 1
        OBVIOUS
      <3> QED
        BY <3>1, <3>2, <3>3, <3>4
    <2>2. pc' # "idle" => curr_index' <= Len(list')
      <3>1. Len(list') \in Nat
        BY <1>2, LenProperties
      <3> QED
        BY <1>0, <1>3, <3>1
    <2>3. changes' \in 0 .. MaxChanges
      BY ScheduledJobQueueAssumption DEF AddJob, Change, Inv, TypeOK
    <2> QED
      BY <1>0, <1>2, <1>6, <2>1, <2>2, <2>3 DEF Inv, TypeOK
  <1>8. CalledInOrder' /\ CalledPassed'
    BY <1>0, <1>3 DEF Inv, CalledInOrder, CalledPassed
  <1>9. StayedKept'
    <2> SUFFICES ASSUME pc # "idle"
                 PROVE  /\ stayed \subseteq (ToSet(called) \cup {i \in Ahead' : Due(i)'}) \ disabled
                        /\ Running(curr_job) /\ curr_job \in stayed => curr_job \in ToSet(called)
      BY <1>0 DEF StayedKept, Running
    <2>1. /\ stayed \subseteq (ToSet(called) \cup {i \in Ahead : Due(i)}) \ disabled
          /\ Running(curr_job) /\ curr_job \in stayed => curr_job \in ToSet(called)
      BY DEF Inv, StayedKept
    <2>2. \A i \in Ahead : i \in Ahead' /\ (Due(i)' <=> Due(i))
      BY <1>0, <1>3, <1>4, <1>6 DEF Due
    <2> QED
      BY <2>1, <2>2
  <1>10. ASSUME Punctual PROVE CallsAhead'
    <2> SUFFICES ASSUME kind = "scheduled", pc # "idle"
                 PROVE  /\ \A i \in Passed' : \/ Running(i) /\ i \in SystemJobs
                                              \/ next_tics'[i] > time /\ next_job_time <= next_tics'[i]
                        /\ \A i \in Ahead' : next_tics'[i] >= time
      BY <1>0 DEF CallsAhead, Running
    <2>1. Passed' = Passed /\ Ahead' = Ahead \cup {job}
      BY <1>0, <1>1, <1>10, <1>2, <1>3
    <2>2. /\ \A i \in Passed : i \in Job /\ i # job
          /\ \A i \in Ahead : i \in Job /\ i # job
      BY <1>0, <1>4
    <2>3. /\ \A i \in Passed : \/ Running(i) /\ i \in SystemJobs
                               \/ next_tics[i] > time /\ next_job_time <= next_tics[i]
          /\ \A i \in Ahead : next_tics[i] >= time
      BY <1>10 DEF Inv, CallsAhead
    <2> QED
      BY <1>6, <2>1, <2>2, <2>3
  <1>11. ASSUME Punctual PROVE NoneLeftBehind'
    <2> SUFFICES ASSUME pc = "idle", kind = "scheduled", NEW j \in InQueue \cup {job}
                 PROVE  next_tics'[j] >= time
      BY <1>0, <1>2 DEF NoneLeftBehind
    <2> QED
      BY <1>0, <1>4, <1>6, <1>11 DEF Inv, NoneLeftBehind
  <1> QED
    BY <1>0, <1>2, <1>7, <1>8, <1>9, <1>10, <1>11 DEF Inv

\* A job is removed that is not the next one.
LEMMA RemoveJobInv == ~RemovesNext => \A job \in Job : Inv /\ RemoveJob(job) => Inv'
  <1> SUFFICES ASSUME ~RemovesNext, NEW job \in Job, Inv, RemoveJob(job) PROVE Inv'
    OBVIOUS
  <1>0. /\ pc \in {"idle", "call"} /\ job \in InQueue /\ Erase(job)
        /\ stayed' = stayed \ {job} /\ called' = Without(called, job)
        /\ UNCHANGED <<kind, pc, next_job_time, next_tics, disabled, time, curr_job>>
        /\ pc = "call" => InsertPoint(job) # curr_index
    BY DEF RemoveJob, Change
  <1>1. list \in Seq(Job) /\ Sorted(list) /\ curr_index \in 0 .. Word - 1
    BY DEF Inv, TypeOK
  <1>2. /\ list' \in Seq(Job) /\ Sorted(list') /\ InQueue' = InQueue \ {job} /\ curr_index' \in 0 .. Word - 1
    BY <1>0, <1>1, EraseKeepsCursor
  <1>3. ASSUME pc # "idle"
        PROVE  curr_index' \in 0 .. Len(list') /\ Passed' = Passed \ {job} /\ Ahead' = Ahead \ {job}
    <2>1. curr_index \in 0 .. Len(list) /\ InsertPoint(job) # curr_index
      BY <1>0, <1>3, CursorInQueue
    <2> QED
      BY <1>0, <1>1, <2>1, EraseKeepsCursor
  <1>4. /\ called' \in Seq(Job) /\ Sorted(called') /\ ToSet(called') = ToSet(called) \ {job}
    <2>1. called \in Seq(Job) /\ Sorted(called)
      BY DEF Inv, TypeOK, CalledInOrder
    <2> QED
      BY <1>0, <2>1, WithoutProperties
  <1>5. TypeOK'
    <2>1. pc' # "idle" => curr_index' <= Len(list')
      <3>1. Len(list') \in Nat
        BY <1>2, LenProperties
      <3> QED
        BY <1>0, <1>3, <3>1
    <2>2. changes' \in 0 .. MaxChanges
      BY ScheduledJobQueueAssumption DEF RemoveJob, Change, Inv, TypeOK
    <2> QED
      BY <1>0, <1>2, <1>4, <2>1, <2>2 DEF Inv, TypeOK
  <1>6. CalledInOrder' /\ CalledPassed'
    BY <1>0, <1>3, <1>4 DEF Inv, CalledInOrder, CalledPassed
  <1>7. StayedKept'
    <2> SUFFICES ASSUME pc # "idle"
                 PROVE  /\ stayed' \subseteq (ToSet(called') \cup {i \in Ahead' : Due(i)}) \ disabled
                        /\ Running(curr_job) /\ curr_job \in stayed' => curr_job \in ToSet(called')
      BY <1>0 DEF StayedKept, Running, Due
    <2>1. /\ stayed \subseteq (ToSet(called) \cup {i \in Ahead : Due(i)}) \ disabled
          /\ Running(curr_job) /\ curr_job \in stayed => curr_job \in ToSet(called)
      BY DEF Inv, StayedKept
    <2> QED
      BY <1>0, <1>3, <1>4, <2>1
  <1>8. ASSUME Punctual PROVE CallsAhead'
    BY <1>0, <1>3, <1>8 DEF Inv, CallsAhead, Running
  <1>9. ASSUME Punctual PROVE NoneLeftBehind'
    BY <1>0, <1>2, <1>9 DEF Inv, NoneLeftBehind
  <1> QED
    BY <1>0, <1>2, <1>5, <1>6, <1>7, <1>8, <1>9 DEF Inv

\* A job is turned off or on.
LEMMA ToggleInv == \A job \in Job : Inv /\ Toggle(job) => Inv'
  <1> SUFFICES ASSUME NEW job \in Job, Inv, Toggle(job) PROVE Inv'
    OBVIOUS
  <1>0. /\ (Punctual => job \notin SystemJobs) /\ disabled' \subseteq disabled \cup {job} /\ stayed' = stayed \ {job}
        /\ UNCHANGED <<kind, pc, list, curr_index, next_job_time, next_tics, time, curr_job, called>>
    BY DEF Punctual, Toggle, queueVars
  <1>1. Passed' = Passed /\ Ahead' = Ahead /\ InQueue' = InQueue
    BY <1>0 DEF Passed, Ahead, InQueue
  <1>2. TypeOK'
    <2>1. changes' \in 0 .. MaxChanges
      BY ScheduledJobQueueAssumption DEF Toggle, Change, Inv, TypeOK
    <2> QED
      BY <1>0, <2>1 DEF Inv, TypeOK
  <1>3. ASSUME Punctual PROVE disabled' \cap SystemJobs = {}
    BY <1>0, <1>3 DEF Inv
  <1>4. Sorted(list') /\ CalledInOrder' /\ CalledPassed'
    BY <1>0, <1>1 DEF Inv, CalledInOrder, CalledPassed
  <1>5. StayedKept'
    BY <1>0, <1>1 DEF Inv, StayedKept, Running, Due
  <1>6. ASSUME Punctual PROVE CallsAhead' /\ NoneLeftBehind'
    BY <1>0, <1>1, <1>6 DEF Inv, CallsAhead, NoneLeftBehind, Running
  <1> QED
    BY <1>2, <1>3, <1>4, <1>5, <1>6 DEF Inv

\* The inductive invariant holds in every state, if no job that runs removes the very next one.
THEOREM SweepInvariant == ~RemovesNext => (Spec => []Inv)
  <1> SUFFICES ASSUME ~RemovesNext PROVE Spec => []Inv
    OBVIOUS
  <1>1. Init => Inv
    BY InitInv
  <1>2. Inv /\ [Next]_vars => Inv'
    <2> SUFFICES ASSUME Inv, [Next]_vars PROVE Inv'
      OBVIOUS
    <2>1. CASE Begin
      BY <2>1, BeginInv
    <2>2. CASE NextJob
      BY <2>2, NextJobInv
    <2>3. CASE Return
      BY <2>3, ReturnInv
    <2>4. CASE End
      BY <2>4, EndInv
    <2>5. CASE \E job \in Job : AddJob(job) \/ RemoveJob(job) \/ Toggle(job)
      BY <2>5, AddJobInv, RemoveJobInv, ToggleInv
    <2>6. CASE UNCHANGED vars
      BY <2>6 DEF vars, queueVars, Inv, TypeOK, Sorted, CalledInOrder, CalledPassed, StayedKept, CallsAhead,
                  NoneLeftBehind, Passed, Ahead, InQueue, Running, Due
    <2> QED
      BY <2>1, <2>2, <2>3, <2>4, <2>5, <2>6 DEF Next
  <1> QED
    BY <1>1, <1>2, PTL DEF Spec

\* A sweep calls the jobs of the queue in their order, and none of those that were due when it
\* began and stayed enabled in the queue is skipped, whatever the jobs that run add, remove
\* or turn off (get_next_job, find_next_job, push and remove).
THEOREM SweepIsCorrect == ~RemovesNext => (Spec => []SweepCorrect)
  <1> SUFFICES ASSUME ~RemovesNext PROVE Spec => []SweepCorrect
    OBVIOUS
  <1>1. Inv => SweepCorrect
    <2> SUFFICES ASSUME Inv, pc = "sweep", curr_index >= list_size PROVE stayed \subseteq ToSet(called)
      BY DEF Inv, SweepCorrect, NoneSkipped
    <2>1. Ahead = {}
      <3>1. curr_index \in Nat /\ Len(list) \in Nat
        BY CursorInQueue, LenProperties
      <3>2. curr_index + 1 .. Len(list) = {}
        BY <3>1 DEF list_size
      <3> QED
        BY <3>2 DEF Ahead
    <2> QED
      BY <2>1 DEF Inv, StayedKept
  <1> QED
    BY <1>1, SweepInvariant, PTL

\* Between two sweeps no scheduled job of the queue has its next call behind the time, where
\* find_next_job, which looks for equality, would never find it again.
THEOREM NoneIsLeftBehind == ~RemovesNext /\ Punctual => (Spec => []NoneLeftBehind)
  <1> SUFFICES ASSUME ~RemovesNext, Punctual PROVE Spec => []NoneLeftBehind
    OBVIOUS
  <1>1. Inv => NoneLeftBehind
    BY DEF Inv
  <1> QED
    BY <1>1, SweepInvariant, PTL
==============================================================================
