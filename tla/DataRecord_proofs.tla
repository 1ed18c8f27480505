-------------------------- MODULE DataRecord_proofs --------------------------
(***************************************************************************)
(* What a data record group records and what it puts into its file.        *)
(* For every buffer, limit and set of cycles: a row at each multiple of a  *)
(* cycle (RatesAreHonoured).  When no client switches the group on and off *)
(* in the middle of its job, no change is missed (NoChangeIsMissed).       *)
(* When, besides, the buffer has more than one row and no reload renews    *)
(* the group while the writer thread holds its buffer_mutex (~Overtakes),  *)
(* the file holds the rows in order, and all of them once it is closed     *)
(* (FileInOrder, ClosedFileIsComplete).  Nothing in the code keeps a       *)
(* reload from overtaking the writer thread: there the two are false.      *)
(***************************************************************************)
EXTENDS DataRecord, SequenceTheorems, WellFoundedInduction, TLAPS

(***************************************************************************)
(* The inductive invariant.                                                *)
(***************************************************************************)
Place == MainStep \cup WriterStep \cup WriteStep

Types ==
  /\ pc \in [Proc -> Place] /\ back \in [Proc -> Place] /\ local_num \in [Proc -> Nat]
  /\ buffer \in [0 .. MaxNum - 1 -> Row] /\ buffer_num \in Nat /\ writer_num \in Nat
  /\ file \in Seq(Row) /\ recorded \in Seq(Row)
  /\ time \in Nat /\ value \in Value /\ last_value \in Value /\ record \in BOOLEAN

\* Who writes holds the mutex, and writes rows that were counted.
WriterHolds(p) ==
  pc[p] = "write" => /\ buffer_mutex = p
                     /\ writer_num <= local_num[p] /\ local_num[p] <= buffer_num

\* What the main thread knows at its places.
MainKnows ==
  /\ pc["main"] = "write" => local_num["main"] = buffer_num
  /\ pc["main"] = "force" => record /\ buffer_type # "DR_Ring_Buffer"
  /\ back["main"] \notin {"write", "force"} /\ back["writer"] = "rest"

Counted == buffer_num = Len(recorded) /\ writer_num <= buffer_num

\* The rows that may be waiting when the main thread is at s.
Limit(s) == IF s \in {"step", "step_count"} THEN MaxNum - 2
            ELSE IF s \in {"fill", "count"} THEN MaxNum - 1 ELSE MaxNum

\* As long as the file may grow, what is not in it is in the buffer.
Orderly == buffer_type # "DR_Ring_Buffer" /\ Len(file) <= MaxFileSize
Room    == Orderly => buffer_num - writer_num <= Limit(pc["main"])
InStep  == Orderly => writer_num = Len(file)
Waiting == Orderly =>
  \A k \in Nat : writer_num <= k /\ k < buffer_num => buffer[k % MaxNum] = recorded[k + 1]

Inv ==
  /\ Types /\ WriterHolds("main") /\ WriterHolds("writer") /\ MainKnows /\ Counted
  /\ Room /\ InStep /\ Waiting /\ RowsInOrder

\* Two rows less than max_num apart have different cells.
LEMMA DifferentCells ==
  ASSUME NEW m \in Nat \ {0}, NEW a \in Nat, NEW b \in Nat, a < b, b - a < m
  PROVE  a % m # b % m
<1> DEFINE qa == a \div m  qb == b \div m
<1>1. qa \in Int /\ qb \in Int /\ a % m \in 0 .. m - 1 /\ b % m \in 0 .. m - 1
  BY SMT
<1>2. a = m * qa + (a % m) /\ b = m * qb + (b % m)
  BY SMT
<1>3. SUFFICES ASSUME a % m = b % m PROVE FALSE
  OBVIOUS
<1> HIDE DEF qa, qb
<1>4. b - a = m * (qb - qa)
  BY <1>1, <1>2, <1>3, SMT
<1>5. CASE qb - qa <= 0
  BY <1>1, <1>4, <1>5, SMT
<1>6. CASE qb - qa >= 1
  <2>1. m * (qb - qa) >= m
    BY <1>1, <1>6, SMT
  <2> QED
    BY <1>4, <2>1
<1> QED
  BY <1>1, <1>5, <1>6

\* A row has a cell of the buffer.
LEMMA CellOfRow ==
  ASSUME NEW m \in Nat \ {0}, NEW a \in Nat
  PROVE  a % m \in 0 .. m - 1
BY SMT

\* The invariant holds at the start.
LEMMA InvInit == Init => Inv
<1> SUFFICES ASSUME Init PROVE Inv
  OBVIOUS
<1> USE DataRecordAssumption DEF DataRecordAssumption
<1>1. [t |-> 0, v |-> 0] \in Row
  BY DEF Row
<1>2. Types
  BY <1>1 DEF Init, Types, Proc, Place, MainStep, WriterStep
<1>3. WriterHolds("main") /\ WriterHolds("writer") /\ MainKnows
  BY DEF Init, WriterHolds, MainKnows, Proc
<1>4. Counted /\ InStep /\ Waiting /\ RowsInOrder
  BY DEF Init, Counted, InStep, Waiting, RowsInOrder
<1>5. Room
  BY DEF Init, Room, Limit, Proc
<1> QED
  BY <1>2, <1>3, <1>4, <1>5 DEF Inv

\* A step that moves a thread, and neither puts nor writes a row.
LEMMA Move ==
  ASSUME Inv,
         UNCHANGED <<local_num, buffer_mutex, writer_num, file, buffer, buffer_num, recorded,
                     buffer_type>>,
         pc' \in [Proc -> Place], back' \in [Proc -> Place], record' \in BOOLEAN,
         time' \in Nat, value' \in Value, last_value' \in Value,
         \A p \in Proc : pc'[p] = "write" => pc[p] = "write",
         MainKnows', Room'
  PROVE  Inv'
<1>1. Types'
  BY DEF Inv, Types
<1>2. WriterHolds("main")' /\ WriterHolds("writer")'
  BY DEF Inv, WriterHolds, Proc
<1>3. Counted' /\ InStep' /\ Waiting' /\ RowsInOrder'
  BY DEF Inv, Counted, InStep, Waiting, RowsInOrder, Orderly
<1> QED
  BY <1>1, <1>2, <1>3 DEF Inv

\* A call of write_data that the main thread makes at a place where any number of rows may wait.
LEMMA MainCalls ==
  ASSUME Inv, NEW from \in Place, NEW must \in BOOLEAN, NEW on \in BOOLEAN, NEW next \in Place,
         WriteData("main", from, must, on, next),
         next \notin {"write", "force"}, from \notin {"write", "lock"},
         Limit(next) = MaxNum,
         UNCHANGED <<writeVars, groupVars, optionVars>>, time' = time, value' = value,
         record' \in BOOLEAN
  PROVE  Inv'
<1> USE DataRecordAssumption DEF DataRecordAssumption
<1>1. pc' \in [Proc -> Place] /\ back' \in [Proc -> Place]
  BY DEF Inv, Types, WriteData, Goto, Proc, Place, WriteStep
<1>2. pc'["main"] \in {"lock", next} /\ pc'["writer"] = pc["writer"]
  BY DEF Inv, Types, WriteData, Goto, Proc
<1>3. MainKnows'
  BY <1>2 DEF Inv, Types, MainKnows, WriteData, Goto, Proc
<1>4. Limit(pc["main"]) \in Int /\ Limit(pc["main"]) <= MaxNum /\ Limit(pc'["main"]) = MaxNum
  BY <1>2 DEF Limit
<1>5. Room'
  <2>1. SUFFICES ASSUME Orderly' PROVE buffer_num' - writer_num' <= Limit(pc'["main"])
    BY DEF Room
  <2>2. buffer_num - writer_num <= Limit(pc["main"])
    BY <2>1 DEF Inv, Room, Orderly, writeVars, optionVars
  <2> QED
    BY <1>4, <2>2 DEF Inv, Types, writeVars, groupVars
<1> QED
  BY <1>1, <1>2, <1>3, <1>5, Move DEF Inv, Types, Proc, writeVars, groupVars, optionVars

\* A row is put into a cell that no waiting row has.
LEMMA Put ==
  ASSUME Inv, MaxNum > 1, NEW from \in Place, NEW to \in Place, NEW row \in Row,
         pc["main"] = from, Goto("main", to),
         Limit(from) < MaxNum, Limit(to) = Limit(from),
         from \notin {"write", "force"}, to \notin {"write", "force"},
         buffer' = [buffer EXCEPT ![buffer_num % MaxNum] = row],
         last_value' \in Value,
         UNCHANGED <<back, buffer_num, recorded, writeVars, buffer_type, record, value, time>>
  PROVE  Inv'
<1> USE DataRecordAssumption DEF DataRecordAssumption
<1>1. buffer_num % MaxNum \in 0 .. MaxNum - 1
  BY CellOfRow DEF Inv, Types
<1>2. Types'
  BY <1>1 DEF Inv, Types, Goto, writeVars, Proc
<1>3. WriterHolds("main")' /\ WriterHolds("writer")' /\ MainKnows'
  BY DEF Inv, Types, WriterHolds, MainKnows, Goto, writeVars, Proc
<1>4. Counted' /\ InStep' /\ RowsInOrder'
  BY DEF Inv, Counted, InStep, RowsInOrder, Orderly, writeVars
<1>5. pc'["main"] = to
  BY DEF Inv, Types, Goto, Proc
<1>6. Room'
  BY <1>5 DEF Inv, Room, Orderly, writeVars
<1>7. Waiting'
  <2>1. SUFFICES ASSUME Orderly', NEW k \in Nat, writer_num <= k, k < buffer_num
                 PROVE  buffer'[k % MaxNum] = recorded[k + 1]
    BY DEF Waiting, writeVars
  <2>2. buffer_num - writer_num <= Limit(from) /\ buffer[k % MaxNum] = recorded[k + 1]
    BY <2>1 DEF Inv, Room, Waiting, Orderly, writeVars
  <2>3. Limit(from) \in Int
    BY DEF Limit
  <2>4. k % MaxNum # buffer_num % MaxNum
    <3>1. buffer_num \in Nat /\ MaxNum \in Nat \ {0} /\ buffer_num - k < MaxNum
      BY <2>1, <2>2, <2>3 DEF Inv, Types
    <3> QED
      BY <2>1, <3>1, DifferentCells
  <2>5. k % MaxNum \in 0 .. MaxNum - 1
    BY CellOfRow
  <2> QED
    BY <1>1, <2>2, <2>4, <2>5 DEF Inv, Types
<1> QED
  BY <1>2, <1>3, <1>4, <1>6, <1>7 DEF Inv

\* The row that was put is counted.
LEMMA CountInv == ASSUME Inv, MaxNum > 1, Count PROVE Inv'
<1> USE DataRecordAssumption DEF DataRecordAssumption
<1> DEFINE row == buffer[buffer_num % MaxNum]
<1>1. row \in Row
  BY CellOfRow DEF Inv, Types
<1>2. recorded' = Append(recorded, row) /\ buffer_num' = buffer_num + 1
  BY DEF Count
<1> HIDE DEF row
<1>3. /\ recorded' \in Seq(Row) /\ Len(recorded') = Len(recorded) + 1
      /\ recorded'[Len(recorded) + 1] = row
      /\ \A i \in 1 .. Len(recorded) : recorded'[i] = recorded[i]
  BY <1>1, <1>2 DEF Inv, Types
<1>4. /\ pc["main"] \in {"step_count", "count"}
      /\ pc'["main"] = IF pc["main"] = "step_count" THEN "fill" ELSE "advance"
      /\ pc'["writer"] = pc["writer"] /\ pc' \in [Proc -> Place]
  BY DEF Inv, Types, Count, Goto, Proc, Place, MainStep
<1>5. UNCHANGED <<back, buffer, last_value, local_num, buffer_mutex, writer_num, file, buffer_type,
                  record, value, time>>
  BY DEF Count, writeVars, optionVars, clockVars
<1>6. Types'
  BY <1>2, <1>3, <1>4, <1>5 DEF Inv, Types
<1>7. WriterHolds("main")' /\ WriterHolds("writer")' /\ MainKnows'
  BY <1>2, <1>4, <1>5 DEF Inv, Types, WriterHolds, MainKnows, Proc
<1>8. Counted' /\ InStep'
  BY <1>2, <1>3, <1>5 DEF Inv, Types, Counted, InStep, Orderly
<1>9. RowsInOrder'
  <2>1. SUFFICES ASSUME buffer_type # "DR_Ring_Buffer",
                        NEW i \in 1 .. Len(file), i <= MaxFileSize + 1
                 PROVE  i <= Len(recorded') /\ file[i] = recorded'[i]
    BY <1>5 DEF RowsInOrder
  <2>2. i <= Len(recorded) /\ file[i] = recorded[i]
    BY <2>1 DEF Inv, RowsInOrder
  <2> QED
    BY <1>3, <2>2 DEF Inv, Types
<1>10. Room'
  BY <1>2, <1>4, <1>5 DEF Inv, Types, Room, Orderly, Limit
<1>11. Waiting'
  <2>1. SUFFICES ASSUME Orderly, NEW k \in Nat, writer_num <= k, k < buffer_num + 1
                 PROVE  buffer[k % MaxNum] = recorded'[k + 1]
    BY <1>2, <1>5 DEF Waiting, Orderly
  <2>2. CASE k = buffer_num
    BY <1>3, <2>2 DEF Inv, Counted, row
  <2>3. CASE k < buffer_num
    <3>1. buffer[k % MaxNum] = recorded[k + 1]
      BY <2>1, <2>3 DEF Inv, Waiting
    <3>2. k + 1 \in 1 .. Len(recorded)
      BY <2>3 DEF Inv, Types, Counted
    <3> QED
      BY <1>3, <3>1, <3>2
  <2> QED
    BY <2>1, <2>2, <2>3 DEF Inv, Types
<1> QED
  BY <1>6, <1>7, <1>8, <1>9, <1>10, <1>11 DEF Inv

\* All rows that wait are there, so the writer begins with the first of them.
LEMMA LockInv == ASSUME Inv, MaxNum > 1, NEW p \in Proc, LockBuffer(p) PROVE Inv'
<1> USE DataRecordAssumption DEF DataRecordAssumption
<1>1. /\ pc[p] = "lock" /\ buffer_mutex = "none" /\ buffer_mutex' = p
      /\ pc' = [pc EXCEPT ![p] = "write"]
      /\ local_num' = [local_num EXCEPT ![p] = buffer_num]
      /\ writer_num' = buffer_num - NumToWrite
  BY DEF LockBuffer, Goto
<1>2. UNCHANGED <<back, buffer, buffer_num, last_value, recorded, file, buffer_type, record, value,
                  time>>
  BY DEF LockBuffer, groupVars, optionVars, clockVars
<1>3. writer_num' \in Nat /\ writer_num' <= buffer_num /\ writer_num <= writer_num'
  BY <1>1 DEF NumToWrite, Inv, Types, Counted
<1>4. Orderly => writer_num' = writer_num
  <2>1. SUFFICES ASSUME Orderly PROVE buffer_num - writer_num <= MaxNum
    BY <1>1 DEF NumToWrite, Inv, Types, Counted
  <2>2. Limit(pc["main"]) \in Int /\ Limit(pc["main"]) <= MaxNum
    BY DEF Limit
  <2> QED
    BY <2>1, <2>2 DEF Inv, Types, Room
<1>5. pc' \in [Proc -> Place]
  BY <1>1 DEF Inv, Types, Place, WriteStep
<1>6. Types'
  BY <1>1, <1>2, <1>3, <1>5 DEF Inv, Types
<1>7. WriterHolds("main")' /\ WriterHolds("writer")' /\ MainKnows'
  BY <1>1, <1>2, <1>3 DEF Inv, Types, WriterHolds, MainKnows, Proc
<1>8. Counted' /\ InStep' /\ RowsInOrder'
  BY <1>2, <1>3, <1>4 DEF Inv, Counted, InStep, RowsInOrder, Orderly
<1>9. Room'
  <2>1. SUFFICES ASSUME Orderly PROVE buffer_num - writer_num' <= Limit(pc'["main"])
    BY <1>2 DEF Room, Orderly
  <2>2. Limit(pc["main"]) = Limit(pc'["main"])
    BY <1>1 DEF Inv, Types, Proc, Limit
  <2> QED
    BY <1>4, <2>1, <2>2 DEF Inv, Room
<1>10. Waiting'
  BY <1>2, <1>4 DEF Inv, Waiting, Orderly
<1> QED
  BY <1>6, <1>7, <1>8, <1>9, <1>10 DEF Inv

\* Writing a row keeps the invariant, whichever thread writes it.
LEMMA WriteRowInv == ASSUME Inv, MaxNum > 1, NEW p \in Proc, WriteRow(p) PROVE Inv'
<1> USE DataRecordAssumption DEF DataRecordAssumption
<1> DEFINE row == buffer[writer_num % MaxNum]
<1>1. row \in Row
  BY CellOfRow DEF Inv, Types
<1>2. pc[p] = "write" /\ writer_num # local_num[p] /\ file' = Append(file, row)
      /\ writer_num' = writer_num + 1
  BY DEF WriteRow
<1>3. UNCHANGED <<pc, back, local_num, buffer_mutex, buffer, buffer_num, last_value, recorded,
                  buffer_type, record, value, time>>
  BY DEF WriteRow, groupVars, optionVars, clockVars
<1>4. Orderly => row = recorded[writer_num + 1]
  <2>1. writer_num < buffer_num
    BY <1>2 DEF Inv, Types, WriterHolds, Proc
  <2>2. SUFFICES ASSUME Orderly PROVE row = recorded[writer_num + 1]
    OBVIOUS
  <2>3. \A k \in Nat : writer_num <= k /\ k < buffer_num => buffer[k % MaxNum] = recorded[k + 1]
    BY <2>2 DEF Inv, Waiting
  <2>4. writer_num \in Nat /\ writer_num <= writer_num
    BY DEF Inv, Types
  <2> QED
    BY <2>1, <2>3, <2>4
<1> HIDE DEF row
<1>5. file' \in Seq(Row) /\ Len(file') = Len(file) + 1 /\ file'[Len(file) + 1] = row
      /\ \A i \in 1 .. Len(file) : file'[i] = file[i]
  BY <1>1, <1>2 DEF Inv, Types
<1>6. Types'
  BY <1>2, <1>3, <1>5 DEF Inv, Types
<1>7. writer_num < local_num[p] /\ local_num[p] <= buffer_num /\ buffer_mutex = p
  BY <1>2 DEF Inv, Types, WriterHolds, Proc
<1>8. \A q \in Proc : pc[q] = "write" => q = p
  BY <1>7 DEF Inv, WriterHolds, Proc
<1>9. WriterHolds("main")' /\ WriterHolds("writer")' /\ MainKnows'
  BY <1>2, <1>3, <1>7, <1>8 DEF Inv, Types, WriterHolds, MainKnows, Proc
<1>10. Counted'
  BY <1>2, <1>3, <1>7 DEF Inv, Types, Counted, Proc
<1>11. Orderly' => Orderly
  BY <1>3, <1>5 DEF Orderly, Inv, Types
<1>12. InStep'
  BY <1>2, <1>5, <1>11 DEF Inv, InStep
<1>13. Waiting'
  <2>1. SUFFICES ASSUME Orderly, NEW k \in Nat, writer_num + 1 <= k, k < buffer_num
                 PROVE  buffer[k % MaxNum] = recorded[k + 1]
    BY <1>2, <1>3, <1>11 DEF Waiting
  <2>2. writer_num <= k
    BY <2>1 DEF Inv, Types
  <2> QED
    BY <2>1, <2>2 DEF Inv, Waiting
<1>14. Room'
  <2>1. SUFFICES ASSUME Orderly PROVE buffer_num - (writer_num + 1) <= Limit(pc["main"])
    BY <1>2, <1>3, <1>11 DEF Room
  <2>2. Limit(pc["main"]) \in Int /\ buffer_num - writer_num <= Limit(pc["main"])
    BY <2>1 DEF Inv, Room, Limit
  <2> QED
    BY <2>2 DEF Inv, Types
<1>15. RowsInOrder'
  <2>1. SUFFICES ASSUME buffer_type # "DR_Ring_Buffer",
                        NEW i \in 1 .. Len(file'), i <= MaxFileSize + 1
                 PROVE  i <= Len(recorded) /\ file'[i] = recorded[i]
    BY <1>3 DEF RowsInOrder
  <2>2. CASE i \in 1 .. Len(file)
    BY <1>5, <2>1, <2>2 DEF Inv, RowsInOrder
  <2>3. CASE i = Len(file) + 1
    <3>1. Orderly
      BY <2>1, <2>3 DEF Orderly, Inv, Types
    <3>2. i = writer_num + 1 /\ i <= Len(recorded)
      BY <1>7, <2>3, <3>1 DEF Inv, Types, InStep, Counted, Proc
    <3> QED
      BY <1>4, <1>5, <2>3, <3>1, <3>2
  <2> QED
    BY <1>5, <2>1, <2>2, <2>3 DEF Inv, Types
<1> QED
  BY <1>6, <1>9, <1>10, <1>12, <1>13, <1>14, <1>15 DEF Inv

\* When the main thread has written itself, no row waits.
LEMMA UnlockInv == ASSUME Inv, MaxNum > 1, NEW p \in Proc, UnlockBuffer(p) PROVE Inv'
<1> USE DataRecordAssumption DEF DataRecordAssumption
<1>1. /\ pc[p] = "write" /\ writer_num = local_num[p] /\ buffer_mutex' = "none"
      /\ pc' = [pc EXCEPT ![p] = back[p]]
  BY DEF UnlockBuffer, Goto
<1>2. UNCHANGED <<back, local_num, buffer, buffer_num, writer_num, last_value, recorded, file,
                  buffer_type, record, value, time>>
  BY DEF UnlockBuffer, groupVars, optionVars, clockVars
<1>3. pc' \in [Proc -> Place]
  BY <1>1 DEF Inv, Types
<1>4. Types'
  BY <1>2, <1>3 DEF Inv, Types
<1>5. \A q \in Proc : pc[q] = "write" => q = p
  BY <1>1 DEF Inv, WriterHolds, Proc
<1>6. \A q \in Proc : back[q] \notin {"write", "force"}
  BY DEF Inv, MainKnows, Proc
<1>7. \A q \in Proc : pc'[q] # "write"
  BY <1>1, <1>5, <1>6 DEF Inv, Types
<1>8. WriterHolds("main")' /\ WriterHolds("writer")'
  BY <1>7 DEF WriterHolds, Proc
<1>9. MainKnows'
  BY <1>1, <1>2, <1>6, <1>7 DEF Inv, Types, MainKnows, Proc
<1>10. Counted' /\ InStep' /\ Waiting' /\ RowsInOrder'
  BY <1>2 DEF Inv, Counted, InStep, Waiting, RowsInOrder, Orderly
<1>11. Room'
  <2>1. CASE p = "main"
    <3>1. buffer_num' - writer_num' = 0
      BY <1>1, <1>2, <2>1 DEF Inv, Types, MainKnows
    <3>2. Limit(pc'["main"]) \in Int /\ 0 <= Limit(pc'["main"])
      BY DEF Limit
    <3> QED
      BY <3>1, <3>2 DEF Room
  <2>2. CASE p = "writer"
    BY <1>1, <1>2, <2>2 DEF Inv, Types, Room, Orderly, Proc
  <2> QED
    BY <2>1, <2>2 DEF Proc
<1> QED
  BY <1>4, <1>8, <1>9, <1>10, <1>11 DEF Inv

\* init() of the group begins anew; the writer thread may wait for the buffer_mutex, but has it not.
LEMMA RestartInv == ASSUME Inv, MaxNum > 1, ~Overtakes, Restart PROVE Inv'
<1> USE DataRecordAssumption DEF DataRecordAssumption
<1>1. [t |-> 0, v |-> 0] \in Row
  BY DEF Row
<1>2. Types'
  <2>1. pc' \in [Proc -> Place]
    BY DEF Inv, Types, Restart, Goto, Place, MainStep
  <2>2. buffer' \in [0 .. MaxNum - 1 -> Row] /\ buffer_num' = 0 /\ writer_num' = 0
    BY <1>1 DEF Restart
  <2>3. file' \in Seq(Row) /\ recorded' \in Seq(Row)
    BY DEF Restart
  <2>4. UNCHANGED <<back, local_num, time>>
    BY DEF Restart, clockVars
  <2>5. record' \in BOOLEAN /\ value' \in Value /\ last_value' \in Value
    BY DEF Restart
  <2> QED
    BY <2>1, <2>2, <2>3, <2>4, <2>5 DEF Inv, Types
<1>3. WriterHolds("main")' /\ WriterHolds("writer")' /\ MainKnows'
  <2>1. pc'["main"] = "tic" /\ pc'["writer"] = pc["writer"] /\ pc["writer"] # "write" /\ back' = back
    BY DEF Inv, Types, Restart, Goto, Proc
  <2> QED
    BY <2>1 DEF Inv, WriterHolds, MainKnows
<1>4. Counted' /\ InStep' /\ Waiting' /\ RowsInOrder'
  BY DEF Restart, Counted, InStep, Waiting, RowsInOrder
<1>5. Room'
  BY DEF Inv, Types, Restart, Goto, Room, Limit, Proc
<1> QED
  BY <1>2, <1>3, <1>4, <1>5 DEF Inv

\* What a step leaves alone that neither puts nor writes a row.
Still == UNCHANGED <<local_num, buffer_mutex, writer_num, file, buffer, buffer_num, recorded,
                     last_value, buffer_type>>

\* A step of the main thread from a place to another, with nothing else to be known there.
LEMMA MainMoves ==
  ASSUME Inv, Still, back' = back, record' = record, time' \in Nat, value' \in Value,
         pc'["main"] \in Place \ {"write", "force", "step", "step_count", "fill", "count"},
         pc' \in [Proc -> Place], pc'["writer"] # "write" \/ pc'["writer"] = pc["writer"]
  PROVE  Inv'
<1> USE DataRecordAssumption DEF DataRecordAssumption
<1>1. MainKnows'
  BY DEF Inv, MainKnows
<1>2. Limit(pc["main"]) \in Int /\ Limit(pc["main"]) <= MaxNum /\ Limit(pc'["main"]) = MaxNum
  BY DEF Limit
<1>3. Room'
  <2>1. SUFFICES ASSUME Orderly PROVE buffer_num - writer_num <= MaxNum
    BY <1>2 DEF Still, Room, Orderly
  <2> QED
    BY <1>2, <2>1 DEF Inv, Types, Room
<1>4. \A p \in Proc : pc'[p] = "write" => pc[p] = "write"
  BY DEF Proc
<1> QED
  BY <1>1, <1>3, <1>4, Move DEF Inv, Types, Still

\* data_record goes on to put its rows only if two fit.
LEMMA DataRecordInv == ASSUME Inv, MaxNum > 1, DataRecord PROVE Inv'
<1> USE DataRecordAssumption DEF DataRecordAssumption
<1>1. Still /\ UNCHANGED <<back, record, time, value>> /\ pc["main"] = "due"
  BY DEF DataRecord, Still, writeVars, optionVars
<1>2. pc'["main"] \in {"advance", "force", "step", "fill"} /\ pc'["writer"] = pc["writer"]
      /\ pc' \in [Proc -> Place]
  BY DEF DataRecord, FirstRow, Goto, Inv, Types, Proc, Place, MainStep
<1>3. pc'["main"] = "force" => record /\ buffer_type # "DR_Ring_Buffer"
  BY DEF DataRecord, FirstRow, Goto, Inv, Types, Proc
<1>4. pc'["main"] \in {"step", "fill"} /\ buffer_type # "DR_Ring_Buffer" => ~NearlyFull
  BY DEF DataRecord, FirstRow, Goto, Inv, Types, Proc
<1>5. MainKnows'
  BY <1>1, <1>2, <1>3 DEF Inv, MainKnows, Still
<1>6. Room'
  <2>1. SUFFICES ASSUME Orderly PROVE buffer_num - writer_num <= Limit(pc'["main"])
    BY <1>1 DEF Room, Orderly, Still
  <2>2. buffer_num - writer_num <= MaxNum
    BY <1>1, <2>1 DEF Inv, Room, Limit
  <2>3. CASE pc'["main"] \in {"step", "fill"}
    <3>1. buffer_num - writer_num <= MaxNum - 2
      BY <1>4, <2>1, <2>3 DEF NearlyFull, Orderly, Inv, Types
    <3> QED
      BY <2>3, <3>1 DEF Limit, Inv, Types
  <2>4. CASE pc'["main"] \notin {"step", "fill"}
    BY <1>2, <2>2, <2>4 DEF Limit
  <2> QED
    BY <2>3, <2>4
<1>7. \A p \in Proc : pc'[p] = "write" => pc[p] = "write"
  BY <1>2 DEF Proc
<1> QED
  BY <1>1, <1>2, <1>5, <1>6, <1>7, Move DEF Inv, Types, Still

\* The forced call is made, unless the file is full.
LEMMA ForceWriteInv == ASSUME Inv, MaxNum > 1, ForceWrite PROVE Inv'
<1> USE DataRecordAssumption DEF DataRecordAssumption
<1>1. Still /\ UNCHANGED <<record, time, value>> /\ pc["main"] = "force" /\ record
      /\ back' = [back EXCEPT !["main"] = FirstRow]
  BY DEF ForceWrite, WriteData, Still, writeVars, groupVars, optionVars, clockVars, Inv, MainKnows
<1>2. pc' = [pc EXCEPT !["main"] = IF Len(file) <= MaxFileSize THEN "lock" ELSE FirstRow]
  BY <1>1 DEF ForceWrite, WriteData, Goto
<1>3. FirstRow \in {"step", "fill"}
  BY DEF FirstRow
<1>4. pc' \in [Proc -> Place] /\ back' \in [Proc -> Place]
  BY <1>1, <1>2, <1>3 DEF Inv, Types, Place, MainStep, WriteStep
<1>5. pc'["main"] # "write" /\ pc'["main"] # "force" /\ pc'["writer"] = pc["writer"]
  BY <1>2, <1>3 DEF Inv, Types, Proc
<1>6. MainKnows'
  BY <1>1, <1>3, <1>5 DEF Inv, Types, MainKnows, Proc
<1>7. Room'
  <2>1. SUFFICES ASSUME Orderly PROVE buffer_num - writer_num <= Limit(pc'["main"])
    BY <1>1 DEF Room, Orderly, Still
  <2>2. pc'["main"] = "lock"
    BY <1>2, <2>1 DEF Orderly, Inv, Types, Proc
  <2> QED
    BY <1>1, <2>1, <2>2 DEF Inv, Room, Limit
<1>8. \A p \in Proc : pc'[p] = "write" => pc[p] = "write"
  BY <1>5 DEF Proc
<1> QED
  BY <1>1, <1>4, <1>6, <1>7, <1>8, Move DEF Inv, Types, Still

\* The steps of the writer thread outside write_data.
LEMMA WriterInv == ASSUME Inv, Pass \/ Wait \/ Spurious PROVE Inv'
<1> USE DataRecordAssumption DEF DataRecordAssumption
<1>1. Still /\ UNCHANGED <<record, time, value>>
  BY DEF Pass, Wait, Spurious, Still, writeVars, groupVars, optionVars, clockVars
<1>2. /\ pc'["writer"] \in {"ended", "lock", "rest", "wait", "woken"}
      /\ pc'["main"] = pc["main"] /\ pc' \in [Proc -> Place]
  BY DEF Pass, Wait, Spurious, WriteData, Goto, Inv, Types, Proc, Place, WriterStep, WriteStep
<1>3. back'["main"] = back["main"] /\ back'["writer"] = "rest" /\ back' \in [Proc -> Place]
  BY DEF Pass, Wait, Spurious, WriteData, Inv, Types, MainKnows, Proc, Place, WriterStep
<1>4. MainKnows'
  BY <1>1, <1>2, <1>3 DEF Inv, MainKnows, Still
<1>5. Room'
  BY <1>1, <1>2 DEF Inv, Room, Orderly, Still
<1>6. \A p \in Proc : pc'[p] = "write" => pc[p] = "write"
  BY <1>2 DEF Proc
<1> QED
  BY <1>1, <1>2, <1>3, <1>4, <1>5, <1>6, Move DEF Inv, Types, Still

\* A client that leaves the group alone keeps the invariant.
LEMMA ToggleInv == ASSUME Inv, ~ClientToggles, Toggle PROVE Inv'
<1>1. Still /\ UNCHANGED <<pc, back, time, value>> /\ record' = ~record /\ pc["main"] = "model"
  BY DEF Toggle, Still, writeVars, groupVars, optionVars, clockVars
<1>2. record' \in BOOLEAN
  BY <1>1
<1>3. MainKnows'
  BY <1>1 DEF Inv, MainKnows, Still
<1>4. Room'
  BY <1>1 DEF Inv, Room, Orderly, Still
<1> QED
  BY <1>1, <1>2, <1>3, <1>4, Move DEF Inv, Types, Still

\* shutdown() of the group, for a reload, a removal or the end.
LEMMA ShutdownInv ==
  ASSUME Inv, NEW from \in {"tic", "stop"}, NEW next \in {"close", "removed", "done"},
         ShutdownGroup(from, next), time' = time
  PROVE  Inv'
<1>1. from \in Place /\ next \in Place
  BY DEF Place, MainStep
<1>2. Limit(next) = MaxNum
  BY DEF Limit
<1>3. WriteData("main", from, TRUE, TRUE, next) /\ record' \in BOOLEAN
      /\ UNCHANGED <<writeVars, groupVars, optionVars>> /\ value' = value
  BY DEF ShutdownGroup
<1> QED
  BY <1>1, <1>2, <1>3, MainCalls

\* The other steps of the main thread.
LEMMA MainInv ==
  ASSUME Inv, Model \/ AdvanceLogTics \/ NotDue \/ EndOfFrame \/ SignalThread \/ Tic \/ ClearGroups
              \/ ShutdownDispatcher
  PROVE  Inv'
<1> USE DataRecordAssumption DEF DataRecordAssumption
<1>1. CASE EndOfFrame
  <2>1. WriteData("main", "frame", FALSE, record, "signal") /\ record' = record /\ time' = time
        /\ value' = value /\ UNCHANGED <<writeVars, groupVars, optionVars>>
    BY <1>1 DEF EndOfFrame, clockVars
  <2>2. "frame" \in Place /\ "signal" \in Place /\ Limit("signal") = MaxNum
    BY DEF Place, MainStep, Limit
  <2>3. record \in BOOLEAN
    BY DEF Inv, Types
  <2> QED
    BY <2>1, <2>2, <2>3, MainCalls
<1>2. CASE Model \/ AdvanceLogTics \/ NotDue \/ Tic \/ ClearGroups
  <2>1. Still /\ back' = back /\ record' = record /\ time' \in Nat /\ value' \in Value
    BY <1>2 DEF Model, AdvanceLogTics, NotDue, Tic, ClearGroups, Still, writeVars, groupVars,
       optionVars, clockVars, Inv, Types
  <2>2. pc'["main"] \in {"due", "frame", "tic", "model", "reinit"} /\ pc'["writer"] = pc["writer"]
        /\ pc' \in [Proc -> Place]
    BY <1>2 DEF Model, AdvanceLogTics, NotDue, Tic, ClearGroups, Goto, Inv, Types, Proc, Place,
       MainStep
  <2> QED
    BY <2>1, <2>2, MainMoves DEF Place, MainStep
<1>3. CASE SignalThread \/ ShutdownDispatcher
  <2>1. Still /\ back' = back /\ record' = record /\ time' \in Nat /\ value' \in Value
    BY <1>3 DEF SignalThread, ShutdownDispatcher, Still, writeVars, groupVars, optionVars, clockVars,
       Inv, Types
  <2>2. pc'["main"] \in {"tic", "stop", "done"} /\ pc' \in [Proc -> Place]
        /\ (pc'["writer"] = "woken" \/ pc'["writer"] = pc["writer"])
    BY <1>3 DEF SignalThread, ShutdownDispatcher, WakeWriter, Goto, Inv, Types, Proc, Place, MainStep,
       WriterStep
  <2> QED
    BY <2>1, <2>2, MainMoves DEF Place, MainStep
<1> QED
  BY <1>1, <1>2, <1>3

\* Putting a row into its cell disturbs no row that waits.
LEMMA PutInv == ASSUME Inv, MaxNum > 1, PutOld \/ PutNew PROVE Inv'
<1> USE DataRecordAssumption DEF DataRecordAssumption
<1>1. CASE PutOld
  <2> DEFINE row == [t |-> time, v |-> last_value]
  <2>1. row \in Row
    BY DEF Inv, Types, Row
  <2>2. /\ pc["main"] = "step" /\ Goto("main", "step_count")
        /\ buffer' = [buffer EXCEPT ![buffer_num % MaxNum] = row]
        /\ UNCHANGED <<back, buffer_num, recorded, writeVars, buffer_type, record, value, time>>
        /\ last_value' = last_value
    BY <1>1 DEF PutOld, optionVars, clockVars
  <2>3. /\ "step" \in Place /\ "step_count" \in Place
        /\ Limit("step") < MaxNum /\ Limit("step_count") = Limit("step")
    BY DEF Place, MainStep, Limit
  <2>4. last_value' \in Value
    BY <2>2 DEF Inv, Types
  <2> HIDE DEF row
  <2> QED
    BY <2>1, <2>2, <2>3, <2>4, Put
<1>2. CASE PutNew
  <2> DEFINE row == [t |-> time, v |-> value]
  <2>1. row \in Row
    BY DEF Inv, Types, Row
  <2>2. /\ pc["main"] = "fill" /\ Goto("main", "count")
        /\ buffer' = [buffer EXCEPT ![buffer_num % MaxNum] = row]
        /\ UNCHANGED <<back, buffer_num, recorded, writeVars, buffer_type, record, value, time>>
        /\ last_value' = value
    BY <1>2 DEF PutNew, optionVars, clockVars
  <2>3. /\ "fill" \in Place /\ "count" \in Place
        /\ Limit("fill") < MaxNum /\ Limit("count") = Limit("fill")
    BY DEF Place, MainStep, Limit
  <2>4. last_value' \in Value
    BY <2>2 DEF Inv, Types
  <2> HIDE DEF row
  <2> QED
    BY <2>1, <2>2, <2>3, <2>4, Put
<1> QED
  BY <1>1, <1>2

\* Every step keeps the invariant.
LEMMA InvNext == ASSUME Inv, MaxNum > 1, ~ClientToggles, ~Overtakes, [Next]_vars PROVE Inv'
<1>1. CASE DataRecord \/ ForceWrite \/ PutOld \/ PutNew \/ Count
  BY <1>1, DataRecordInv, ForceWriteInv, PutInv, CountInv
<1>2. CASE Model \/ AdvanceLogTics \/ NotDue \/ EndOfFrame \/ SignalThread \/ Tic \/ ClearGroups
           \/ ShutdownDispatcher
  BY <1>2, MainInv
<1>3. CASE PreloadCheckpoint \/ RemoveGroup \/ Stop
  <2>1. time' = time
    BY <1>3 DEF PreloadCheckpoint, RemoveGroup, Stop, clockVars
  <2>2. CASE PreloadCheckpoint
    BY <2>1, <2>2, ShutdownInv DEF PreloadCheckpoint
  <2>3. CASE RemoveGroup
    BY <2>1, <2>3, ShutdownInv DEF RemoveGroup
  <2>4. CASE Stop
    BY <2>1, <2>4, ShutdownInv DEF Stop
  <2> QED
    BY <1>3, <2>2, <2>3, <2>4
<1>4. CASE Restart
  BY <1>4, RestartInv
<1>5. ASSUME NEW p \in Proc, Write(p) PROVE Inv'
  BY <1>5, LockInv, WriteRowInv, UnlockInv DEF Write
<1>6. CASE Pass \/ Wait \/ Spurious
  BY <1>6, WriterInv
<1>7. CASE Toggle
  BY <1>7, ToggleInv
<1>8. CASE UNCHANGED vars
  BY <1>8 DEF vars, groupVars, writeVars, optionVars, clockVars, Inv, Types, WriterHolds, MainKnows,
     Counted, Room, InStep, Waiting, RowsInOrder, Orderly
<1> QED
  BY <1>1, <1>2, <1>3, <1>4, <1>5, <1>6, <1>7, <1>8 DEF Next, Main, Writer, RecordJob, Proc

\* RowsInOrder holds in every behaviour: the rows in the file are the rows recorded, in order, none
\* lost or overwritten on its way through the buffer (data_record and write_data).  That no reload
\* overtakes a pass of the writer thread is a hypothesis, which the code does not establish.
THEOREM FileInOrder ==
  ASSUME MaxNum > 1, ~ClientToggles, ~Overtakes
  PROVE  Spec => []RowsInOrder
<1>1. Init => Inv
  BY InvInit
<1>2. Inv /\ [Next]_vars => Inv'
  BY InvNext
<1>3. Inv => RowsInOrder
  BY DEF Inv
<1> QED
  BY <1>1, <1>2, <1>3, PTL DEF Spec

--------------------------------------------------------------------------------
(***************************************************************************)
(* The times at which the job runs.                                        *)
(***************************************************************************)
\* The place of the main thread, or the one it goes on to when write_data returns.
At == IF pc["main"] \in WriteStep THEN back["main"] ELSE pc["main"]

\* The job is in the middle of its run, or over for this tic.
Recording == {"force", "step", "step_count", "fill", "count", "advance"}
Passed == {"frame", "signal", "tic", "close", "reinit", "removed", "stop", "done"}

\* The next call is at the first of the next times of the cycles; a time of a cycle before its
\* next one had its call, and the simulation does not go past a call.
CycleInv ==
  /\ \A r \in Rates : next_cycle[r] % r = 0 /\ next_tics <= next_cycle[r]
  /\ \A r \in Rates, t \in Nat : t < next_cycle[r] /\ t % r = 0 => t \in called
  /\ next_tics >= time
  /\ At \in Recording => time \in called
  /\ At \in Passed => next_tics > time

(***************************************************************************)
(* What the rows say.                                                      *)
(***************************************************************************)
Putting == {"force", "step", "step_count", "fill", "count"}

\* last_value is the value of the last row but while the new one waits to be counted; the copy of
\* the change variable is that value too, but while the rows of a change are put.
GoesOn == {"model", "step", "fill", "signal", "close", "removed", "done"}
RowsInv ==
  /\ buffer_num = Len(recorded) /\ back["main"] \in GoesOn
  /\ recorded # <<>> /\ pc["main"] # "count" => recorded[Len(recorded)].v = last_value
  /\ freq # "DR_Always" => change_value = (IF At \in Putting THEN value
                                           ELSE IF recorded # <<>> THEN last_value ELSE change_value)
  /\ pc["main"] = "step_count" => buffer[buffer_num % MaxNum] = [t |-> time, v |-> last_value]
  /\ pc["main"] = "count" => buffer[buffer_num % MaxNum] = [t |-> time, v |-> value] /\ last_value = value
  /\ freq = "DR_Changes_Step" /\ At \in {"fill", "count"} =>
       recorded # <<>> /\ recorded[Len(recorded)].t = time
  /\ ChangesRecorded /\ Stairs

(***************************************************************************)
(* What is in the file when the group is closed.                           *)
(***************************************************************************)
Closed == {"close", "removed", "done"}
Ring == buffer_type = "DR_Ring_Buffer"
Kept == IF buffer_num > MaxNum THEN MaxNum ELSE buffer_num

\* A ring is written once, when it is closed, from the oldest row it still has on.
RingInv ==
  Ring =>
    /\ pc["writer"] \notin WriteStep /\ (pc["main"] \in WriteStep => back["main"] \in Closed)
    /\ pc["main"] \notin Closed \cup {"write", "reinit"} => file = <<>> /\ writer_num = 0
    /\ pc["main"] \in Closed \cup {"write"} =>
         /\ Len(file) = writer_num - (buffer_num - Kept)
         /\ \A i \in 1 .. Len(file) : file[i] = recorded[buffer_num - Kept + i]
    /\ \A k \in Nat : buffer_num - MaxNum <= k /\ k < buffer_num =>
         \/ buffer[k % MaxNum] = recorded[k + 1]
         \/ k = buffer_num - MaxNum /\ pc["main"] \in {"step_count", "count"}

\* Once the group is closed no row waits.
ClosedInv ==
  /\ pc["main"] \in Closed /\ (Ring \/ Len(file) <= MaxFileSize) => writer_num = buffer_num
  /\ RingInv

--------------------------------------------------------------------------------
\* A set of numbers that is not empty has a least one.
LEMMA LeastTime ==
  ASSUME NEW T, T \subseteq Nat, T # {}
  PROVE  \E x \in T : \A y \in T : x <= y
<1> DEFINE R == OpToRel(<, Nat)
<1>1. IsWellFoundedOn(R, Nat)
  BY NatLessThanWellFounded
<1>2. \A x, y \in Nat : <<x, y>> \in R <=> x < y
  BY DEF OpToRel
<1> HIDE DEF R
<1>3. PICK x \in T : \A y \in T : ~(<<y, x>> \in R)
  BY <1>1, WFMin
<1>4. ASSUME NEW y \in T PROVE x <= y
  <2>1. x \in Nat /\ y \in Nat
    OBVIOUS
  <2>2. ~(<<y, x>> \in R)
    BY <1>3
  <2> QED
    BY <2>1, <2>2, <1>2
<1> QED BY <1>4

\* advance_log_tics_given_curr_tic gives a time.
LEMMA AdvancedType ==
  ASSUME DataRecordAssumption, NEW r \in Rates, time \in Nat, next_cycle \in [Rates -> Nat]
  PROVE  Advanced(r) \in Nat
<1> DEFINE late == time - next_cycle[r]
           q == late \div r
<1>1. r \in Nat \ {0} /\ late \in Int /\ next_cycle[r] \in Nat
  BY DEF DataRecordAssumption
<1>2. CASE late < 0
  BY <1>1, <1>2 DEF Advanced
<1>3. CASE ~(late < 0)
  <2> HIDE DEF late
  <2>1. late \in Nat
    BY <1>1, <1>3
  <2>2. q \in Nat
    BY <1>1, <2>1, SMT
  <2> HIDE DEF q
  <2>3. r * (q + 1) \in Nat
    BY <1>1, <2>2
  <2>4. Advanced(r) = next_cycle[r] + r * (q + 1)
    BY <1>3 DEF Advanced, late, q
  <2> QED
    BY <1>1, <2>3, <2>4
<1> QED
  BY <1>2, <1>3

\* The next call is at the first of the next times.
LEMMA NextCall ==
  ASSUME DataRecordAssumption, NEW f \in [Rates -> Nat],
         NEW n, n = CHOOSE m \in {f[r] : r \in Rates} : \A r \in Rates : m <= f[r]
  PROVE  n \in Nat /\ (\E r \in Rates : n = f[r]) /\ \A r \in Rates : n <= f[r]
<1> DEFINE T == {f[r] : r \in Rates}
<1>1. T \subseteq Nat /\ T # {}
  <2>1. \A r \in Rates : f[r] \in Nat
    OBVIOUS
  <2>2. PICK r \in Rates : TRUE
    BY DEF DataRecordAssumption
  <2>3. f[r] \in T
    OBVIOUS
  <2> QED
    BY <2>1, <2>3
<1> HIDE DEF T
<1>2. PICK x \in T : \A y \in T : x <= y
  BY <1>1, LeastTime
<1>3. \E m \in T : \A r \in Rates : m <= f[r]
  BY <1>2 DEF T
<1>4. n \in T /\ \A r \in Rates : n <= f[r]
  <2> DEFINE P(m) == \A r \in Rates : m <= f[r]
  <2>1. \E m \in T : P(m)
    BY <1>3
  <2>2. n = CHOOSE m \in T : P(m)
    BY DEF T
  <2> HIDE DEF P
  <2>3. n \in T /\ P(n)
    BY <2>1, <2>2, Zenon
  <2> QED
    BY <2>3 DEF P
<1> QED
  BY <1>1, <1>4 DEF T

--------------------------------------------------------------------------------
\* Type correctness: the steps of the job, ...
LEMMA TypeInit == ASSUME DataRecordAssumption, Init PROVE TypeOK
<1>1. [t |-> 0, v |-> 0] \in Row
  BY DEF Row, DataRecordAssumption
<1>2. /\ pc \in [Proc -> MainStep \cup WriterStep \cup WriteStep] /\ pc["main"] = "model" /\ pc["writer"] = "wait"
      /\ back \in [Proc -> MainStep \cup WriterStep] /\ back["main"] = "model" /\ back["writer"] = "rest"
      /\ local_num \in [Proc -> Nat]
  BY DEF Init, Proc, MainStep, WriterStep
<1>3. /\ buffer \in [0 .. MaxNum - 1 -> Row] /\ next_cycle \in [Rates -> Nat]
      /\ file \in Seq(Row) /\ recorded \in Seq(Row) /\ called \subseteq Nat
  BY <1>1 DEF Init
<1>4. time \in 0 .. MaxTime /\ reloads \in 0 .. MaxReloads /\ last_value \in Value /\ change_value \in Value
      /\ value \in Value
  BY DEF Init, DataRecordAssumption
<1>5. "model" \in MainStep /\ "wait" \in WriterStep
  BY DEF MainStep, WriterStep
<1>6. /\ buffer_mutex \in Proc \cup {"none"} /\ dr_go_mutex \in {"writer", "none"}
      /\ cancelled \in BOOLEAN /\ in_groups \in BOOLEAN
      /\ freq \in Freqs /\ buffer_type \in BufferTypes /\ record \in BOOLEAN
      /\ buffer_num \in Nat /\ writer_num \in Nat /\ next_tics \in Nat
  BY DEF Init
<1> QED
  BY <1>2, <1>3, <1>4, <1>5, <1>6 DEF TypeOK

\* The types survive a part of the data record job.
LEMMA TypeOfJob ==
  ASSUME DataRecordAssumption, TypeOK, DataRecord \/ ForceWrite \/ PutOld \/ PutNew \/ Count \/ AdvanceLogTics
  PROVE  TypeOK'
<1>1. /\ MaxNum \in Nat \ {0} /\ MaxTime \in Nat /\ buffer_num % MaxNum \in 0 .. MaxNum - 1 /\ time \in Nat
  BY CellOfRow DEF DataRecordAssumption, TypeOK
<1>2. CASE DataRecord
  BY <1>1, <1>2 DEF DataRecord, TypeOK, Goto, FirstRow, Proc, MainStep, writeVars, threadVars, optionVars
<1>3. CASE ForceWrite
  BY <1>3 DEF ForceWrite, WriteData, TypeOK, Goto, FirstRow, Proc, MainStep, WriteStep, groupVars, writeVars, threadVars,
              optionVars, clockVars
<1>4. CASE PutOld
  <2>1. [t |-> time, v |-> last_value] \in Row
    BY <1>1 DEF Row, TypeOK
  <2> QED
    BY <1>1, <1>4, <2>1 DEF PutOld, TypeOK, Goto, Proc, MainStep, writeVars, threadVars, optionVars, clockVars
<1>5. CASE PutNew
  <2>1. [t |-> time, v |-> value] \in Row
    BY <1>1 DEF Row, TypeOK
  <2> QED
    BY <1>1, <1>5, <2>1 DEF PutNew, TypeOK, Goto, Proc, MainStep, writeVars, threadVars, optionVars, clockVars
<1>6. CASE Count
  <2>1. buffer[buffer_num % MaxNum] \in Row
    BY <1>1 DEF TypeOK
  <2> QED
    BY <1>6, <2>1 DEF Count, TypeOK, Goto, Proc, MainStep, writeVars, threadVars, optionVars, clockVars
<1>7. CASE AdvanceLogTics
  <2>1. next_cycle' = [r \in Rates |-> Advanced(r)] /\ next_cycle' \in [Rates -> Nat]
    BY <1>1, <1>7, AdvancedType DEF AdvanceLogTics, TypeOK
  <2>2. next_tics' \in Nat
    BY <1>7, <2>1, NextCall DEF AdvanceLogTics
  <2> QED
    BY <1>7, <2>1, <2>2 DEF AdvanceLogTics, TypeOK, Goto, Proc, MainStep, groupVars, writeVars, threadVars, optionVars
<1> QED
  BY <1>2, <1>3, <1>4, <1>5, <1>6, <1>7

\* ... of the main thread around it, ...
LEMMA TypeOfMain ==
  ASSUME DataRecordAssumption, TypeOK,
         Model \/ NotDue \/ EndOfFrame \/ SignalThread \/ Tic \/ PreloadCheckpoint \/ ClearGroups \/ Restart
           \/ RemoveGroup \/ ShutdownDispatcher \/ Stop \/ Toggle
  PROVE  TypeOK'
<1> USE DEF TypeOK, Goto, Proc, MainStep, WriterStep, WriteStep, groupVars, writeVars, threadVars, optionVars, clockVars
<1>1. CASE Model
  BY <1>1 DEF Model
<1>10. CASE NotDue
  BY <1>10 DEF NotDue
<1>11. CASE EndOfFrame
  BY <1>11 DEF EndOfFrame, WriteData
<1>2. CASE SignalThread
  BY <1>2 DEF SignalThread, WakeWriter
<1>9. CASE ShutdownDispatcher
  BY <1>9 DEF ShutdownDispatcher, WakeWriter
<1>3. CASE Tic
  BY <1>3 DEF Tic, DataRecordAssumption
<1>4. CASE PreloadCheckpoint
  BY <1>4 DEF PreloadCheckpoint, ShutdownGroup, WriteData, DataRecordAssumption
<1>5. CASE ClearGroups
  <2>1. pc' \in [Proc -> MainStep \cup WriterStep \cup WriteStep] /\ in_groups' \in BOOLEAN
    BY <1>5 DEF ClearGroups
  <2> QED
    BY <1>5, <2>1 DEF ClearGroups
<1>12. CASE RemoveGroup
  BY <1>12 DEF RemoveGroup, ShutdownGroup, WriteData
<1>6. CASE Restart
  <2>1. [t |-> 0, v |-> 0] \in Row
    BY DEF Row, DataRecordAssumption
  <2> QED
    BY <1>6, <2>1 DEF Restart, DataRecordAssumption
<1>7. CASE Stop
  BY <1>7 DEF Stop, ShutdownGroup, WriteData
<1>8. CASE Toggle
  BY <1>8 DEF Toggle
<1> QED
  BY <1>1, <1>2, <1>3, <1>4, <1>5, <1>6, <1>7, <1>8, <1>9, <1>10, <1>11, <1>12

\* ... and of write_data and of the writer thread.
LEMMA TypeOfWriter ==
  ASSUME DataRecordAssumption, TypeOK, Pass \/ Wait \/ Spurious \/ \E p \in Proc : Write(p)
  PROVE  TypeOK'
<1> USE DEF TypeOK, Goto, Proc, MainStep, WriterStep, WriteStep, groupVars, writeVars, threadVars, optionVars, clockVars
<1>1. CASE Pass
  BY <1>1 DEF Pass, WriteData
<1>2. CASE Wait
  BY <1>2 DEF Wait
<1>6. CASE Spurious
  BY <1>6 DEF Spurious
<1>3. ASSUME NEW p \in Proc, LockBuffer(p) PROVE TypeOK'
  <2>1. buffer_num - NumToWrite \in Int
    BY DEF NumToWrite, DataRecordAssumption
  <2> QED
    BY <1>3, <2>1 DEF LockBuffer
<1>4. ASSUME NEW p \in Proc, WriteRow(p) PROVE TypeOK'
  <2>1. buffer[writer_num % MaxNum] \in Row
    BY CellOfRow DEF DataRecordAssumption
  <2> QED
    BY <1>4, <2>1 DEF WriteRow
<1>5. ASSUME NEW p \in Proc, UnlockBuffer(p) PROVE TypeOK'
  BY <1>5 DEF UnlockBuffer
<1> QED
  BY <1>1, <1>2, <1>3, <1>4, <1>5, <1>6 DEF Write

\* Every step keeps the types.
LEMMA TypeStep == ASSUME DataRecordAssumption, TypeOK, [Next]_vars PROVE TypeOK'
<1>1. CASE UNCHANGED vars
  BY <1>1 DEF vars, groupVars, writeVars, threadVars, optionVars, clockVars, TypeOK
<1> QED
  BY <1>1, TypeOfJob, TypeOfMain, TypeOfWriter DEF Next, Main, Writer, RecordJob, Proc

--------------------------------------------------------------------------------
\* The times of a cycle are r apart.
LEMMA NextTime ==
  ASSUME NEW r \in Nat \ {0}, NEW c \in Nat, c % r = 0
  PROVE  (c + r) % r = 0
<1> DEFINE qa == c \div r  qb == (c + r) \div r  b == (c + r) % r
<1>1. qa \in Int /\ qb \in Int /\ b \in 0 .. r - 1
  BY SMT
<1>2. c = r * qa /\ c + r = r * qb + b
  BY SMT
<1> HIDE DEF qa, qb, b
<1>3. r * (qb - qa - 1) = 0 - b
  BY <1>1, <1>2, SMT
<1>4. CASE qb - qa - 1 = 0
  <2>1. b = 0
    BY <1>1, <1>3, <1>4, SMT
  <2> QED
    BY <2>1 DEF b
<1>5. CASE qb - qa - 1 >= 1
  <2>1. r * (qb - qa - 1) >= r
    BY <1>1, <1>5, SMT
  <2> QED
    BY <1>1, <1>3, <2>1
<1>6. CASE qb - qa - 1 <= -1
  <2>1. r * (qb - qa - 1) <= 0 - r
    BY <1>1, <1>6, SMT
  <2> QED
    BY <1>1, <1>3, <2>1
<1> QED
  BY <1>1, <1>4, <1>5, <1>6

\* Between two multiples of a cycle there is none.
LEMMA NoTimeBetween ==
  ASSUME NEW r \in Nat \ {0}, NEW c \in Nat, c % r = 0, NEW t \in Nat, c < t, t < c + r
  PROVE  t % r # 0
<1>1. t - c < r
  OBVIOUS
<1> QED
  BY <1>1, DifferentCells

\* What advance_log_tics_given_curr_tic makes of a cycle whose next time is not past.
LEMMA AdvancedTo ==
  ASSUME DataRecordAssumption, NEW r \in Rates, time \in Nat, next_cycle \in [Rates -> Nat], next_cycle[r] >= time
  PROVE  Advanced(r) = IF next_cycle[r] > time THEN next_cycle[r] ELSE next_cycle[r] + r
<1>1. r \in Nat \ {0} /\ next_cycle[r] \in Nat
  BY DEF DataRecordAssumption
<1>2. CASE next_cycle[r] > time
  <2>1. time - next_cycle[r] < 0
    BY <1>1, <1>2
  <2> QED
    BY <1>2, <2>1 DEF Advanced
<1>3. CASE next_cycle[r] = time
  <2>1. time - next_cycle[r] = 0 /\ ~(next_cycle[r] > time)
    BY <1>1, <1>3
  <2>2. 0 \div r = 0
    BY <1>1, SMT
  <2>3. r * ((0 \div r) + 1) = r
    BY <1>1, <2>2
  <2> QED
    BY <2>1, <2>3 DEF Advanced
<1> QED
  BY <1>1, <1>2, <1>3

\* The job sets the next time of each cycle that is due, and the next call to the first of them.
LEMMA CycleAdvances ==
  ASSUME DataRecordAssumption, TypeOK, CycleInv, AdvanceLogTics
  PROVE  CycleInv'
<1>1. /\ next_cycle' = [r \in Rates |-> Advanced(r)] /\ next_cycle' \in [Rates -> Nat]
      /\ time \in Nat /\ next_cycle \in [Rates -> Nat] /\ next_tics \in Nat
  BY AdvancedType DEF AdvanceLogTics, TypeOK, DataRecordAssumption
<1>2. next_tics' \in Nat /\ (\E r \in Rates : next_tics' = next_cycle'[r]) /\ \A r \in Rates : next_tics' <= next_cycle'[r]
  <2>1. PICK f \in [Rates -> Nat] : f = next_cycle'
    BY <1>1
  <2>2. next_tics' = CHOOSE n \in {f[r] : r \in Rates} : \A r \in Rates : n <= f[r]
    BY <2>1 DEF AdvanceLogTics
  <2>3. next_tics' \in Nat /\ (\E r \in Rates : next_tics' = f[r]) /\ \A r \in Rates : next_tics' <= f[r]
    BY <2>2, NextCall
  <2> QED
    BY <2>1, <2>3
<1>3. UNCHANGED <<time, called>> /\ time \in called /\ At' = "due"
  BY DEF AdvanceLogTics, CycleInv, At, Recording, Goto, TypeOK, Proc, WriteStep
<1>4. ASSUME NEW r \in Rates
      PROVE  /\ next_cycle'[r] \in Nat /\ next_cycle'[r] % r = 0 /\ next_cycle'[r] > time
             /\ \A t \in Nat : t < next_cycle'[r] /\ t % r = 0 => t \in called
  <2>1. r \in Nat \ {0} /\ next_cycle[r] \in Nat /\ next_cycle[r] % r = 0 /\ next_cycle[r] >= time
    BY <1>1 DEF CycleInv, DataRecordAssumption
  <2>2. next_cycle'[r] = IF next_cycle[r] > time THEN next_cycle[r] ELSE next_cycle[r] + r
    BY <1>1, <2>1, AdvancedTo
  <2>3. \A t \in Nat : t < next_cycle[r] /\ t % r = 0 => t \in called
    BY DEF CycleInv
  <2>4. CASE next_cycle[r] > time
    BY <2>1, <2>2, <2>3, <2>4
  <2>5. CASE next_cycle[r] = time
    <3>1. next_cycle'[r] = next_cycle[r] + r
      BY <1>1, <2>2, <2>5
    <3>2. (next_cycle[r] + r) % r = 0
      BY <2>1, NextTime
    <3>3. ASSUME NEW t \in Nat, t < next_cycle[r] + r, t % r = 0 PROVE t \in called
      <4>1. CASE t < next_cycle[r]
        BY <2>3, <3>3, <4>1
      <4>2. CASE t = next_cycle[r]
        BY <1>3, <2>5, <4>2
      <4>3. CASE t > next_cycle[r]
        BY <2>1, <3>3, <4>3, NoTimeBetween
      <4> QED
        BY <2>1, <4>1, <4>2, <4>3
    <3>4. next_cycle[r] + r \in Nat /\ next_cycle[r] + r > time
      BY <1>1, <2>1, <2>5
    <3> QED
      BY <3>1, <3>2, <3>3, <3>4
  <2> QED
    BY <1>1, <2>1, <2>4, <2>5
<1>5. next_tics' > time
  BY <1>2, <1>4
<1>6. next_tics' >= time
  BY <1>1, <1>2, <1>5
<1> QED
  BY <1>2, <1>3, <1>4, <1>6 DEF CycleInv, Recording, Passed

\* A step within the run of the job, or outside it, that touches none of the times.
LEMMA SameTimes ==
  ASSUME CycleInv, UNCHANGED <<time, next_cycle, next_tics, called>>,
         At' \in Recording => At \in Recording, At' \in Passed => At \in Passed
  PROVE  CycleInv'
BY DEF CycleInv

\* The steps of the writer thread and those of write_data: the main thread goes on to the same place.
LEMMA SamePlace ==
  ASSUME TypeOK, Pass \/ Wait \/ Spurious \/ Toggle \/ \E p \in Proc : Write(p)
  PROVE  At' = At /\ UNCHANGED <<time, next_cycle, next_tics, called>>
<1>0. pc["main"] \in MainStep \cup WriteStep /\ back["main"] \in MainStep /\ MainStep \cap WriteStep = {}
  BY DEF TypeOK, MainStep, WriteStep
<1>1. CASE Pass
  BY <1>1 DEF Pass, WriteData, Goto, TypeOK, Proc, At, clockVars
<1>2. CASE Wait
  BY <1>2 DEF Wait, Goto, TypeOK, Proc, At, clockVars
<1>3. CASE Spurious
  BY <1>3 DEF Spurious, Goto, TypeOK, Proc, At, clockVars
<1>4. CASE Toggle
  BY <1>4 DEF Toggle, At, clockVars
<1>5. ASSUME NEW p \in Proc, LockBuffer(p) PROVE At' = At /\ UNCHANGED <<time, next_cycle, next_tics, called>>
  BY <1>5 DEF LockBuffer, Goto, TypeOK, Proc, At, clockVars, WriteStep
<1>6. ASSUME NEW p \in Proc, WriteRow(p) PROVE At' = At /\ UNCHANGED <<time, next_cycle, next_tics, called>>
  BY <1>6 DEF WriteRow, At, clockVars
<1>7. ASSUME NEW p \in Proc, UnlockBuffer(p) PROVE At' = At /\ UNCHANGED <<time, next_cycle, next_tics, called>>
  <2>1. UNCHANGED <<back, time, next_cycle, next_tics, called>> /\ pc[p] \in WriteStep /\ pc' = [pc EXCEPT ![p] = back[p]]
    BY <1>7 DEF UnlockBuffer, Goto, clockVars, WriteStep
  <2>2. CASE p = "main"
    BY <1>0, <2>1, <2>2 DEF TypeOK, Proc, At
  <2>3. CASE p # "main"
    BY <2>1, <2>3 DEF TypeOK, Proc, At
  <2> QED
    BY <2>2, <2>3
<1> QED
  BY <1>1, <1>2, <1>3, <1>4, <1>5, <1>6, <1>7 DEF Write

\* Where each step of the main thread comes from and goes to.
LEMMA Places ==
  ASSUME TypeOK
  PROVE  /\ Model => At = "model" /\ At' = "due"
         /\ DataRecord => At = "due" /\ At' \in Recording
         /\ ForceWrite => At = "force" /\ At' = FirstRow
         /\ PutOld => At = "step" /\ At' = "step_count"
         /\ PutNew => At = "fill" /\ At' = "count"
         /\ Count => (At = "step_count" /\ At' = "fill") \/ (At = "count" /\ At' = "advance")
         /\ NotDue => At = "due" /\ At' \in {"frame", "tic"}
         /\ EndOfFrame => At = "frame" /\ At' = "signal"
         /\ SignalThread => At = "signal" /\ At' = "tic"
         /\ Tic => At = "tic" /\ At' = "model"
         /\ PreloadCheckpoint => At = "tic" /\ At' = "close"
         /\ ClearGroups => At = "close" /\ At' = "reinit"
         /\ Restart => At = "reinit" /\ At' = "tic"
         /\ RemoveGroup => At = "tic" /\ At' = "removed"
         /\ ShutdownDispatcher => At \in {"tic", "removed"} /\ At' \in {"stop", "done"}
         /\ Stop => At = "stop" /\ At' = "done"
<1> USE DEF TypeOK, Goto, Proc, WriteStep, At
<1>1. Model => At = "model" /\ At' = "due"
  BY DEF Model
<1>2. DataRecord => At = "due" /\ At' \in Recording
  BY DEF DataRecord, Recording, FirstRow
<1>3. ForceWrite => At = "force" /\ At' = FirstRow
  BY DEF ForceWrite, WriteData, FirstRow
<1>4. PutOld => At = "step" /\ At' = "step_count"
  BY DEF PutOld
<1>5. PutNew => At = "fill" /\ At' = "count"
  BY DEF PutNew
<1>6. Count => (At = "step_count" /\ At' = "fill") \/ (At = "count" /\ At' = "advance")
  BY DEF Count
<1>7. NotDue => At = "due" /\ At' \in {"frame", "tic"}
  BY DEF NotDue
<1>8. EndOfFrame => At = "frame" /\ At' = "signal"
  BY DEF EndOfFrame, WriteData
<1>9. SignalThread => At = "signal" /\ At' = "tic"
  BY DEF SignalThread, WakeWriter
<1>10. Tic => At = "tic" /\ At' = "model"
  BY DEF Tic
<1>11. PreloadCheckpoint => At = "tic" /\ At' = "close"
  BY DEF PreloadCheckpoint, ShutdownGroup, WriteData
<1>12. ClearGroups => At = "close" /\ At' = "reinit"
  BY DEF ClearGroups
<1>13. Restart => At = "reinit" /\ At' = "tic"
  BY DEF Restart
<1>14. RemoveGroup => At = "tic" /\ At' = "removed"
  BY DEF RemoveGroup, ShutdownGroup, WriteData
<1>15. ShutdownDispatcher => At \in {"tic", "removed"} /\ At' \in {"stop", "done"}
  BY DEF ShutdownDispatcher, WakeWriter
<1>16. Stop => At = "stop" /\ At' = "done"
  BY DEF Stop, ShutdownGroup, WriteData
<1> QED
  BY <1>1, <1>2, <1>3, <1>4, <1>5, <1>6, <1>7, <1>8, <1>9, <1>10, <1>11, <1>12, <1>13, <1>14, <1>15, <1>16

\* No cycle has been called at the start.
LEMMA CycleInit == ASSUME DataRecordAssumption, Init PROVE CycleInv
<1>1. \A r \in Rates : 0 % r = 0
  <2> SUFFICES ASSUME NEW r \in Rates PROVE 0 % r = 0
    OBVIOUS
  <2>1. r \in Nat \ {0}
    BY DEF DataRecordAssumption
  <2> QED
    BY <2>1, SMT
<1>2. At = "model" /\ \A r \in Rates : next_cycle[r] = 0
  BY DEF Init, At, Proc, WriteStep
<1> QED
  BY <1>1, <1>2 DEF Init, CycleInv, Recording, Passed

\* Every step keeps what is known of the cycles: the job advances its own, a tic moves the time no further than the next.
LEMMA CycleStep == ASSUME DataRecordAssumption, TypeOK, CycleInv, [Next]_vars PROVE CycleInv'
<1>1. CASE AdvanceLogTics
  BY <1>1, CycleAdvances
<1>2. CASE DataRecord
  <2>1. At' \in Recording /\ called' = called \cup {time} /\ UNCHANGED <<time, next_cycle, next_tics>>
    BY <1>2, Places DEF DataRecord
  <2> QED
    BY <2>1 DEF CycleInv, Recording, Passed
<1>3. CASE NotDue
  <2>1. At' \in {"frame", "tic"} /\ next_tics # time /\ UNCHANGED <<time, next_cycle, next_tics, called>>
    BY <1>3, Places DEF NotDue, clockVars
  <2>2. time \in Nat /\ next_tics \in Nat
    BY DEF TypeOK, DataRecordAssumption
  <2> QED
    BY <2>1, <2>2 DEF CycleInv, Recording, Passed
<1>4. CASE Tic
  <2>1. At = "tic" /\ At' = "model" /\ time' = time + 1 /\ UNCHANGED <<next_cycle, next_tics, called>>
    BY <1>4, Places DEF Tic
  <2>2. time \in Nat /\ next_tics \in Nat
    BY DEF TypeOK, DataRecordAssumption
  <2> QED
    BY <2>1, <2>2 DEF CycleInv, Recording, Passed
<1>5. CASE Pass \/ Wait \/ Spurious \/ Toggle \/ \E p \in Proc : Write(p)
  BY <1>5, SamePlace, SameTimes
<1>6. CASE ForceWrite \/ PutOld \/ PutNew \/ Count
  <2>1. UNCHANGED <<time, next_cycle, next_tics, called>>
    BY <1>6 DEF ForceWrite, PutOld, PutNew, Count, clockVars
  <2>2. At \in Recording /\ At' \in Recording /\ At' \notin Passed
    BY <1>6, Places DEF Recording, Passed, FirstRow
  <2> QED
    BY <2>1, <2>2, SameTimes
<1>7. CASE EndOfFrame \/ SignalThread \/ PreloadCheckpoint \/ ClearGroups \/ Restart \/ RemoveGroup
           \/ ShutdownDispatcher \/ Stop
  <2>1. UNCHANGED <<time, next_cycle, next_tics, called>>
    BY <1>7 DEF EndOfFrame, SignalThread, PreloadCheckpoint, ClearGroups, Restart, RemoveGroup,
                ShutdownDispatcher, Stop, clockVars
  <2>2. At \in Passed /\ At' \in Passed /\ At' \notin Recording
    BY <1>7, Places DEF Recording, Passed
  <2> QED
    BY <2>1, <2>2, SameTimes
<1>8. CASE Model
  <2>1. At' = "due" /\ UNCHANGED <<time, next_cycle, next_tics, called>>
    BY <1>8, Places DEF Model, clockVars
  <2> QED
    BY <2>1, SameTimes DEF Recording, Passed
<1>9. CASE UNCHANGED vars
  <2>1. At' = At /\ UNCHANGED <<time, next_cycle, next_tics, called>>
    BY <1>9 DEF vars, clockVars, At
  <2> QED
    BY <2>1, SameTimes
<1> QED
  BY <1>1, <1>2, <1>3, <1>4, <1>5, <1>6, <1>7, <1>8, <1>9 DEF Next, Main, Writer, RecordJob, Proc

\* Every multiple of every cycle of the group has its call before the simulation goes on to the next
\* tic, whatever the cycles are, and however often dr_record_now_group moves the next call.
THEOREM RatesAreHonoured == Spec => []RatesHonoured
<1>1. Init => TypeOK /\ CycleInv
  BY DataRecordAssumption, TypeInit, CycleInit
<1>2. TypeOK /\ CycleInv /\ [Next]_vars => TypeOK' /\ CycleInv'
  BY DataRecordAssumption, TypeStep, CycleStep
<1>3. TypeOK /\ CycleInv => RatesHonoured
  <2> SUFFICES ASSUME TypeOK, CycleInv, pc["main"] = "tic", NEW t \in 0 .. time, NEW r \in Rates, t % r = 0
               PROVE  t \in called
    BY DEF RatesHonoured
  <2>1. At = "tic" /\ next_tics > time /\ next_tics <= next_cycle[r]
    BY DEF At, WriteStep, CycleInv, Passed
  <2>2. time \in Nat /\ next_tics \in Nat /\ next_cycle[r] \in Nat /\ t \in Nat
    BY DataRecordAssumption DEF TypeOK, DataRecordAssumption
  <2>3. t < next_cycle[r]
    BY <2>1, <2>2
  <2> QED
    BY <2>2, <2>3 DEF CycleInv
<1> QED
  BY <1>1, <1>2, <1>3, PTL DEF Spec

--------------------------------------------------------------------------------
\* The last row, when one more is recorded.
LEMMA OneMoreRow ==
  ASSUME NEW s \in Seq(Row), NEW row \in Row
  PROVE  LET q == Append(s, row)
         IN  /\ q # <<>> /\ Len(q) = Len(s) + 1 /\ q[Len(q)] = row
             /\ \A i \in 1 .. Len(s) : q[i] = s[i]
             /\ s # <<>> <=> Len(s) \in 1 .. Len(s)
OBVIOUS

\* A step that records nothing.
LEMMA SameRows ==
  ASSUME TypeOK, RowsInv,
         UNCHANGED <<buffer, buffer_num, last_value, change_value, recorded, freq>>,
         back'["main"] \in GoesOn,
         At' \in Putting <=> At \in Putting,
         At' = "count" <=> At = "count", At' = "step_count" => At = "step_count",
         freq = "DR_Changes_Step" /\ At' \in {"fill", "count"} => At \in {"fill", "count"},
         At' = "advance" => At = "advance" /\ record' = record,
         UNCHANGED <<time, value>> \/ At' \notin Putting \cup {"advance"}
  PROVE  RowsInv'
<1>1. /\ \A s \in {"count", "step_count", "advance"} : pc["main"] = s <=> At = s
      /\ \A s \in {"count", "step_count", "advance"} : pc'["main"] = s <=> At' = s
  BY DEF At, RowsInv, GoesOn, WriteStep
<1>2. ChangesRecorded'
  BY <1>1 DEF RowsInv, ChangesRecorded, Putting
<1>3. Stairs'
  BY DEF RowsInv, Stairs
<1>4. freq # "DR_Always" => change_value = (IF At' \in Putting THEN value'
                                             ELSE IF recorded # <<>> THEN last_value ELSE change_value)
  BY DEF RowsInv
<1>5. recorded # <<>> /\ pc'["main"] # "count" => recorded[Len(recorded)].v = last_value
  BY <1>1 DEF RowsInv
<1>6. /\ pc'["main"] = "step_count" => buffer[buffer_num % MaxNum] = [t |-> time', v |-> last_value]
      /\ pc'["main"] = "count" => buffer[buffer_num % MaxNum] = [t |-> time', v |-> value'] /\ last_value = value'
  BY <1>1 DEF RowsInv, Putting
<1>7. freq = "DR_Changes_Step" /\ At' \in {"fill", "count"} => recorded # <<>> /\ recorded[Len(recorded)].t = time'
  BY DEF RowsInv, Putting
<1> QED
  BY <1>2, <1>3, <1>4, <1>5, <1>6, <1>7 DEF RowsInv

\* data_record decides whether to record, and takes the copy of a changed variable.
LEMMA RowsOfDataRecord == ASSUME TypeOK, RowsInv, DataRecord PROVE RowsInv'
<1>1. /\ UNCHANGED <<back, buffer, buffer_num, last_value, recorded, freq, record, value, time>>
      /\ change_value' = IF record /\ Changed THEN value ELSE change_value
      /\ pc["main"] = "due" /\ pc'["main"] \in {"advance", "force", "step", "fill"}
      /\ pc'["main"] = "advance" <=> ~record \/ ~(freq = "DR_Always" \/ buffer_num = 0 \/ Changed)
      /\ pc'["main"] = "fill" => freq # "DR_Changes_Step"
  BY DEF DataRecord, writeVars, optionVars, Goto, TypeOK, Proc, FirstRow
<1>2. At = "due" /\ At' = pc'["main"]
  BY <1>1 DEF At, WriteStep
<1>3. /\ buffer_num = Len(recorded) /\ back["main"] \in GoesOn
      /\ recorded # <<>> => recorded[Len(recorded)].v = last_value
      /\ freq # "DR_Always" /\ recorded # <<>> => change_value = last_value
  BY <1>1, <1>2 DEF RowsInv, Putting
<1>4. buffer_num # 0 => recorded # <<>>
  BY <1>3 DEF TypeOK
<1>5. CASE pc'["main"] = "advance"
  <2>1. record => freq # "DR_Always" /\ recorded # <<>> /\ value = change_value
    BY <1>1, <1>4, <1>5 DEF Changed
  <2>2. change_value' = change_value
    BY <1>1, <1>5
  <2>3. ChangesRecorded'
    BY <1>1, <1>3, <2>1 DEF ChangesRecorded
  <2>4. Stairs'
    BY <1>1 DEF RowsInv, Stairs
  <2> QED
    BY <1>1, <1>2, <1>3, <1>5, <2>2, <2>3, <2>4 DEF RowsInv, Putting
<1>6. CASE pc'["main"] # "advance"
  <2>1. freq # "DR_Always" => change_value' = value
    BY <1>1, <1>6 DEF Changed
  <2>2. ChangesRecorded'
    BY <1>6 DEF ChangesRecorded
  <2>3. Stairs'
    BY <1>1 DEF RowsInv, Stairs
  <2>4. At' \in Putting
    BY <1>1, <1>2, <1>6 DEF Putting
  <2>5. freq = "DR_Changes_Step" => At' \notin {"fill", "count"}
    BY <1>1, <1>2
  <2> QED
    BY <1>1, <1>2, <1>3, <2>1, <2>2, <2>3, <2>4, <2>5 DEF RowsInv
<1> QED
  BY <1>5, <1>6

\* The two rows of a change.
LEMMA RowsOfPut == ASSUME DataRecordAssumption, TypeOK, RowsInv, PutOld \/ PutNew PROVE RowsInv'
<1>1. buffer_num % MaxNum \in 0 .. MaxNum - 1 /\ buffer \in [0 .. MaxNum - 1 -> Row]
  BY CellOfRow DEF DataRecordAssumption, TypeOK
<1>2. UNCHANGED <<back, buffer_num, change_value, recorded, freq, record, value, time>>
  BY DEF PutOld, PutNew, writeVars, optionVars, clockVars
<1>3. CASE PutOld
  <2>1. /\ pc["main"] = "step" /\ pc'["main"] = "step_count" /\ last_value' = last_value
        /\ buffer'[buffer_num % MaxNum] = [t |-> time, v |-> last_value]
    BY <1>1, <1>3 DEF PutOld, Goto, TypeOK, Proc
  <2>2. At = "step" /\ At' = "step_count"
    BY <2>1 DEF At, WriteStep
  <2>3. ChangesRecorded' /\ Stairs'
    BY <1>2, <2>1 DEF RowsInv, ChangesRecorded, Stairs
  <2> QED
    BY <1>2, <2>1, <2>2, <2>3 DEF RowsInv, Putting
<1>4. CASE PutNew
  <2>1. /\ pc["main"] = "fill" /\ pc'["main"] = "count" /\ last_value' = value
        /\ buffer'[buffer_num % MaxNum] = [t |-> time, v |-> value]
    BY <1>1, <1>4 DEF PutNew, Goto, TypeOK, Proc
  <2>2. At = "fill" /\ At' = "count"
    BY <2>1 DEF At, WriteStep
  <2>3. ChangesRecorded' /\ Stairs'
    BY <1>2, <2>1 DEF RowsInv, ChangesRecorded, Stairs
  <2> QED
    BY <1>2, <2>1, <2>2, <2>3 DEF RowsInv, Putting
<1> QED
  BY <1>3, <1>4

\* The row just filled in is the newest one: it agrees with the values the next comparison will use.
LEMMA RowsOfCount == ASSUME DataRecordAssumption, TypeOK, RowsInv, Count PROVE RowsInv'
<1> DEFINE row == buffer[buffer_num % MaxNum]
           n == Len(recorded)
<1>1. row \in Row /\ recorded \in Seq(Row)
  BY CellOfRow DEF DataRecordAssumption, TypeOK
<1>2. /\ UNCHANGED <<back, buffer, last_value, change_value, freq, record, value, time>>
      /\ recorded' = Append(recorded, row) /\ buffer_num' = buffer_num + 1
  BY DEF Count, writeVars, optionVars, clockVars
<1> HIDE DEF row
<1>3. /\ recorded' # <<>> /\ Len(recorded') = n + 1 /\ recorded'[Len(recorded')] = row
      /\ \A i \in 1 .. n : recorded'[i] = recorded[i]
      /\ recorded # <<>> <=> n \in 1 .. n
  BY <1>1, <1>2, OneMoreRow
<1>4. n \in Nat
  BY <1>1
<1> HIDE DEF n
<1>5. buffer_num' = Len(recorded') /\ back'["main"] \in GoesOn
  BY <1>2, <1>3 DEF RowsInv, n
<1>6. recorded # <<>> => recorded'[n] = recorded[n]
  BY <1>3
<1>7. ASSUME freq = "DR_Changes_Step" => (recorded # <<>> => recorded[n].v = row.v \/ recorded[n].t = row.t)
      PROVE  Stairs'
  <2>1. SUFFICES ASSUME freq = "DR_Changes_Step", NEW i \in 2 .. n + 1, recorded'[i].v # recorded'[i - 1].v
                 PROVE  recorded'[i].t = recorded'[i - 1].t
    BY <1>2, <1>3 DEF Stairs
  <2>2. CASE i \in 2 .. n
    <3>1. i \in 1 .. n /\ i - 1 \in 1 .. n
      BY <1>4, <2>2
    <3>2. recorded'[i] = recorded[i] /\ recorded'[i - 1] = recorded[i - 1]
      BY <1>3, <3>1
    <3>3. \A k \in 2 .. n : recorded[k].v # recorded[k - 1].v => recorded[k].t = recorded[k - 1].t
      BY <2>1 DEF RowsInv, Stairs, n
    <3> QED
      BY <2>1, <2>2, <3>2, <3>3
  <2>3. CASE i = n + 1
    <3>1. i - 1 = n /\ n \in 1 .. n
      BY <1>4, <2>3
    <3>2. recorded # <<>>
      BY <1>3, <3>1
    <3>3. recorded'[i - 1] = recorded[n] /\ recorded'[i] = row
      BY <1>3, <1>6, <2>3, <3>1, <3>2
    <3> QED
      BY <1>7, <2>1, <3>2, <3>3
  <2> QED
    BY <1>4, <2>2, <2>3
<1>8. CASE pc["main"] = "step_count"
  <2>1. pc'["main"] = "fill" /\ At = "step_count" /\ At' = "fill"
    BY <1>8 DEF Count, Goto, TypeOK, Proc, At, WriteStep
  <2>2. row = [t |-> time, v |-> last_value]
    BY <1>8 DEF RowsInv, row
  <2>3. recorded # <<>> => recorded[n].v = last_value
    BY <1>8 DEF RowsInv, n
  <2>4. Stairs'
    BY <1>7, <2>2, <2>3
  <2>5. ChangesRecorded'
    BY <2>1 DEF ChangesRecorded
  <2>6. freq # "DR_Always" => change_value = value
    BY <2>1 DEF RowsInv, Putting
  <2> QED
    BY <1>2, <1>3, <1>5, <2>1, <2>2, <2>4, <2>5, <2>6 DEF RowsInv, Putting
<1>9. CASE pc["main"] = "count"
  <2>1. pc'["main"] = "advance" /\ At = "count" /\ At' = "advance"
    BY <1>9 DEF Count, Goto, TypeOK, Proc, At, WriteStep
  <2>2. row = [t |-> time, v |-> value] /\ last_value = value
    BY <1>9 DEF RowsInv, row
  <2>3. freq = "DR_Changes_Step" => recorded[n].t = time
    BY <2>1 DEF RowsInv, n
  <2>4. Stairs'
    BY <1>7, <2>2, <2>3
  <2>5. ChangesRecorded'
    BY <1>2, <1>3, <2>2 DEF ChangesRecorded
  <2>6. freq # "DR_Always" => change_value = value
    BY <2>1 DEF RowsInv, Putting
  <2> QED
    BY <1>2, <1>3, <1>5, <2>1, <2>2, <2>4, <2>5, <2>6 DEF RowsInv, Putting
<1> QED
  BY <1>8, <1>9 DEF Count

\* A restart empties the record and leaves nothing to agree with.
LEMMA RowsOfRestart == ASSUME TypeOK, RowsInv, Restart PROVE RowsInv'
<1>1. /\ recorded' = <<>> /\ buffer_num' = 0 /\ back' = back /\ pc'["main"] = "tic"
  BY DEF Restart, Goto, TypeOK, Proc
<1>2. At' = "tic"
  BY <1>1 DEF At, WriteStep
<1>3. ChangesRecorded' /\ Stairs'
  BY <1>1 DEF ChangesRecorded, Stairs
<1> QED
  BY <1>1, <1>2, <1>3 DEF RowsInv, Putting

\* There is no row at the start.
LEMMA RowsInit == ASSUME Init PROVE RowsInv
<1>1. recorded = <<>> /\ buffer_num = 0 /\ pc["main"] = "model" /\ back["main"] = "model" /\ At = "model"
  BY DEF Init, At, Proc, WriteStep
<1>2. ChangesRecorded /\ Stairs
  BY <1>1 DEF ChangesRecorded, Stairs
<1> QED
  BY <1>1, <1>2 DEF RowsInv, Putting, GoesOn

\* Every step keeps the agreement of the rows with the values compared.
LEMMA RowsStep == ASSUME DataRecordAssumption, ~ClientToggles, TypeOK, RowsInv, [Next]_vars PROVE RowsInv'
<1>1. CASE DataRecord \/ PutOld \/ PutNew \/ Count \/ Restart
  BY <1>1, RowsOfDataRecord, RowsOfPut, RowsOfCount, RowsOfRestart
<1>2. CASE ForceWrite
  <2>1. /\ UNCHANGED <<buffer, buffer_num, last_value, change_value, recorded, freq, time, value>>
        /\ back'["main"] = FirstRow
    BY <1>2 DEF ForceWrite, WriteData, groupVars, optionVars, clockVars, TypeOK, Proc
  <2>2. At = "force" /\ At' = FirstRow /\ FirstRow \in {"step", "fill"} /\ (freq = "DR_Changes_Step" => FirstRow = "step")
    BY <1>2, Places DEF FirstRow
  <2> QED
    BY <2>1, <2>2, SameRows DEF Putting, GoesOn
<1>3. CASE Pass \/ Wait \/ Spurious \/ \E p \in Proc : Write(p)
  <2>1. At' = At /\ UNCHANGED time
    BY <1>3, SamePlace
  <2>2. UNCHANGED <<buffer, buffer_num, last_value, change_value, recorded, freq, value, record>>
    BY <1>3 DEF Pass, Wait, Spurious, Write, LockBuffer, WriteRow, UnlockBuffer, groupVars, optionVars
  <2>3. back'["main"] = back["main"]
    BY <1>3 DEF Pass, Wait, Spurious, Write, LockBuffer, WriteRow, UnlockBuffer, WriteData, TypeOK, Proc
  <2>4. back["main"] \in GoesOn
    BY DEF RowsInv
  <2> QED
    BY <2>1, <2>2, <2>3, <2>4, SameRows
<1>4. CASE NotDue \/ SignalThread \/ Tic \/ Model \/ ClearGroups \/ ShutdownDispatcher \/ AdvanceLogTics
  <2>1. UNCHANGED <<back, buffer, buffer_num, last_value, recorded, freq>> /\ change_value' = change_value
    BY <1>4 DEF NotDue, SignalThread, Tic, Model, ClearGroups, ShutdownDispatcher, AdvanceLogTics, groupVars, optionVars
  <2>2. At' \notin Putting \cup {"advance"} /\ At \notin Putting
    <3>1. CASE AdvanceLogTics
      BY <3>1 DEF AdvanceLogTics, Goto, TypeOK, Proc, At, WriteStep, Putting
    <3>2. CASE NotDue \/ SignalThread \/ Tic \/ Model \/ ClearGroups \/ ShutdownDispatcher
      BY <3>2, Places DEF Putting
    <3> QED
      BY <1>4, <3>1, <3>2
  <2>3. back'["main"] \in GoesOn
    BY <2>1 DEF RowsInv
  <2>4. At # "count" /\ At' \notin {"count", "step_count", "fill", "advance"}
    BY <2>2 DEF Putting
  <2> QED
    BY <2>1, <2>2, <2>3, <2>4, SameRows
<1>5. CASE EndOfFrame \/ PreloadCheckpoint \/ RemoveGroup \/ Stop
  <2>1. UNCHANGED <<buffer, buffer_num, last_value, change_value, recorded, freq>>
    BY <1>5 DEF EndOfFrame, PreloadCheckpoint, RemoveGroup, Stop, ShutdownGroup, groupVars, optionVars
  <2>2. At \in {"frame", "tic", "stop"} /\ At' \in {"signal", "close", "removed", "done"}
    BY <1>5, Places
  <2>3. back'["main"] \in {"signal", "close", "removed", "done"}
    BY <1>5 DEF EndOfFrame, PreloadCheckpoint, RemoveGroup, Stop, ShutdownGroup, WriteData, TypeOK, Proc
  <2> QED
    BY <2>1, <2>2, <2>3, SameRows DEF Putting, GoesOn
<1>6. CASE Toggle
  <2>1. UNCHANGED <<pc, back, buffer, buffer_num, last_value, change_value, recorded, freq, time, value>> /\ pc["main"] = "model"
    BY <1>6 DEF Toggle, groupVars, optionVars, clockVars
  <2>2. At = "model" /\ At' = "model"
    BY <2>1 DEF At, WriteStep
  <2>3. back'["main"] \in GoesOn
    BY <2>1 DEF RowsInv
  <2> QED
    BY <2>1, <2>2, <2>3, SameRows DEF Putting
<1>7. CASE UNCHANGED vars
  <2>1. UNCHANGED <<pc, back, buffer, buffer_num, last_value, change_value, recorded, freq, record, time, value>>
    BY <1>7 DEF vars, groupVars, optionVars, clockVars
  <2>2. At' = At
    BY <2>1 DEF At
  <2>3. back'["main"] \in GoesOn
    BY <2>1 DEF RowsInv
  <2> QED
    BY <2>1, <2>2, <2>3, SameRows
<1> QED
  BY <1>1, <1>2, <1>3, <1>4, <1>5, <1>6, <1>7 DEF Next, Main, Writer, RecordJob, Proc

\* After the job the last row recorded has the value of now, also of a change that happened while the
\* group was disabled, and the rows of DR_Changes_Step make stairs, through disabling and reloads.
THEOREM NoChangeIsMissed == ASSUME ~ClientToggles PROVE Spec => []ChangesKept
<1>1. Init => TypeOK /\ RowsInv
  BY DataRecordAssumption, TypeInit, RowsInit
<1>2. TypeOK /\ RowsInv /\ [Next]_vars => TypeOK' /\ RowsInv'
  BY DataRecordAssumption, TypeStep, RowsStep
<1>3. TypeOK /\ RowsInv => ChangesKept
  BY DEF RowsInv, ChangesKept
<1> QED
  BY <1>1, <1>2, <1>3, PTL DEF Spec

--------------------------------------------------------------------------------
\* A step that neither puts nor writes a row.
LEMMA SameFile ==
  ASSUME ClosedInv, UNCHANGED <<buffer, buffer_num, recorded, writer_num, file, buffer_type>>,
         pc'["main"] \in Closed => pc["main"] \in Closed \/ (~Ring /\ Len(file) > MaxFileSize),
         Ring => /\ pc'["writer"] \notin WriteStep /\ (pc'["main"] \in WriteStep => back'["main"] \in Closed)
                 /\ pc'["main"] \notin Closed \cup {"write", "reinit"} =>
                      pc["main"] \notin Closed \cup {"write", "reinit"}
                 /\ pc'["main"] \in Closed \cup {"write"} => pc["main"] \in Closed \cup {"write"},
         Len(file) \in Nat, MaxFileSize \in Nat,
         pc["main"] \in {"step_count", "count"} => pc'["main"] \in {"step_count", "count"}
  PROVE  ClosedInv'
<1>1. Ring' = Ring /\ Kept' = Kept
  BY DEF Ring, Kept
<1>2. RingInv'
  <2> SUFFICES ASSUME Ring PROVE RingInv'
    BY <1>1 DEF RingInv
  <2>1. /\ pc["main"] \notin Closed \cup {"write", "reinit"} => file = <<>> /\ writer_num = 0
        /\ pc["main"] \in Closed \cup {"write"} =>
             /\ Len(file) = writer_num - (buffer_num - Kept)
             /\ \A i \in 1 .. Len(file) : file[i] = recorded[buffer_num - Kept + i]
        /\ \A k \in Nat : buffer_num - MaxNum <= k /\ k < buffer_num =>
             \/ buffer[k % MaxNum] = recorded[k + 1]
             \/ k = buffer_num - MaxNum /\ pc["main"] \in {"step_count", "count"}
    BY DEF ClosedInv, RingInv
  <2> QED
    BY <1>1, <2>1 DEF RingInv
<1>3. pc'["main"] \in Closed /\ (Ring \/ Len(file) <= MaxFileSize) => writer_num = buffer_num
  BY DEF ClosedInv
<1> QED
  BY <1>1, <1>2, <1>3 DEF ClosedInv

\* What the steps need of the other invariants.
LEMMA Sizes ==
  ASSUME DataRecordAssumption, TypeOK, Inv
  PROVE  /\ MaxNum \in Nat \ {0} /\ MaxFileSize \in Nat
         /\ buffer_num \in Nat /\ writer_num \in Nat /\ writer_num <= buffer_num /\ buffer_num = Len(recorded)
         /\ file \in Seq(Row) /\ recorded \in Seq(Row) /\ Len(file) \in Nat
         /\ buffer \in [0 .. MaxNum - 1 -> Row]
         /\ Kept \in Nat /\ Kept <= MaxNum /\ Kept <= buffer_num
BY DEF DataRecordAssumption, TypeOK, Inv, Types, Counted, Kept

\* The rows are written one after the other.
LEMMA ClosedWhileWriting ==
  ASSUME DataRecordAssumption, TypeOK, Inv, ClosedInv, NEW p \in Proc, Write(p)
  PROVE  ClosedInv'
<1>1. /\ MaxNum \in Nat \ {0} /\ MaxFileSize \in Nat
      /\ buffer_num \in Nat /\ writer_num \in Nat /\ writer_num <= buffer_num /\ buffer_num = Len(recorded)
      /\ file \in Seq(Row) /\ recorded \in Seq(Row) /\ Len(file) \in Nat
      /\ buffer \in [0 .. MaxNum - 1 -> Row]
      /\ Kept \in Nat /\ Kept <= MaxNum /\ Kept <= buffer_num
  BY Sizes
<1>2. UNCHANGED <<buffer, buffer_num, recorded, buffer_type, back>> /\ Ring' = Ring /\ Kept' = Kept
  BY DEF Write, LockBuffer, WriteRow, UnlockBuffer, groupVars, optionVars, Ring, Kept
<1>3. pc[p] \in WriteStep /\ Closed \cap WriteStep = {} /\ "reinit" \notin WriteStep
  BY DEF Write, LockBuffer, WriteRow, UnlockBuffer, WriteStep, Closed
<1>4. Ring => p = "main" /\ back["main"] \in Closed /\ pc["writer"] \notin WriteStep
  BY <1>3 DEF ClosedInv, RingInv, Proc
<1>5. Ring => /\ pc["main"] \notin Closed \cup {"write", "reinit"} => file = <<>> /\ writer_num = 0
              /\ pc["main"] = "write" =>
                   /\ Len(file) = writer_num - (buffer_num - Kept)
                   /\ \A i \in 1 .. Len(file) : file[i] = recorded[buffer_num - Kept + i]
              /\ \A k \in Nat : buffer_num - MaxNum <= k /\ k < buffer_num =>
                   \/ buffer[k % MaxNum] = recorded[k + 1]
                   \/ k = buffer_num - MaxNum /\ pc["main"] \in {"step_count", "count"}
  BY DEF ClosedInv, RingInv
<1>6. CASE LockBuffer(p)
  <2>1. pc[p] = "lock" /\ pc' = [pc EXCEPT ![p] = "write"] /\ writer_num' = buffer_num - NumToWrite /\ file' = file
    BY <1>6 DEF LockBuffer, Goto
  <2>2. ASSUME Ring PROVE RingInv'
    <3>1. pc["main"] = "lock" /\ pc'["main"] = "write" /\ pc'["writer"] = pc["writer"]
      BY <1>4, <2>1, <2>2 DEF TypeOK, Proc
    <3>2. file = <<>> /\ writer_num = 0
      BY <1>5, <2>2, <3>1 DEF Closed
    <3>3. writer_num' = buffer_num - Kept /\ Len(file) = 0
      BY <1>1, <2>1, <3>2 DEF NumToWrite, Kept
    <3>4. Len(file) = writer_num' - (buffer_num - Kept) /\ \A i \in 1 .. Len(file) : file[i] = recorded[buffer_num - Kept + i]
      BY <1>1, <3>3
    <3>5. \A k \in Nat : buffer_num - MaxNum <= k /\ k < buffer_num => buffer[k % MaxNum] = recorded[k + 1]
      BY <1>5, <2>2, <3>1
    <3> QED
      BY <1>2, <1>4, <2>1, <2>2, <3>1, <3>4, <3>5 DEF RingInv
  <2>3. ASSUME pc'["main"] \in Closed, Ring \/ Len(file) <= MaxFileSize PROVE writer_num' = buffer_num
    <3>1. p = "writer" /\ pc["main"] \in Closed
      BY <2>1, <2>3 DEF TypeOK, Proc, Closed
    <3>2. writer_num = buffer_num
      BY <2>3, <3>1 DEF ClosedInv
    <3> QED
      BY <1>1, <2>1, <3>2 DEF NumToWrite
  <2> QED
    BY <1>2, <2>1, <2>2, <2>3 DEF ClosedInv, RingInv
<1>7. CASE WriteRow(p)
  <2> DEFINE row == buffer[writer_num % MaxNum]
  <2>1. /\ pc[p] = "write" /\ pc' = pc /\ writer_num' = writer_num + 1 /\ file' = Append(file, row)
        /\ writer_num < buffer_num
    <3>1. pc[p] = "write" /\ pc' = pc /\ writer_num' = writer_num + 1 /\ file' = Append(file, row)
          /\ writer_num # local_num[p]
      BY <1>7 DEF WriteRow
    <3>2. writer_num <= local_num[p] /\ local_num[p] <= buffer_num /\ local_num[p] \in Nat
      BY <3>1 DEF Inv, WriterHolds, Proc, TypeOK
    <3> QED
      BY <1>1, <3>1, <3>2
  <2>2. row \in Row
    BY <1>1, CellOfRow
  <2>3. ASSUME Ring PROVE RingInv'
    <3>1. pc["main"] = "write" /\ pc'["writer"] \notin WriteStep
      BY <1>4, <2>1, <2>3
    <3>2. /\ Len(file) = writer_num - (buffer_num - Kept)
          /\ \A i \in 1 .. Len(file) : file[i] = recorded[buffer_num - Kept + i]
          /\ \A k \in Nat : buffer_num - MaxNum <= k /\ k < buffer_num => buffer[k % MaxNum] = recorded[k + 1]
      BY <1>5, <2>3, <3>1
    <3>3. row = recorded[writer_num + 1]
      <4>1. buffer_num - MaxNum <= writer_num
        BY <1>1, <3>2
      <4> QED
        BY <1>1, <2>1, <3>2, <4>1
    <3> HIDE DEF row
    <3>4. Len(file') = Len(file) + 1 /\ file'[Len(file) + 1] = row /\ \A i \in 1 .. Len(file) : file'[i] = file[i]
      BY <1>1, <2>1, <2>2
    <3>5. Len(file') = writer_num' - (buffer_num - Kept)
      BY <1>1, <2>1, <3>2, <3>4
    <3>6. ASSUME NEW i \in 1 .. Len(file') PROVE file'[i] = recorded[buffer_num - Kept + i]
      <4>1. CASE i = Len(file) + 1
        <5>1. buffer_num - Kept + i = writer_num + 1
          BY <1>1, <3>2, <4>1
        <5> QED
          BY <3>3, <3>4, <4>1, <5>1
      <4>2. CASE i \in 1 .. Len(file)
        BY <3>2, <3>4, <4>2
      <4>3. i \in 1 .. Len(file) \/ i = Len(file) + 1
        BY <1>1, <3>4
      <4> QED
        BY <4>1, <4>2, <4>3
    <3> QED
      BY <1>2, <1>4, <2>1, <2>3, <3>1, <3>2, <3>5, <3>6 DEF RingInv, Closed
  <2>4. ASSUME pc'["main"] \in Closed, Ring \/ Len(file') <= MaxFileSize PROVE writer_num' = buffer_num
    <3>1. pc["main"] \in Closed
      BY <2>1, <2>4
    <3>2. Ring \/ Len(file) <= MaxFileSize
      BY <1>1, <2>1, <2>2, <2>4
    <3>3. writer_num = buffer_num
      BY <3>1, <3>2 DEF ClosedInv
    <3> QED
      BY <1>1, <2>1, <3>3
  <2> QED
    BY <1>2, <2>3, <2>4 DEF ClosedInv, RingInv
<1>8. CASE UnlockBuffer(p)
  <2>1. pc[p] = "write" /\ pc' = [pc EXCEPT ![p] = back[p]] /\ writer_num = local_num[p]
        /\ UNCHANGED <<writer_num, file>>
    BY <1>8 DEF UnlockBuffer, Goto
  <2>2. ASSUME Ring PROVE RingInv'
    <3>1. pc["main"] = "write" /\ pc'["main"] = back["main"] /\ pc'["writer"] = pc["writer"]
      BY <1>4, <2>1, <2>2 DEF TypeOK, Proc
    <3>2. pc'["main"] \in Closed /\ pc'["main"] \notin WriteStep
      BY <1>3, <1>4, <2>2, <3>1
    <3> QED
      BY <1>2, <1>4, <1>5, <2>1, <2>2, <3>1, <3>2 DEF RingInv
  <2>3. ASSUME pc'["main"] \in Closed, Ring \/ Len(file) <= MaxFileSize PROVE writer_num = buffer_num
    <3>1. CASE p = "main"
      BY <2>1, <3>1 DEF Inv, MainKnows
    <3>2. CASE p = "writer"
      <4>1. pc["main"] \in Closed
        BY <2>1, <2>3, <3>2 DEF TypeOK, Proc
      <4> QED
        BY <2>3, <4>1 DEF ClosedInv
    <3> QED
      BY <3>1, <3>2 DEF Proc
  <2> QED
    BY <1>2, <2>1, <2>2, <2>3 DEF ClosedInv, RingInv
<1> QED
  BY <1>6, <1>7, <1>8 DEF Write

\* A row of a ring takes the cell of the oldest one.
LEMMA ClosedWhilePutting ==
  ASSUME DataRecordAssumption, TypeOK, Inv, ClosedInv, PutOld \/ PutNew \/ Count
  PROVE  ClosedInv'
<1>1. /\ MaxNum \in Nat \ {0} /\ buffer_num \in Nat /\ buffer_num = Len(recorded)
      /\ recorded \in Seq(Row) /\ buffer \in [0 .. MaxNum - 1 -> Row]
  BY Sizes
<1>2. /\ UNCHANGED <<writer_num, file, buffer_type>> /\ Ring' = Ring /\ pc'["writer"] = pc["writer"]
      /\ pc["main"] \in {"step", "fill", "step_count", "count"}
      /\ pc'["main"] \in {"step_count", "fill", "count", "advance"}
  BY DEF PutOld, PutNew, Count, writeVars, optionVars, Ring, Goto, TypeOK, Proc
<1>3. Ring => /\ pc'["writer"] \notin WriteStep /\ file = <<>> /\ writer_num = 0
              /\ \A k \in Nat : buffer_num - MaxNum <= k /\ k < buffer_num =>
                   \/ buffer[k % MaxNum] = recorded[k + 1]
                   \/ k = buffer_num - MaxNum /\ pc["main"] \in {"step_count", "count"}
  BY <1>2 DEF ClosedInv, RingInv, Closed
<1>4. buffer_num % MaxNum \in 0 .. MaxNum - 1
  BY <1>1, CellOfRow
<1>5. ASSUME Ring, NEW k \in Nat, buffer_num' - MaxNum <= k, k < buffer_num'
      PROVE  \/ buffer'[k % MaxNum] = recorded'[k + 1]
             \/ k = buffer_num' - MaxNum /\ pc'["main"] \in {"step_count", "count"}
  <2>1. CASE PutOld \/ PutNew
    <3>1. /\ UNCHANGED <<buffer_num, recorded>> /\ pc'["main"] \in {"step_count", "count"}
          /\ pc["main"] \notin {"step_count", "count"}
          /\ \A c \in 0 .. MaxNum - 1 : c # buffer_num % MaxNum => buffer'[c] = buffer[c]
      BY <1>1, <1>4, <2>1 DEF PutOld, PutNew, Goto, TypeOK, Proc
    <3>2. CASE k = buffer_num - MaxNum
      BY <3>1, <3>2
    <3>3. CASE k # buffer_num - MaxNum
      <4>1. buffer_num - k < MaxNum /\ k < buffer_num
        BY <1>1, <1>5, <3>1, <3>3
      <4>2. k % MaxNum # buffer_num % MaxNum /\ k % MaxNum \in 0 .. MaxNum - 1
        BY <1>1, <4>1, DifferentCells, CellOfRow
      <4>3. buffer[k % MaxNum] = recorded[k + 1]
        BY <1>3, <1>5, <3>1
      <4> QED
        BY <3>1, <4>2, <4>3
    <3> QED
      BY <3>2, <3>3
  <2>2. CASE Count
    <3> DEFINE row == buffer[buffer_num % MaxNum]
    <3>1. UNCHANGED buffer /\ recorded' = Append(recorded, row) /\ buffer_num' = buffer_num + 1
      BY <2>2 DEF Count
    <3>2. row \in Row
      BY <1>1, <1>4
    <3>3. recorded'[buffer_num + 1] = row /\ \A i \in 1 .. buffer_num : recorded'[i] = recorded[i]
      BY <1>1, <3>1, <3>2, OneMoreRow
    <3>4. CASE k = buffer_num
      BY <3>1, <3>3, <3>4
    <3>5. CASE k < buffer_num
      <4>1. buffer_num - MaxNum <= k /\ k # buffer_num - MaxNum /\ k + 1 \in 1 .. buffer_num
        BY <1>1, <1>5, <3>1, <3>5
      <4>2. buffer[k % MaxNum] = recorded[k + 1]
        BY <1>3, <1>5, <3>5, <4>1
      <4> QED
        BY <3>1, <3>3, <4>1, <4>2
    <3> QED
      BY <1>1, <1>5, <3>1, <3>4, <3>5
  <2> QED
    BY <2>1, <2>2
<1>6. RingInv'
  BY <1>2, <1>3, <1>5 DEF RingInv, Closed, WriteStep
<1> QED
  BY <1>2, <1>6 DEF ClosedInv, Closed

\* The file is open at the start.
LEMMA ClosedInit == ASSUME DataRecordAssumption, Init PROVE ClosedInv
<1>1. pc["main"] = "model" /\ pc["writer"] = "wait" /\ file = <<>> /\ writer_num = 0 /\ buffer_num = 0
  BY DEF Init, Proc
<1>2. RingInv
  BY <1>1 DEF RingInv, Closed, WriteStep
<1> QED
  BY <1>1, <1>2 DEF ClosedInv, Closed

\* Every step keeps the promise of the closed file: shutdown writes what waits before it closes.
LEMMA ClosedStep ==
  ASSUME DataRecordAssumption, TypeOK, Inv, ClosedInv, [Next]_vars PROVE ClosedInv'
<1>0. /\ Len(file) \in Nat /\ MaxFileSize \in Nat
      /\ Ring => pc["writer"] \notin WriteStep /\ (pc["main"] \in WriteStep => back["main"] \in Closed)
      /\ Ring /\ pc["main"] \notin Closed \cup {"write", "reinit"} => file = <<>>
  BY Sizes DEF ClosedInv, RingInv
<1>1. CASE \E p \in Proc : Write(p)
  BY <1>1, ClosedWhileWriting
<1>2. CASE PutOld \/ PutNew \/ Count
  BY <1>2, ClosedWhilePutting
<1>3. CASE Restart
  <2>1. /\ pc'["main"] = "tic" /\ pc'["writer"] = pc["writer"] /\ file' = <<>> /\ writer_num' = 0 /\ buffer_num' = 0
        /\ buffer_type' = buffer_type
    BY <1>3 DEF Restart, Goto, TypeOK, Proc, optionVars
  <2>2. Ring' => pc'["writer"] \notin WriteStep
    BY <1>0, <2>1 DEF Ring
  <2> QED
    BY <2>1, <2>2 DEF ClosedInv, RingInv, Closed, WriteStep
<1>4. CASE Pass \/ Wait \/ Spurious
  <2>1. UNCHANGED <<buffer, buffer_num, recorded, writer_num, file, buffer_type>> /\ pc'["main"] = pc["main"]
        /\ back'["main"] = back["main"]
    BY <1>4 DEF Pass, Wait, Spurious, WriteData, Goto, groupVars, writeVars, optionVars, TypeOK, Proc
  <2>2. Ring => pc'["writer"] \notin WriteStep
    BY <1>4 DEF Pass, Wait, Spurious, WriteData, Goto, Ring, TypeOK, Proc, WriteStep
  <2> QED
    BY <1>0, <2>1, <2>2, SameFile
<1>5. CASE PreloadCheckpoint \/ RemoveGroup \/ Stop
  <2>1. PICK from \in {"tic", "stop"}, next \in {"close", "removed", "done"} : ShutdownGroup(from, next)
    BY <1>5 DEF PreloadCheckpoint, RemoveGroup, Stop
  <2>2. /\ UNCHANGED <<buffer, buffer_num, recorded, writer_num, file, buffer_type>> /\ pc["main"] = from
        /\ pc'["main"] = (IF Len(file) <= MaxFileSize THEN "lock" ELSE next) /\ back'["main"] = next
        /\ pc'["writer"] = pc["writer"]
    BY <2>1 DEF ShutdownGroup, WriteData, Goto, groupVars, writeVars, optionVars, TypeOK, Proc
  <2>3. Ring => Len(file) <= MaxFileSize
    <3>1. Ring => file = <<>>
      BY <1>0, <2>2 DEF Closed
    <3> QED
      BY <1>0, <3>1
  <2> QED
    BY <1>0, <2>2, <2>3, SameFile DEF Closed
<1>6. CASE ForceWrite \/ EndOfFrame
  <2>1. /\ UNCHANGED <<buffer, buffer_num, recorded, writer_num, file, buffer_type>> /\ pc["main"] \in {"force", "frame"}
        /\ pc'["main"] \in {"lock", "signal", "step", "fill"} /\ pc'["writer"] = pc["writer"]
    BY <1>6 DEF ForceWrite, EndOfFrame, WriteData, FirstRow, Goto, groupVars, writeVars, optionVars, TypeOK, Proc
  <2>2. Ring => pc'["main"] # "lock"
    <3>1. pc["main"] = "force" => ~Ring
      BY DEF Inv, MainKnows, Ring
    <3>2. EndOfFrame /\ Ring => pc'["main"] = "signal"
      BY DEF EndOfFrame, WriteData, Goto, Ring, TypeOK, Proc
    <3>3. ForceWrite => pc["main"] = "force"
      BY DEF ForceWrite, WriteData
    <3> QED
      BY <1>6, <3>1, <3>2, <3>3
  <2> QED
    BY <1>0, <2>1, <2>2, SameFile DEF Closed, WriteStep
<1>7. CASE DataRecord \/ NotDue \/ Tic \/ Model \/ AdvanceLogTics
  <2>1. /\ UNCHANGED <<buffer, buffer_num, recorded, writer_num, file, buffer_type>>
        /\ pc["main"] \in {"due", "tic", "model", "advance"}
        /\ pc'["main"] \in {"advance", "force", "step", "fill", "frame", "tic", "model", "due"}
        /\ pc'["writer"] = pc["writer"]
    BY <1>7 DEF DataRecord, NotDue, Tic, Model, AdvanceLogTics, FirstRow, Goto, groupVars, writeVars, optionVars,
                TypeOK, Proc
  <2> QED
    BY <1>0, <2>1, SameFile DEF Closed, WriteStep
<1>8. CASE SignalThread \/ ShutdownDispatcher
  <2>1. /\ UNCHANGED <<buffer, buffer_num, recorded, writer_num, file, buffer_type>>
        /\ \/ pc["main"] \in {"signal", "tic"} /\ pc'["main"] \in {"tic", "stop"}
           \/ pc["main"] = "removed" /\ pc'["main"] = "done"
        /\ pc'["writer"] \in {pc["writer"], "woken"}
    BY <1>8 DEF SignalThread, ShutdownDispatcher, WakeWriter, Goto, groupVars, writeVars, optionVars, TypeOK, Proc
  <2> QED
    BY <1>0, <2>1, SameFile DEF Closed, WriteStep
<1>9. CASE ClearGroups
  <2>1. /\ UNCHANGED <<buffer, buffer_num, recorded, writer_num, file, buffer_type>>
        /\ pc["main"] = "close" /\ pc'["main"] = "reinit" /\ pc'["writer"] = pc["writer"]
    BY <1>9 DEF ClearGroups, Goto, groupVars, writeVars, optionVars, TypeOK, Proc
  <2> QED
    BY <1>0, <2>1, SameFile DEF Closed, WriteStep
<1>10. CASE Toggle \/ UNCHANGED vars
  <2>1. UNCHANGED <<pc, back, buffer, buffer_num, recorded, writer_num, file, buffer_type>>
    BY <1>10 DEF Toggle, vars, groupVars, writeVars, optionVars
  <2> QED
    BY <1>0, <2>1, SameFile
<1> QED
  BY <1>1, <1>2, <1>3, <1>4, <1>5, <1>6, <1>7, <1>8, <1>9, <1>10 DEF Next, Main, Writer, RecordJob, Proc

\* A sequence that agrees with the end of another is that end.
LEMMA EndOf ==
  ASSUME NEW s \in Seq(Row), NEW f \in Seq(Row), NEW k \in 0 .. Len(s), Len(f) = k,
         \A i \in 1 .. k : f[i] = s[Len(s) - k + i]
  PROVE  f = SubSeq(s, Len(s) - k + 1, Len(s))
<1> DEFINE m == Len(s) - k + 1
           q == SubSeq(s, m, Len(s))
<1>1. Len(s) \in Nat /\ m \in 1 .. Len(s) + 1 /\ m \in Nat /\ Len(s) \in m - 1 .. Len(s) /\ k \in Nat
  OBVIOUS
<1> HIDE DEF m
<1>2. q \in Seq(Row) /\ Len(q) = Len(s) - m + 1 /\ \A i \in 1 .. Len(s) - m + 1 : q[i] = s[m + i - 1]
  BY <1>1, SubSeqProperties
<1> USE DEF m
<1>3. Len(s) - m + 1 = k /\ \A i \in 1 .. k : m + i - 1 = Len(s) - k + i
  BY <1>1
<1> HIDE DEF q, m
<1>4. Len(f) = Len(q) /\ \A i \in 1 .. Len(f) : f[i] = q[i]
  BY <1>2, <1>3
<1>5. f = q
  BY <1>2, <1>4, SeqEqual
<1> QED
  BY <1>5 DEF q, m

\* When the group is closed, by a reload, its removal or the end of the run, all rows that were
\* recorded are in the file, of a ring the last max_num, unless the file is full: also those of a group
\* that was disabled.  The writer thread may be anywhere in a pass when the file is closed, but it
\* has given the buffer_mutex back when a reload renews the group (~Overtakes).
THEOREM ClosedFileIsComplete ==
  ASSUME MaxNum > 1, ~ClientToggles, ~Overtakes PROVE Spec => []AllWritten
<1>1. Init => TypeOK /\ Inv /\ ClosedInv
  BY DataRecordAssumption, TypeInit, InvInit, ClosedInit
<1>2. TypeOK /\ Inv /\ ClosedInv /\ [Next]_vars => TypeOK' /\ Inv' /\ ClosedInv'
  BY DataRecordAssumption, TypeStep, InvNext, ClosedStep
<1>3. TypeOK /\ Inv /\ ClosedInv => AllWritten
  <2> SUFFICES ASSUME TypeOK, Inv, ClosedInv, pc["main"] \in Closed, Len(file) <= MaxFileSize
               PROVE  file = SubSeq(recorded,
                                    Len(recorded) - (IF Ring /\ Len(recorded) > MaxNum THEN MaxNum ELSE Len(recorded)) + 1,
                                    Len(recorded))
    BY DEF AllWritten, Closed, Ring
  <2> DEFINE k == IF Ring /\ Len(recorded) > MaxNum THEN MaxNum ELSE Len(recorded)
             f == file
             s == recorded
  <2>1. /\ MaxNum \in Nat \ {0} /\ MaxFileSize \in Nat
        /\ buffer_num \in Nat /\ buffer_num = Len(s)
        /\ f \in Seq(Row) /\ s \in Seq(Row) /\ Len(f) \in Nat
    BY DataRecordAssumption, Sizes
  <2>2. writer_num = buffer_num
    BY DEF ClosedInv
  <2>3. Len(f) = k /\ \A i \in 1 .. k : f[i] = s[Len(s) - k + i]
    <3>1. CASE Ring
      <4>1. k = Kept
        BY <2>1, <3>1 DEF Kept
      <4>2. Len(f) = writer_num - (buffer_num - Kept) /\ \A i \in 1 .. Len(f) : f[i] = s[buffer_num - Kept + i]
        BY <3>1 DEF ClosedInv, RingInv
      <4>3. Kept \in Nat
        BY <2>1 DEF Kept
      <4>4. Len(f) = Kept
        BY <2>1, <2>2, <4>2, <4>3
      <4> QED
        BY <2>1, <4>1, <4>2, <4>4
    <3>2. CASE ~Ring
      <4>1. k = Len(s) /\ Len(f) = Len(s)
        BY <2>1, <2>2, <3>2 DEF Inv, InStep, Orderly, Ring
      <4>2. \A i \in 1 .. Len(f) : i <= MaxFileSize + 1 => f[i] = s[i]
        BY <3>2 DEF Inv, RowsInOrder, Ring
      <4>3. ASSUME NEW i \in 1 .. k PROVE f[i] = s[Len(s) - k + i]
        <5>1. i <= MaxFileSize + 1 /\ i \in 1 .. Len(f) /\ Len(s) - k + i = i
          BY <2>1, <4>1
        <5> QED
          BY <4>2, <5>1
      <4> QED
        BY <4>1, <4>3
    <3> QED
      BY <3>1, <3>2
  <2>4. k \in 0 .. Len(s)
    BY <2>1
  <2> HIDE DEF k, f, s
  <2>5. f = SubSeq(s, Len(s) - k + 1, Len(s))
    BY <2>1, <2>3, <2>4, EndOf
  <2> QED
    BY <2>5 DEF f, s, k
<1> QED
  BY <1>1, <1>2, <1>3, PTL DEF Spec
==============================================================================
