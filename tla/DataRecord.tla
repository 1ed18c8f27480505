------------------------------ MODULE DataRecord ------------------------------
(***************************************************************************)
(* A data record group: the job that samples the simulation into a buffer  *)
(* of max_num rows, and the two who empty the buffer into the file, the    *)
(* main thread and the writer thread of the dispatcher.                    *)
(*                                                                         *)
(* A row is the time and the value of the one recorded variable, which is  *)
(* the change variable too.  A row of the file is one byte of              *)
(* total_bytes_written.  The job runs in the main thread, its default.     *)
(***************************************************************************)
EXTENDS Integers, Sequences

CONSTANTS
  MaxNum,        \* max_num
  MaxFileSize,   \* max_file_size
  Freqs,         \* the recording frequencies to be looked at,
  BufferTypes,   \* and the ways to buffer
  Rates,         \* the cycles of the group, in tics
  Frame,         \* the software frame, in tics
  Value,         \* the values of the variable; 0 is what calloc leaves
  ClientToggles, \* may a client, in its own thread, call enable() and disable()?
  Overtakes,     \* may a reload renew the group while the writer thread holds its buffer_mutex?
  MaxTime,       \* bound: the length of a run
  MaxReloads     \* bound: the number of checkpoint reloads

ASSUME DataRecordAssumption ==
  /\ MaxNum \in Nat \ {0} /\ MaxFileSize \in Nat
  /\ Freqs \subseteq {"DR_Always", "DR_Changes", "DR_Changes_Step"}
  /\ BufferTypes \subseteq {"DR_Buffer", "DR_No_Buffer", "DR_Ring_Buffer"}
  /\ Rates \subseteq Nat \ {0} /\ Rates # {}
  /\ Frame \in Nat \ {0} /\ 0 \in Value /\ ClientToggles \in BOOLEAN /\ Overtakes \in BOOLEAN
  /\ MaxTime \in Nat /\ MaxReloads \in Nat

VARIABLES
  pc,            \* the places of "main" and of the "writer"
  back,          \* where each goes on after write_data
  local_num,     \* local_buffer_num of the write_data of each
  buffer_mutex, dr_go_mutex,   \* who holds them, "none" if nobody
  cancelled,
  in_groups,     \* is the group in the list of the dispatcher?
  freq, buffer_type,           \* set before the run
  record,
  buffer,        \* the cells, of 0 .. MaxNum - 1
  buffer_num, writer_num,
  last_value,    \* of the recorded variable
  change_value,  \* the copy of the change variable
  value,         \* what the simulation has there now
  time, next_cycle, next_tics,
  file,          \* the rows on the disk
  recorded,      \* ghost: the rows that were put into the buffer
  called,        \* ghost: the times at which the job ran
  reloads        \* ghost: the number of reloads

groupVars  == <<buffer, buffer_num, last_value, change_value, recorded>>
writeVars  == <<local_num, buffer_mutex, writer_num, file>>
threadVars == <<dr_go_mutex, cancelled, in_groups>>
optionVars == <<freq, buffer_type>>
clockVars  == <<time, next_cycle, next_tics, called, reloads>>
vars == <<pc, back, groupVars, writeVars, threadVars, optionVars, record, value, clockVars>>

Proc == {"main", "writer"}
Row  == [t : Nat, v : Value]

MainStep   == {"model", "due", "force", "step", "step_count", "fill", "count", "advance", "frame", "signal",
               "tic", "close", "reinit", "removed", "stop", "shutdown", "done"}
WriterStep == {"wait", "woken", "rest", "ended"}
WriteStep  == {"lock", "write"}

\* Of the variables.
TypeOK ==
  /\ pc \in [Proc -> MainStep \cup WriterStep \cup WriteStep]
  /\ pc["main"] \in MainStep \cup WriteStep /\ pc["writer"] \in WriterStep \cup WriteStep
  /\ back \in [Proc -> MainStep \cup WriterStep]
  /\ back["main"] \in MainStep /\ back["writer"] = "rest"
  /\ local_num \in [Proc -> Nat]
  /\ buffer_mutex \in Proc \cup {"none"} /\ dr_go_mutex \in {"writer", "none"}
  /\ cancelled \in BOOLEAN /\ in_groups \in BOOLEAN
  /\ freq \in Freqs /\ buffer_type \in BufferTypes /\ record \in BOOLEAN
  /\ buffer \in [0 .. MaxNum - 1 -> Row]
  /\ buffer_num \in Nat /\ writer_num \in Int
  /\ last_value \in Value /\ change_value \in Value /\ value \in Value
  /\ time \in 0 .. MaxTime /\ next_cycle \in [Rates -> Nat] /\ next_tics \in Nat
  /\ file \in Seq(Row) /\ recorded \in Seq(Row)
  /\ called \subseteq Nat /\ reloads \in 0 .. MaxReloads

\* After the initialization jobs: init() of the group and of the dispatcher.
Init ==
  /\ pc = [p \in Proc |-> IF p = "main" THEN "model" ELSE "wait"]
  /\ back = [p \in Proc |-> IF p = "main" THEN "model" ELSE "rest"]
  /\ local_num = [p \in Proc |-> 0]
  /\ buffer_mutex = "none" /\ dr_go_mutex = "none" /\ cancelled = FALSE /\ in_groups = TRUE
  /\ freq \in Freqs /\ buffer_type \in BufferTypes /\ record = TRUE
  /\ buffer = [c \in 0 .. MaxNum - 1 |-> [t |-> 0, v |-> 0]]
  /\ buffer_num = 0 /\ writer_num = 0 /\ last_value = 0
  /\ value \in Value /\ change_value = value
  /\ time = 0 /\ next_cycle = [r \in Rates |-> 0] /\ next_tics = 0
  /\ file = <<>> /\ recorded = <<>> /\ called = {} /\ reloads = 0

Goto(p, s) == pc' = [pc EXCEPT ![p] = s]

--------------------------------------------------------------------------------
(***************************************************************************)
(* write_data, in either thread.                                           *)
(***************************************************************************)
\* The call: what it tests before it takes the mutex.  total_bytes_written is Len(file).
WriteData(p, from, must_write, on, next) ==
  /\ pc[p] = from
  /\ Goto(p, IF on /\ (buffer_type = "DR_No_Buffer" \/ must_write) /\ Len(file) <= MaxFileSize
             THEN "lock" ELSE next)
  /\ back' = [back EXCEPT ![p] = next]

\* The counters are unsigned: below zero they are more than MaxNum.  buffer_num is read once, and
\* writer_num is left to the owner of the mutex, so that both are read in one step; only init of a
\* reload does not ask for the mutex.  Rows that were overwritten are skipped.
NumToWrite ==
  IF buffer_num - writer_num \in 0 .. MaxNum THEN buffer_num - writer_num ELSE MaxNum

LockBuffer(p) ==
  /\ pc[p] = "lock" /\ buffer_mutex = "none"
  /\ buffer_mutex' = p /\ Goto(p, "write")
  /\ local_num' = [local_num EXCEPT ![p] = buffer_num]
  /\ writer_num' = buffer_num - NumToWrite
  /\ UNCHANGED <<back, groupVars, file, threadVars, optionVars, record, value, clockVars>>

WriteRow(p) ==
  /\ pc[p] = "write" /\ writer_num # local_num[p]
  /\ file' = Append(file, buffer[writer_num % MaxNum])
  /\ writer_num' = writer_num + 1
  /\ UNCHANGED <<pc, back, groupVars, local_num, buffer_mutex, threadVars, optionVars, record,
                 value, clockVars>>

UnlockForgotten(p) ==
  /\ pc[p] = "write" /\ writer_num = local_num[p]
  /\ Goto(p, back[p])
  /\ UNCHANGED <<back, groupVars, writeVars, threadVars, optionVars, record, value, clockVars>>
UnlockBuffer(p) ==
  /\ pc[p] = "write" /\ writer_num = local_num[p]
  /\ buffer_mutex' = "none" /\ Goto(p, back[p])
  /\ UNCHANGED <<back, groupVars, local_num, writer_num, file, threadVars, optionVars, record,
                 value, clockVars>>

Write(p) == LockBuffer(p) \/ WriteRow(p) \/ UnlockBuffer(p)

--------------------------------------------------------------------------------
(***************************************************************************)
(* data_record, in the main thread.                                        *)
(***************************************************************************)
Changed == freq # "DR_Always" /\ value # change_value

\* Will two rows hardly fit?  The number of rows is unsigned: for max_num = 1 the limit is 2^32 - 1.
FullAtEnd == buffer_num - writer_num >= MaxNum
NearlyFull == MaxNum > 1 /\ buffer_num - writer_num \notin 0 .. MaxNum - 3

FirstRow == IF freq = "DR_Changes_Step" THEN "step" ELSE "fill"

\* The test of record and the comparison with the change variable.
DataRecordComparesFirst ==
  /\ pc["main"] = "due"
  /\ called' = called \cup {time}
  /\ change_value' = IF Changed THEN value ELSE change_value
  /\ Goto("main",
          IF ~record \/ ~(freq = "DR_Always" \/ buffer_num = 0 \/ Changed) THEN "advance"
          ELSE IF buffer_type # "DR_Ring_Buffer" /\ NearlyFull THEN "force"
          ELSE FirstRow)
  /\ UNCHANGED <<back, buffer, buffer_num, last_value, recorded, writeVars, threadVars, optionVars,
                 record, value, time, next_cycle, next_tics, reloads>>
DataRecord ==
  /\ pc["main"] = "due"
  /\ called' = called \cup {time}
  /\ change_value' = IF record /\ Changed THEN value ELSE change_value
  /\ Goto("main",
          IF ~record \/ ~(freq = "DR_Always" \/ buffer_num = 0 \/ Changed) THEN "advance"
          ELSE IF buffer_type # "DR_Ring_Buffer" /\ NearlyFull THEN "force"
          ELSE FirstRow)
  /\ UNCHANGED <<back, buffer, buffer_num, last_value, recorded, writeVars, threadVars, optionVars,
                 record, value, time, next_cycle, next_tics, reloads>>

ForceWrite ==
  /\ WriteData("main", "force", TRUE, record, FirstRow)
  /\ UNCHANGED <<groupVars, writeVars, threadVars, optionVars, record, value, clockVars>>

\* A row is put into the buffer and then counted: the old value at the time of now, ...
PutOld ==
  /\ pc["main"] = "step" /\ Goto("main", "step_count")
  /\ buffer' = [buffer EXCEPT ![buffer_num % MaxNum] = [t |-> time, v |-> last_value]]
  /\ UNCHANGED <<back, buffer_num, last_value, change_value, recorded, writeVars, threadVars,
                 optionVars, record, value, clockVars>>

\* ... and the new one.
PutNew ==
  /\ pc["main"] = "fill" /\ Goto("main", "count")
  /\ buffer' = [buffer EXCEPT ![buffer_num % MaxNum] = [t |-> time, v |-> value]]
  /\ last_value' = value
  /\ UNCHANGED <<back, buffer_num, change_value, recorded, writeVars, threadVars, optionVars,
                 record, value, clockVars>>

Count ==
  /\ \/ pc["main"] = "step_count" /\ Goto("main", "fill")
     \/ pc["main"] = "count" /\ Goto("main", "advance")
  /\ recorded' = Append(recorded, buffer[buffer_num % MaxNum])
  /\ buffer_num' = buffer_num + 1
  /\ UNCHANGED <<back, buffer, last_value, change_value, writeVars, threadVars, optionVars,
                 record, value, clockVars>>

\* advance_log_tics_given_curr_tic: the first multiple of a rate after now.
AdvancedOnce(r) == next_cycle[r] + (IF next_cycle[r] = next_tics THEN r ELSE 0)
Advanced(r) ==
  LET late == time - next_cycle[r] IN
  IF late < 0 THEN next_cycle[r] ELSE next_cycle[r] + r * ((late \div r) + 1)

AdvanceLogTics ==
  /\ pc["main"] = "advance" /\ Goto("main", "due")
  /\ next_cycle' = [r \in Rates |-> Advanced(r)]
  /\ next_tics' = CHOOSE n \in {next_cycle'[r] : r \in Rates} : \A r \in Rates : n <= next_cycle'[r]
  /\ UNCHANGED <<back, groupVars, writeVars, threadVars, optionVars, record, value, time, called,
                 reloads>>

--------------------------------------------------------------------------------
(***************************************************************************)
(* The main thread from tic to tic.                                        *)
(***************************************************************************)
\* Jobs of the model change the variable.
Model ==
  /\ pc["main"] = "model" /\ Goto("main", "due")
  /\ value' \in Value
  /\ UNCHANGED <<back, groupVars, writeVars, threadVars, optionVars, record, clockVars>>

\* The job is called when it is due; dr_record_now_group may call it at another time too.
RecordJob == time \notin called /\ DataRecord

NotDue ==
  /\ pc["main"] = "due" /\ next_tics # time
  /\ Goto("main", IF (time + 1) % Frame = 0 THEN "frame" ELSE "tic")
  /\ UNCHANGED <<back, groupVars, writeVars, threadVars, optionVars, record, value, clockVars>>

\* The end_of_frame jobs: write_data(false) of the group and signal_thread of the dispatcher.
EndOfFrame ==
  /\ WriteData("main", "frame", FALSE, record, "signal")
  /\ UNCHANGED <<groupVars, writeVars, threadVars, optionVars, record, value, clockVars>>

WakeWriter(main) ==
  pc' = [pc EXCEPT !["main"] = main, !["writer"] = IF @ = "wait" THEN "woken" ELSE @]

SignalThread ==
  /\ pc["main"] = "signal"
  /\ IF dr_go_mutex = "none" THEN WakeWriter("tic") ELSE Goto("main", "tic")
  /\ UNCHANGED <<back, groupVars, writeVars, threadVars, optionVars, record, value, clockVars>>

Tic ==
  /\ pc["main"] = "tic" /\ time < MaxTime /\ Goto("main", "model")
  /\ time' = time + 1
  /\ UNCHANGED <<back, groupVars, writeVars, threadVars, optionVars, record, value, next_cycle,
                 next_tics, called, reloads>>

\* enable() and disable(), called by the model, the input file or a client.
Toggle ==
  /\ pc["main"] = "model" \/ (ClientToggles /\ pc["main"] # "done")
  /\ record' = ~record
  /\ UNCHANGED <<pc, back, groupVars, writeVars, threadVars, optionVars, value, clockVars>>

--------------------------------------------------------------------------------
(***************************************************************************)
(* Reload, removal and shutdown.                                           *)
(***************************************************************************)
\* shutdown() of the group: all that was recorded is written even when it is disabled.
ShutdownAsIs(from, next) ==
  /\ WriteData("main", from, TRUE, record, next)
  /\ UNCHANGED <<groupVars, writeVars, optionVars, record, value>>
ShutdownGroup(from, next) ==
  /\ record' = TRUE
  /\ WriteData("main", from, TRUE, TRUE, next)
  /\ UNCHANGED <<groupVars, writeVars, optionVars, value>>

\* preload_checkpoint of the dispatcher, ...
PreloadCheckpoint ==
  /\ reloads < MaxReloads /\ reloads' = reloads + 1
  /\ ShutdownGroup("tic", "close")
  /\ UNCHANGED <<threadVars, time, next_cycle, next_tics, called>>

ClearGroups ==
  /\ pc["main"] = "close" /\ Goto("main", "reinit")
  /\ in_groups' = FALSE
  /\ UNCHANGED <<back, groupVars, writeVars, dr_go_mutex, cancelled, optionVars, record, value,
                 clockVars>>

\* ... and, when the checkpoint is loaded, restart of the group: init with new files, buffers and
\* counters and a new buffer_mutex, whether or not the writer thread holds the old one.
Restart ==
  /\ pc["main"] = "reinit" /\ Goto("main", "tic")
  /\ Overtakes \/ pc["writer"] # "write"
  /\ in_groups' = TRUE
  /\ record' \in BOOLEAN
  /\ buffer' = [c \in 0 .. MaxNum - 1 |-> [t |-> 0, v |-> 0]]
  /\ buffer_num' = 0 /\ writer_num' = 0 /\ last_value' = 0
  /\ buffer_mutex' = "none"
  /\ value' \in Value /\ change_value' = value'
  /\ file' = <<>> /\ recorded' = <<>>
  /\ UNCHANGED <<back, local_num, dr_go_mutex, cancelled, optionVars, clockVars>>

\* remove_group: not while the writer thread goes over the groups.
RemoveGroup ==
  /\ dr_go_mutex = "none" /\ in_groups' = FALSE
  /\ ShutdownGroup("tic", "removed") /\ UNCHANGED <<dr_go_mutex, cancelled, clockVars>>

\* The shutdown jobs: that of the dispatcher, which ends the writer thread, then that of the group.
ShutdownDispatcher ==
  /\ dr_go_mutex = "none" /\ cancelled' = TRUE
  /\ \/ pc["main"] = "tic" /\ WakeWriter("stop")
     \/ pc["main"] = "removed" /\ WakeWriter("done")
  /\ UNCHANGED <<back, groupVars, writeVars, dr_go_mutex, in_groups, optionVars, record, value,
                 clockVars>>

Stop == ShutdownGroup("stop", "done") /\ UNCHANGED <<threadVars, clockVars>>

--------------------------------------------------------------------------------
(***************************************************************************)
(* The writer thread.                                                      *)
(***************************************************************************)
\* pthread_cond_wait may return without a signal.
Spurious ==
  /\ pc["writer"] = "wait" /\ Goto("writer", "woken")
  /\ UNCHANGED <<back, groupVars, writeVars, threadVars, optionVars, record, value, clockVars>>

\* It has dr_go_mutex again: the end, or a pass over the groups.
Pass ==
  /\ pc["writer"] = "woken" /\ dr_go_mutex = "none"
  /\ IF cancelled THEN Goto("writer", "ended") /\ UNCHANGED <<back, dr_go_mutex>>
     ELSE /\ dr_go_mutex' = "writer"
          /\ WriteData("writer", "woken", in_groups /\ buffer_type = "DR_Buffer", record, "rest")
  /\ UNCHANGED <<groupVars, writeVars, cancelled, in_groups, optionVars, record, value, clockVars>>

Wait ==
  /\ pc["writer"] = "rest" /\ Goto("writer", "wait")
  /\ dr_go_mutex' = "none"
  /\ UNCHANGED <<back, groupVars, writeVars, cancelled, in_groups, optionVars, record, value,
                 clockVars>>

--------------------------------------------------------------------------------
Main ==
  \/ Model \/ RecordJob \/ ForceWrite \/ PutOld \/ PutNew \/ Count \/ AdvanceLogTics
  \/ NotDue \/ EndOfFrame \/ SignalThread \/ Tic
  \/ PreloadCheckpoint \/ ClearGroups \/ Restart \/ RemoveGroup \/ ShutdownDispatcher \/ Stop
  \/ Write("main")
Writer == Pass \/ Wait \/ Write("writer")

Next == Main \/ Writer \/ Toggle \/ Spurious

Spec == Init /\ [][Next]_vars

\* The threads are scheduled, and a mutex that is free again and again does not starve the main
\* thread.
FairSpec == Spec /\ SF_vars(Main) /\ WF_vars(Writer)

--------------------------------------------------------------------------------
(***************************************************************************)
(* Properties.                                                             *)
(***************************************************************************)
\* The rows that reach the file are those that were recorded, in their order, none twice and, but
\* for a ring, none left out: a row is not overwritten while it waits to be written or is being
\* written (data_record, DataRecordGroup.cpp:739).  Beyond the maximal size of the file nobody
\* waits for the writer, so this is about the rows up to it.
RowsInOrder ==
  buffer_type # "DR_Ring_Buffer" =>
    \A i \in 1 .. Len(file) : i <= MaxFileSize + 1 => i <= Len(recorded) /\ file[i] = recorded[i]

\* A comment (DataRecordGroup.cpp:891) says that the mutex keeps forced calls of write_data from
\* overwriting data that is being written.
AllRowsInOrder ==
  buffer_type # "DR_Ring_Buffer" =>
    \A i \in 1 .. Len(file) : i <= Len(recorded) /\ file[i] = recorded[i]

\* When the group is closed, what was recorded is in the file, also what was recorded before the
\* group was disabled; of a ring the last max_num rows (shutdown, DataRecordGroup.cpp:937).
AllWritten ==
  pc["main"] \in {"close", "removed", "done"} /\ Len(file) <= MaxFileSize =>
    LET kept == IF buffer_type = "DR_Ring_Buffer" /\ Len(recorded) > MaxNum
                THEN MaxNum ELSE Len(recorded) IN
    file = SubSeq(recorded, Len(recorded) - kept + 1, Len(recorded))

\* A change of the variable is not missed, not even one that happened while the group was disabled:
\* after the job the last row recorded holds the value of now (DataRecordGroup.cpp:735).
ChangesRecorded ==
  pc["main"] = "advance" /\ record => /\ recorded # <<>>
                                      /\ recorded[Len(recorded)].v = value

\* With DR_Changes_Step the rows make stairs: the value changes between two rows of one time.
Stairs ==
  freq = "DR_Changes_Step" =>
    \A i \in 2 .. Len(recorded) :
       recorded[i].v # recorded[i - 1].v => recorded[i].t = recorded[i - 1].t

\* What the rows say about the variable, however often the group was disabled and reloaded.
ChangesKept == TypeOK /\ ChangesRecorded /\ Stairs

\* Each of the cycles of a group is honoured, whatever the others are and however often
\* dr_record_now_group moves the next call (calculate_next_logging_tic).
RatesHonoured ==
  pc["main"] = "tic" => \A t \in 0 .. time : (\E r \in Rates : t % r = 0) => t \in called

\* Main and writer never wait for each other for ever, and no wake-up is lost: a run ends.
Ends == <>(pc["main"] = "done" /\ pc["writer"] = "ended")
==============================================================================
