---------------------------- MODULE ResultStream ----------------------------
(***************************************************************************)
(* The execution of an approved query, from its lease to its publication   *)
(* (main, src/scripts/run_readonly_query.py): rows are fetched in batches  *)
(* (stream_readonly, src/scripts/db_common.py), written to a temporary     *)
(* file of limited size and profiled one by one.  Anything may fail on the *)
(* way, the deadline may pass, another command may take the lease away and *)
(* the process may be killed.                                              *)
(*                                                                         *)
(* A row is the value of its only column, or Null; every column of the     *)
(* program has a tracker of its own.  The file is the sequence of its      *)
(* rows, and its size.                                                     *)
(***************************************************************************)
EXTENDS DistinctTracker, Sequences

CONSTANTS
    Null,
    Tables,         \* sequences of rows that the requested query may return
    Limits,         \* LIMITs it may have; 0 for none
    MaxRows, MaxBytes,  \* what has been approved
    BatchSize,      \* DEFAULT_FETCH_BATCH_SIZE
    HeaderBytes, RowBytes,
    MaxFaults       \* bound: operations that fail, and kills

Rows == Values \cup {Null}

ASSUME StreamConstants ==
    /\ Null \notin Values
    /\ Tables \subseteq Seq(Rows)
    /\ Limits \subseteq Nat
    /\ MaxRows \in Nat \ {0} /\ BatchSize \in Nat \ {0}
    /\ MaxBytes \in Nat /\ HeaderBytes \in Nat
    /\ RowBytes \in [Rows -> Nat]
    /\ MaxFaults \in Nat

VARIABLES
    table,      \* what the query as requested would return
    limit,      \* the LIMIT it was requested with
    mysql,      \* the adapter: MySQL or SQLite
    pc,
    read,       \* rows that have come from the database
    batch,      \* those of the current batch that are not written yet
    short,      \* the current batch was not full
    exhausted, truncated,   \* of QueryStream
    csv, bytes, \* the file of rows
    place,      \* where it is
    active,     \* the database has an open result
    failed,     \* an exception is on its way
    late,       \* the deadline has passed
    lease,      \* as the log has it
    stuck,      \* the state lags behind the log
    faults

query == <<table, limit, mysql>>
stream == <<read, batch, short, exhausted, truncated, active>>
file == <<csv, bytes, place>>
log == <<lease, stuck>>
vars == <<query, pc, stream, file, failed, late, log, faults, tracker>>

Smaller(a, b) == IF a < b THEN a ELSE b

(* Faulty variant of Bounded: no row to tell a truncated result by.        *)
BoundedExactly(l) == IF l = 0 \/ l > MaxRows THEN MaxRows ELSE l

(* sql_guard._bounded_query: the LIMIT of the query that is executed.      *)
Bounded(l) == IF l = 0 \/ l > MaxRows + 1 THEN MaxRows + 1 ELSE l

Served == Smaller(Len(table), Bounded(limit))

Init ==
    /\ table \in Tables
    /\ limit \in Limits
    /\ limit # 0 => Len(table) <= limit
    /\ mysql \in BOOLEAN
    /\ pc = "leased"
    /\ read = 0 /\ batch = <<>> /\ short = FALSE
    /\ exhausted = FALSE /\ truncated = FALSE /\ active = FALSE
    /\ csv = <<>> /\ bytes = 0 /\ place = "nowhere"
    /\ failed = FALSE
    /\ late = FALSE
    /\ lease = "executing" /\ stuck = FALSE
    /\ faults = 0
    /\ TrackerInit

Faults(n) == faults + n <= MaxFaults /\ faults' = faults + n
Fault == Faults(1)

-----------------------------------------------------------------------------
(* stream_readonly, up to the stream.                                      *)
Open ==
    /\ pc = "leased" /\ ~late
    /\ pc' = "opened"
    /\ active' = TRUE
    /\ UNCHANGED <<query, read, batch, short, exhausted, truncated, file, failed,
                   late, log, faults, tracker>>

(* It fails before or after it has a cursor; the fingerprint differs.      *)
OpenFails ==
    /\ pc = "leased"
    /\ Fault \/ (late /\ UNCHANGED faults)
    /\ active' \in BOOLEAN
    /\ pc' = "closing" /\ failed' = TRUE
    /\ UNCHANGED <<query, read, batch, short, exhausted, truncated, file,
                   late, log, tracker>>

(* An exception, certain or by a fault.                                    *)
Raised(certain, n) == Faults(n) \/ (certain /\ Faults(n - 1))

(* Faulty variant of Raise: the file stays.                                *)
RaiseOnly(certain) ==
    Raised(certain, 1) /\ failed' = TRUE /\ pc' = "closing" /\ place' = place

(* An exception while the file is written removes it, unless that fails,   *)
(* too.  recover_execution_leases may have removed it before.              *)
Raise(certain) ==
    /\ failed' = TRUE /\ pc' = "closing"
    /\ \/ Raised(certain, 1) /\ place' = "nowhere"
       \/ Raised(certain, 2) /\ place' = IF pc = "opened" THEN "temporary" ELSE place

(* _write_stream_to_temporary_csv: the file and its header.                *)
StartFile ==
    /\ pc = "opened"
    /\ HeaderBytes <= MaxBytes
    /\ pc' = "streaming"
    /\ place' = "temporary" /\ bytes' = HeaderBytes
    /\ UNCHANGED <<query, stream, csv, failed, late, log, faults, tracker>>

StartFails ==
    /\ pc = "opened"
    /\ Raise(HeaderBytes > MaxBytes)
    /\ UNCHANGED <<query, stream, csv, bytes, late, log, tracker>>

-----------------------------------------------------------------------------
(* _iter_cursor_batches, driven by the loop that writes.                   *)

Ready == pc = "streaming" /\ mode # "switching"

(* Faulty variant of FetchSize: the last batch is not cut.                 *)
FetchAll == BatchSize

FetchSize == Smaller(BatchSize, MaxRows - read)

(* A batch; none comes at the end of the result.                           *)
Fetch ==
    /\ Ready /\ batch = <<>> /\ ~short
    /\ read < MaxRows
    /\ ~late
    /\ read' = Smaller(read + FetchSize, Served)
    /\ batch' = SubSeq(table, read + 1, read')
    /\ short' = (read' - read < FetchSize)
    /\ exhausted' = (read' = read)
    /\ pc' = IF exhausted' THEN "written" ELSE pc
    /\ UNCHANGED <<query, truncated, active, file, failed, late, log, faults,
                   tracker>>

(* The loop asks for more after a batch that was not full.                 *)
EndOfRows ==
    /\ Ready /\ batch = <<>> /\ short
    /\ exhausted' = TRUE
    /\ pc' = "written"
    /\ UNCHANGED <<query, read, batch, short, truncated, active, file, failed, late,
                   log, faults, tracker>>

(* One row more than approved tells that the result is truncated.          *)
Sentinel ==
    /\ Ready /\ batch = <<>> /\ ~short
    /\ read = MaxRows
    /\ ~late
    /\ read' = Smaller(read + 1, Served)
    /\ truncated' = (read' > read)
    /\ exhausted' = TRUE
    /\ pc' = "written"
    /\ UNCHANGED <<query, batch, short, active, file, failed, late, log, faults,
                   tracker>>

(* It fails, or the deadline passes before or during the fetch.            *)
FetchFails ==
    /\ Ready /\ batch = <<>> /\ ~short
    /\ read' \in {read, Smaller(read + (IF read < MaxRows THEN FetchSize ELSE 1), Served)}
    /\ Raise(late)
    /\ UNCHANGED <<query, batch, short, exhausted, truncated, active, csv, bytes,
                   late, log, tracker>>

(* A row is written, if the file does not become too large, and profiled.  *)
WriteRow ==
    /\ Ready /\ batch # <<>>
    /\ LET row == Head(batch) IN
       /\ bytes + RowBytes[row] <= MaxBytes
       /\ csv' = Append(csv, row)
       /\ bytes' = bytes + RowBytes[row]
       /\ IF row = Null THEN UNCHANGED tracker ELSE Observe(row)
    /\ batch' = Tail(batch)
    /\ UNCHANGED <<query, pc, read, short, exhausted, truncated, active, place, failed,
                   late, log, faults>>

WriteFails ==
    /\ Ready /\ batch # <<>>
    /\ Raise(bytes + RowBytes[Head(batch)] > MaxBytes)
    /\ UNCHANGED <<query, stream, csv, bytes, late, log, tracker>>

Profile ==
    /\ pc = "streaming"
    /\ \E v \in Values : SwitchValue(v) \/ Switched(v)
    /\ UNCHANGED <<query, pc, stream, file, failed, late, log, faults>>

(* flush, fsync and the profile                                            *)
FinishFile ==
    /\ pc = "written"
    /\ \/ pc' = "closing" /\ UNCHANGED <<failed, place, faults>>
       \/ Raise(FALSE)
    /\ UNCHANGED <<query, stream, csv, bytes, late, log, tracker>>

-----------------------------------------------------------------------------
(* Leaving the stream's context.                                           *)

(* Faulty variant of ConnectionFirst: the cursor is always closed first.   *)
CursorFirst == FALSE

(* The MySQL adapter closes the connection of a stream that was not read   *)
(* to its end, and detaches its result, before it closes the cursor.       *)
ConnectionFirst == mysql /\ ~exhausted

(* A MySQL cursor (external) reads what is left when it is closed.         *)
Close ==
    /\ pc = "closing"
    /\ active' = FALSE
    /\ read' = IF active /\ mysql /\ ~ConnectionFirst THEN Served ELSE read
    /\ \/ pc' = (IF failed THEN "aborting" ELSE "profiled") /\ UNCHANGED <<failed, faults>>
       \/ Fault /\ pc' = "aborting" /\ failed' = TRUE
    /\ UNCHANGED <<query, batch, short, exhausted, truncated, file, late, log, tracker>>

(* The profile is stored and the file gets its name.                       *)
Place ==
    /\ pc = "profiled"
    /\ place = "temporary"
    /\ pc' = "placed"
    /\ place' = "staged"
    /\ UNCHANGED <<query, stream, csv, bytes, failed, late, log, faults, tracker>>

(* It fails, or the manifest cannot be written after it.                   *)
PlaceFails ==
    /\ pc = "profiled"
    /\ Fault \/ (place # "temporary" /\ UNCHANGED faults)
    /\ place' \in {place} \cup (IF place = "temporary" THEN {"staged"} ELSE {})
    /\ pc' = "withdrawing" /\ failed' = TRUE
    /\ UNCHANGED <<query, stream, csv, bytes, late, log, tracker>>

-----------------------------------------------------------------------------
(* record_query_result.  It commits twice, before and after the staging    *)
(* directory becomes the output directory, and holds the lock all along.   *)

Locked == pc \in {"announced", "moved"}

Abortable == lease \in {"executing", "publishing"} /\ ~stuck

(* A commit that is cut short may have put its event into the log, or part *)
(* of it, without replacing the state.                                     *)
HalfCommit ==
    /\ \/ pc = "placed" /\ lease = "executing" /\ lease' \in {lease, "publishing"}
       \/ pc = "moved" /\ lease' \in {lease, "completed"}
       \/ pc \in {"aborting", "withdrawing"} /\ Abortable /\ lease' \in {lease, "aborted"}
    /\ stuck' = TRUE

Announce ==
    /\ pc = "placed"
    /\ lease = "executing"
    /\ lease' = "publishing"
    /\ pc' = "announced"
    /\ UNCHANGED <<query, stream, file, failed, late, stuck, faults, tracker>>

(* What it finds wrong ends the lease; a lease that another command has    *)
(* ended is wrong for certain.                                             *)
AnnounceFails ==
    /\ pc = "placed"
    /\ Fault \/ (lease # "executing" /\ UNCHANGED faults)
    /\ (lease' \in {lease, "aborted"} /\ UNCHANGED stuck) \/ HalfCommit
    /\ pc' = "withdrawing" /\ failed' = TRUE
    /\ UNCHANGED <<query, stream, file, late, tracker>>

MoveOutput ==
    /\ pc = "announced"
    /\ place' = "output"
    /\ pc' = "moved"
    /\ UNCHANGED <<query, stream, csv, bytes, failed, late, log, faults, tracker>>

(* os.replace fails, which aborts the lease, or mkdir before it.           *)
MoveFails ==
    /\ pc = "announced"
    /\ Fault
    /\ lease' \in {lease, "aborted"}
    /\ pc' = "withdrawing" /\ failed' = TRUE
    /\ UNCHANGED <<query, stream, file, late, stuck, tracker>>

Complete ==
    /\ pc = "moved"
    /\ lease' = "completed"
    /\ pc' = "done"
    /\ UNCHANGED <<query, stream, file, failed, late, stuck, faults, tracker>>

CompleteFails ==
    /\ pc = "moved"
    /\ Fault
    /\ UNCHANGED log \/ HalfCommit
    /\ pc' = "withdrawing" /\ failed' = TRUE
    /\ UNCHANGED <<query, stream, file, late, tracker>>

-----------------------------------------------------------------------------
(* Failing.                                                                *)

Discarded == IF place = "output" THEN place ELSE "nowhere"

(* _abort_lease_quietly, which keeps its own failure to itself: the        *)
(* staging directory goes with the lease, but not when the lease has been  *)
(* ended before, or the state lags behind.                                 *)
Abort ==
    /\ pc \in {"aborting", "withdrawing"}
    /\ \/ Abortable /\ lease' = "aborted" /\ place' = Discarded /\ UNCHANGED <<stuck, faults>>
       \/ ~Abortable /\ UNCHANGED <<log, place, faults>>
       \/ /\ Abortable /\ Fault /\ UNCHANGED place
          /\ (lease' \in {lease, "aborted"} /\ UNCHANGED stuck) \/ HalfCommit
    /\ pc' = IF pc = "withdrawing" /\ place' = "temporary" THEN "unlinking" ELSE "failed"
    /\ UNCHANGED <<query, stream, csv, bytes, failed, late, tracker>>

(* The last thing main does about a file that has not got its name.        *)
Unlink ==
    /\ pc = "unlinking"
    /\ pc' = "failed"
    /\ \/ place' = "nowhere" /\ UNCHANGED faults
       \/ Fault /\ UNCHANGED place
    /\ UNCHANGED <<query, stream, csv, bytes, failed, late, log, tracker>>

-----------------------------------------------------------------------------
(* The deadline passes; another command ends the lease (stop_run, a        *)
(* revision); the process is killed.                                       *)
Running == pc \notin {"done", "failed", "dead"}

Expire ==
    /\ Running /\ ~late
    /\ late' = TRUE
    /\ UNCHANGED <<query, pc, stream, file, failed, log, faults, tracker>>

LoseLease ==
    /\ Abortable /\ ~Locked
    /\ Fault
    /\ lease' = "aborted"
    /\ UNCHANGED <<query, pc, stream, file, failed, late, stuck, tracker>>

Kill ==
    /\ Running
    /\ Fault
    /\ pc' = "dead"
    /\ active' = FALSE
    /\ UNCHANGED log \/ HalfCommit
    /\ UNCHANGED <<query, read, batch, short, exhausted, truncated, file, failed, late,
                   tracker>>

(* The recovery, whether the process is alive or not: of the state from    *)
(* the log,                                                                *)
Recovery == ~Locked /\ IF Running THEN Fault ELSE UNCHANGED faults

RecoverState ==
    /\ stuck
    /\ Recovery
    /\ stuck' = FALSE
    /\ UNCHANGED <<query, pc, stream, file, failed, late, lease, tracker>>

(* and of the lease: what was being published and has reached its place is *)
(* completed, anything else ends with its staging directory                *)
(* (recover_execution_leases).                                             *)
Recovered == lease = "publishing" /\ place = "output"

RecoverLease ==
    /\ Abortable
    /\ Recovery
    /\ lease' = IF Recovered THEN "completed" ELSE "aborted"
    /\ place' = Discarded
    /\ UNCHANGED <<query, pc, stream, csv, bytes, failed, late, stuck, tracker>>

Next ==
    \/ Open \/ OpenFails \/ StartFile \/ StartFails
    \/ Fetch \/ EndOfRows \/ Sentinel \/ FetchFails
    \/ WriteRow \/ WriteFails \/ Profile \/ FinishFile
    \/ Close \/ Place \/ PlaceFails
    \/ Announce \/ AnnounceFails \/ MoveOutput \/ MoveFails \/ Complete \/ CompleteFails
    \/ Abort \/ Unlink
    \/ Expire \/ LoseLease \/ Kill \/ RecoverState \/ RecoverLease

Spec == Init /\ [][Next]_vars

-----------------------------------------------------------------------------
(* The rows that non_null_count counts.                                    *)
NonNull == {i \in DOMAIN csv : csv[i] # Null}

Seen == {csv[i] : i \in DOMAIN csv} \ {Null}

(* The types, and the limits of what is kept: never more rows than were    *)
(* approved in the file nor more bytes, one more row than that read, and a *)
(* tracker within its three limits.                                        *)
TypeOK ==
    /\ table \in Tables /\ limit \in Limits /\ mysql \in BOOLEAN
    /\ pc \in {"leased", "opened", "streaming", "written", "closing", "profiled", "placed",
              "announced", "moved", "aborting", "withdrawing", "unlinking", "done", "failed",
              "dead"}
    /\ read \in 0..MaxRows+1
    /\ batch \in Seq(Rows) /\ Len(batch) <= BatchSize
    /\ short \in BOOLEAN /\ exhausted \in BOOLEAN /\ truncated \in BOOLEAN
    /\ csv \in Seq(Rows) /\ Len(csv) <= MaxRows
    /\ bytes \in 0..MaxBytes
    /\ place \in {"nowhere", "temporary", "staged", "output"} /\ active \in BOOLEAN
    /\ failed \in BOOLEAN /\ late \in BOOLEAN /\ stuck \in BOOLEAN
    /\ lease \in {"executing", "publishing", "completed", "aborted"}
    /\ faults \in 0..MaxFaults
    /\ mode \in {"exact", "switching", "approximate"}
    /\ exact \subseteq Values /\ Cardinality(exact) <= ExactMaxValues
    /\ exactBytes \in 0..ExactMaxBytes
    /\ left \subseteq exact /\ incoming \subseteq Values
    /\ kmv \subseteq 0..HashRange-1 /\ Cardinality(kmv) <= KmvHashes

(* A result that is published is what the approved query asked for, cut at *)
(* the approved number of rows, in order and without a gap between the     *)
(* batches; it is called truncated if and only if rows were left out,      *)
(* although the query that was executed had a LIMIT of its own             *)
(* (_bounded_query, _iter_cursor_batches, _write_stream_to_temporary_csv). *)
PublishedExact ==
    lease = "completed" =>
        /\ csv = SubSeq(table, 1, Smaller(Len(table), MaxRows))
        /\ truncated = (Len(table) > MaxRows)
        /\ exhausted

(* Whatever the order of the values, and of the set that is emptied when   *)
(* the tracker switches, it holds the values seen so far, or the smallest  *)
(* of their hashes, the largest of them where the next one will look: no   *)
(* value is counted twice and no hash was let go that counts               *)
(* (_DistinctTracker).                                                     *)
DistinctRight == TrackerRight(Seen)

(* The distinct count of a profile is the number of hashes while they are  *)
(* few, although values may be more; the estimate never exceeds the rows   *)
(* there are and never falls below the hashes that are known to differ     *)
(* (_DistinctTracker.finish).                                              *)
CountRight ==
    pc = "done" =>
        /\ DistinctCount(Cardinality(NonNull)) \in Cardinality(kmv)..Cardinality(NonNull)
        /\ mode = "approximate" /\ Cardinality(HashesOf(Seen)) < KmvHashes =>
               DistinctCount(Cardinality(NonNull)) = Cardinality(HashesOf(Seen))

(* Once an execution has failed it takes no more rows from the database:   *)
(* closing a MySQL stream that was not read to its end drops what is left  *)
(* of the result, which may be large, where closing the cursor would read  *)
(* it past every deadline (stream_readonly).                               *)
AbortReadsNothing == [][failed => read' = read]_vars

(* A failed execution publishes nothing, now or by a later recovery,       *)
(* unless its rows had reached their place before it failed.  It leaves no *)
(* temporary file of them; that takes two failures: what made the          *)
(* execution fail or took its lease away, and what kept the file from      *)
(* being removed.  No such promise holds for a file that already has its   *)
(* name: where record_query_result refuses the result and ends the lease,  *)
(* nobody removes the staging directory                                    *)
(* (_write_stream_to_temporary_csv, record_query_result, the handlers of   *)
(* main, recover_execution_leases).                                        *)
FailureLeavesNothing ==
    pc = "failed" =>
        /\ lease = "completed" => place = "output"
        /\ place = "temporary" => faults >= 2
=============================================================================
