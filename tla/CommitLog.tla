------------------------------ MODULE CommitLog ------------------------------
(***************************************************************************)
(* How a command reaches the disk: events.jsonl, approvals.jsonl and       *)
(* run-state.json of one run directory (runctl.py and runtime_common.py).  *)
(*                                                                         *)
(* A command holds the run lock, checks that the state file is the head of *)
(* the event log, and then performs its writes one after the other: an     *)
(* approval is appended to approvals.jsonl, every commit appends an event  *)
(* and then replaces the state file.  "todo" is what the lock holder has   *)
(* still to write; it is empty when the lock is free.  The lock is an      *)
(* operating-system lock: it is free again when the holder dies.  A        *)
(* process that dies, or whose write fails, leaves the writes it made and  *)
(* perhaps a torn last line.                                               *)
(*                                                                         *)
(* A state is abstracted to the sequence of changes it results from, so    *)
(* "the state hash equals that of the last event" is equality of the two   *)
(* sequences.                                                              *)
(***************************************************************************)
EXTENDS Naturals, Sequences

CONSTANTS
    Keys, NoKey,    \* idempotency keys of approvals
    MaxEvents,      \* bound: commands begin while the log is shorter
    MaxCrash        \* bound: commands that die or fail half-way

ASSUME ConstantsOK == NoKey \notin Keys /\ MaxEvents \in Nat /\ MaxCrash \in Nat

VARIABLES
    events,         \* the complete records of events.jsonl
    eventsTail,     \* how that file ends
    approvals,      \* the complete records of approvals.jsonl
    approvalsTail,  \* how that file ends
    stateFile,      \* run-state.json
    todo,           \* writes the lock holder has still to make
    crashes

files == <<events, eventsTail, approvals, approvalsTail, stateFile>>
vars  == <<files, todo, crashes>>

Ledger == INSTANCE ApprovalLedger WITH history <- events

Note  == Ledger!Note
Edits == {Note, Ledger!Open, Ledger!Close}

-----------------------------------------------------------------------------
(* Files of JSON lines.  The last line may lack its newline: "nonewline"   *)
(* when the record is complete, "partial" when it is not.  "broken" is a   *)
(* file with an unreadable line that is not merely an incomplete tail.     *)

Tails == {"ok", "nonewline", "partial", "broken"}

(* read_jsonl, and read_jsonl(tolerate_truncated_tail=True).               *)
Readable(tail)    == tail \in {"ok", "nonewline"}
Recoverable(tail) == tail # "broken"

(* append_jsonl: what follows a line without newline is glued to it.       *)
AfterAppend(tail) == IF tail = "ok" THEN "ok" ELSE "broken"

(* What a torn append leaves: the record, less its newline, or a part.     *)
AfterTorn(tail, ending) == IF tail = "ok" THEN ending ELSE "broken"

(* Faulty variant of Committed: forgets to select the approval events.     *)
CommittedAll(h) == h

(* The approvals an event log records, in its order.                       *)
Committed(h) ==
    LET Prefix[n \in 0..Len(h)] ==
            IF n = 0 THEN <<>>
            ELSE IF h[n].type = "approve" THEN Append(Prefix[n - 1], h[n])
            ELSE Prefix[n - 1]
    IN  Prefix[Len(h)]

-----------------------------------------------------------------------------
(* The writes of the commands, in order.                                   *)

Write(file, change) == [file |-> file, change |-> change]

(* Faulty variant of Commit: the state is replaced before its event.       *)
CommitStateFirst(c) == <<Write("state", c), Write("events", c)>>

(* _commit.                                                                *)
Commit(c) == <<Write("events", c), Write("state", c)>>

(* Faulty variant of ApprovalWrites: the approval follows its event.       *)
ApprovalLast(c) == Commit(c) \o
    (IF \E i \in 1..Len(approvals) : approvals[i] = c THEN <<>> ELSE <<Write("approvals", c)>>)

(* approve: an approval that a dead attempt left in approvals.jsonl is not *)
(* appended again.                                                         *)
ApprovalWrites(c) ==
    (IF \E i \in 1..Len(approvals) : approvals[i] = c THEN <<>> ELSE <<Write("approvals", c)>>)
    \o Commit(c)

(* Faulty variant of RecoverWrites: approvals.jsonl is left as it is.      *)
RecoverWritesPartly ==
    <<Write("all events", Note), Write("all state", Note), Write("audit", Note)>>

(* recover_state, before its own commit.                                   *)
RecoverWrites ==
    <<Write("all events", Note), Write("all approvals", Note), Write("all state", Note),
      Write("audit", Note)>>

Init ==
    /\ events = <<Note>> /\ eventsTail = "ok"        \* run_initialized
    /\ approvals = <<>> /\ approvalsTail = "ok"
    /\ stateFile = <<Note>>
    /\ todo = <<>> /\ crashes = 0

-----------------------------------------------------------------------------
(* Commands take the lock.  A command that is refused changes nothing.     *)

(* Faulty variant of Healthy: the state file is trusted.                   *)
EventsReadable == Readable(eventsTail)

(* _assert_state_head.                                                     *)
Healthy == Readable(eventsTail) /\ stateFile = events

(* A command with one commit, or with a second one (start_stage registers  *)
(* the input bundle of a Review, execution leases change phase).           *)
BeginEdit ==
    /\ todo = <<>> /\ Healthy /\ Len(events) < MaxEvents
    /\ \E c \in Edits : todo' \in {Commit(c), Commit(c) \o Commit(Note)}
    /\ UNCHANGED <<files, crashes>>

Existing(k) == {a \in {approvals[i] : i \in 1..Len(approvals)} : a.key = k}

(* An approval_recorded event carries the approval.                        *)
Recorded(a) == \E i \in 1..Len(events) : events[i] = a

(* Faulty variants of CanApprove: a key that was used is not looked up; a  *)
(* retry is not compared with the gate.                                    *)
CanApproveUnkeyed(k, g) == Readable(approvalsTail) /\ Ledger!Pending(stateFile, g)

CanApproveRetry(k, g) ==
    /\ Readable(approvalsTail)
    /\ \A a \in Existing(k) : a = Ledger!Approve(k, g) /\ ~Recorded(a)
    /\ Existing(k) = {} => Ledger!Pending(stateFile, g)

(* The checks of approve: the idempotency key is new, or bound to the same *)
(* request and not committed, and the gate is the pending one.             *)
CanApprove(k, g) ==
    /\ Readable(approvalsTail)
    /\ \A a \in Existing(k) : a = Ledger!Approve(k, g) /\ ~Recorded(a)
    /\ Ledger!Pending(stateFile, g)

(* The approval of a route is followed by a commit that carries approvals  *)
(* over.                                                                   *)
BeginApprove(k, g) ==
    /\ todo = <<>> /\ Healthy /\ Len(events) < MaxEvents
    /\ CanApprove(k, g)
    /\ LET c == Ledger!Approve(k, g) IN
       todo' \in {ApprovalWrites(c), ApprovalWrites(c) \o Commit(Note)}
    /\ UNCHANGED <<files, crashes>>

(* Faulty variant of CanRecover: an incomplete last line is not tolerated. *)
CanRecoverWhole == Readable(eventsTail)

CanRecover == Recoverable(eventsTail)

BeginRecover ==
    /\ todo = <<>> /\ CanRecover
    /\ Len(events) < MaxEvents \/ ~Healthy
    /\ todo' = RecoverWrites \o Commit(Note)
    /\ UNCHANGED <<files, crashes>>

-----------------------------------------------------------------------------
(* The lock holder makes its next write.                                   *)

Writing(file) == todo # <<>> /\ Head(todo).file = file
Done == todo' = Tail(todo) /\ UNCHANGED crashes
This == Head(todo).change

AppendApproval ==
    /\ Writing("approvals") /\ Done
    /\ approvals' = Append(approvals, This)
    /\ approvalsTail' = AfterAppend(approvalsTail)
    /\ UNCHANGED <<events, eventsTail, stateFile>>

AppendEvent ==
    /\ Writing("events") /\ Done
    /\ events' = Append(events, This)
    /\ eventsTail' = AfterAppend(eventsTail)
    /\ UNCHANGED <<approvals, approvalsTail, stateFile>>

(* The state written is the one loaded under the lock, with the change.    *)
ReplaceState ==
    /\ Writing("state") /\ Done
    /\ stateFile' = Append(stateFile, This)
    /\ UNCHANGED <<events, eventsTail, approvals, approvalsTail>>

RewriteEvents ==
    /\ Writing("all events") /\ Done
    /\ eventsTail' = "ok"
    /\ UNCHANGED <<events, approvals, approvalsTail, stateFile>>

RewriteApprovals ==
    /\ Writing("all approvals") /\ Done
    /\ approvals' = Committed(events) /\ approvalsTail' = "ok"
    /\ UNCHANGED <<events, eventsTail, stateFile>>

RewriteState ==
    /\ Writing("all state") /\ Done
    /\ stateFile' = events
    /\ UNCHANGED <<events, eventsTail, approvals, approvalsTail>>

(* audit_run, over the restored files, and over those of the run, which    *)
(* may be wrong for other reasons: then recover ends without its commit.   *)
Audit ==
    /\ Writing("audit")
    /\ todo' \in {Tail(todo), <<>>}
    /\ UNCHANGED <<files, crashes>>

Step == \/ AppendApproval \/ AppendEvent \/ ReplaceState \/ Audit
        \/ RewriteEvents \/ RewriteApprovals \/ RewriteState

-----------------------------------------------------------------------------
(* The lock holder dies, or its next write fails.                          *)

Dies == todo # <<>> /\ crashes < MaxCrash /\ todo' = <<>> /\ crashes' = crashes + 1

CrashBetween == Dies /\ UNCHANGED files

CrashInApproval ==
    /\ Dies /\ Writing("approvals")
    /\ \/ /\ approvals' = Append(approvals, This)
          /\ approvalsTail' = AfterTorn(approvalsTail, "nonewline")
       \/ /\ approvalsTail' = AfterTorn(approvalsTail, "partial")
          /\ UNCHANGED approvals
    /\ UNCHANGED <<events, eventsTail, stateFile>>

CrashInEvent ==
    /\ Dies /\ Writing("events")
    /\ \/ /\ events' = Append(events, This)
          /\ eventsTail' = AfterTorn(eventsTail, "nonewline")
       \/ /\ eventsTail' = AfterTorn(eventsTail, "partial")
          /\ UNCHANGED events
    /\ UNCHANGED <<approvals, approvalsTail, stateFile>>

Crash == CrashBetween \/ CrashInApproval \/ CrashInEvent

Next == \/ BeginEdit \/ BeginRecover \/ Step \/ Crash
        \/ \E k \in Keys : \E g \in 1..Len(stateFile) : BeginApprove(k, g)

Spec == Init /\ [][Next]_vars

(* A process that holds the lock goes on, and a command that is refused    *)
(* with "run recover before continuing" is answered by running it.         *)
Fairness == WF_vars(Step) /\ WF_vars(BeginRecover /\ ~Healthy)

FairSpec == Spec /\ Fairness

-----------------------------------------------------------------------------
(* Properties.                                                             *)

(* Every variable holds a value of the kind its comment announces.         *)
TypeOK ==
    /\ events \in Seq(Ledger!Changes) /\ stateFile \in Seq(Ledger!Changes)
    /\ approvals \in Seq(Ledger!Approvals)
    /\ eventsTail \in Tails /\ approvalsTail \in Tails
    /\ todo \in Seq([file : {"approvals", "events", "state", "all events", "all approvals",
                             "all state", "audit"}, change : Ledger!Changes])
    /\ crashes \in Nat

(* Whatever dies wherever, the event log stays recoverable: no append ever *)
(* follows an unfinished line.                                             *)
EventsRecoverable == Recoverable(eventsTail)

(* The state file is the head of the log or one change behind it: a crash  *)
(* loses no committed change and the state is never ahead of the log.      *)
StateNearHead ==
    \/ stateFile = events
    \/ Len(events) = Len(stateFile) + 1 /\ stateFile = SubSeq(events, 1, Len(stateFile))

(* A committed approval is in approvals.jsonl, exactly once, even while    *)
(* that file cannot be read.                                               *)
CommittedApprovalsKept ==
    \A i \in 1..Len(events) : events[i].type = "approve" =>
        \E j \in 1..Len(approvals) :
            \A n \in 1..Len(approvals) : approvals[n] = events[i] <=> n = j

(* When recover audits its work the three files agree.                     *)
RecoverAgrees ==
    Writing("audit") => /\ stateFile = events /\ approvals = Committed(events)
                        /\ eventsTail = "ok" /\ approvalsTail = "ok"

(* No gate is answered twice and no key used twice, across crashes,        *)
(* retries and recoveries.                                                 *)
OneApproval == Ledger!OneApproval(events)

(* The files of a run implement the ledger: the log grows by whole, allowed *)
(* changes, and recovery removes none.                                      *)
LedgerSpec == Ledger!Spec

(* A run whose state file lags behind its log is usable again in the end.  *)
HealthyAgain == []<>Healthy
=============================================================================
