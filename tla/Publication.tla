---------------------------- MODULE Publication -----------------------------
(***************************************************************************)
(* How the lineage builder (build_lineage.py) and the chart renderer       *)
(* (render_charts.py) publish: an immutable directory, a registration      *)
(* under the run lock, and a latest.json of their kind that is written     *)
(* twice, first without the lock and then under it.                        *)
(*                                                                         *)
(* Several builders of both kinds share one run, its lock and its one      *)
(* active lease.  What a builder makes is named by the state revision it   *)
(* read: the directory name and the content identity carry that revision,  *)
(* and two builds from one revision make the same content.  Commands of    *)
(* the controller are atomic here; the lock is explicit only where a       *)
(* builder holds it across two of its steps.  Run status and lease inputs  *)
(* are RunControl.tla's: here any lease may become unpublishable (Fail).   *)
(***************************************************************************)
EXTENDS Naturals, Sequences

CONSTANTS
    Builders,       \* builder processes
    Kind,           \* [Builders -> Kinds]: what each of them builds
    Nobody,         \* holds no lock, no lease
    MaxRevision,    \* bound: state revisions
    MaxFaults       \* bound: builders that die or time out half-way

Kinds == {"lineage", "charts"}

ASSUME ConstantsOK ==
    /\ Nobody \notin Builders
    /\ Kind \in [Builders -> Kinds]
    /\ MaxRevision \in Nat /\ MaxFaults \in Nat

VARIABLES
    revision,   \* of run-state.json
    active,     \* per kind, the targets registered and not superseded, oldest first
    lease,      \* the active execution lease
    lock,       \* who holds the run lock between two steps
    files,      \* immutable directories in place: pairs <<kind, revision>>
    pointer,    \* per kind, the target of latest.json, 0 when there is none
    pc,         \* where each builder is
    read,       \* the revision each builder read
    seen,       \* the active target a builder found while it reconciles
    faults

vars == <<revision, active, lease, lock, files, pointer, pc, read, seen, faults>>

NoLease == [holder |-> Nobody, phase |-> "none"]

(* The active record of a kind: the newest that is not superseded.         *)
Newest(k) == IF active[k] = <<>> THEN 0 ELSE active[k][Len(active[k])]

(* Faulty variant of Unlocked: commands do not wait for the run lock.      *)
NeverLocked == TRUE
Unlocked == lock = Nobody

Committed == revision' = revision + 1

Init ==
    /\ revision = 1
    /\ active = [k \in Kinds |-> <<>>] /\ pointer = [k \in Kinds |-> 0]
    /\ lease = NoLease /\ lock = Nobody /\ files = {}
    /\ pc = [b \in Builders |-> "idle"]
    /\ read = [b \in Builders |-> 0] /\ seen = [b \in Builders |-> 0]
    /\ faults = 0

Goes(b, from, to) == pc[b] = from /\ pc' = [pc EXCEPT ![b] = to]

(* The builder's process is over.                                          *)
Ends(b) ==
    /\ pc' = [pc EXCEPT ![b] = "idle"]
    /\ read' = [read EXCEPT ![b] = 0] /\ seen' = [seen EXCEPT ![b] = 0]

-----------------------------------------------------------------------------
(* A builder reads the state without the lock, and asks for a lease.       *)

(* Faulty variant of StateRevision: the revision the lease will make.      *)
StateRevisionNext == revision + 1
StateRevision == revision

Read(b) ==
    /\ Goes(b, "idle", "read")
    /\ read' = [read EXCEPT ![b] = StateRevision]
    /\ UNCHANGED <<revision, active, lease, lock, files, pointer, seen, faults>>

Begin(b) ==
    /\ Goes(b, "read", "leased") /\ Unlocked /\ revision < MaxRevision
    /\ lease = NoLease
    /\ lease' = [holder |-> b, phase |-> "executing"]
    /\ Committed
    /\ UNCHANGED <<active, lock, files, pointer, read, seen, faults>>

(* The lease is refused: another one is active, or the run is at rest.     *)
Refused(b) ==
    /\ pc[b] = "read" /\ Ends(b) /\ Unlocked
    /\ UNCHANGED <<revision, active, lease, lock, files, pointer, faults>>

(* The chart renderer reads the state again under its lease.               *)
Reread(b) ==
    /\ Kind[b] = "charts" /\ Goes(b, "leased", "reread")
    /\ read' = [read EXCEPT ![b] = StateRevision]
    /\ UNCHANGED <<revision, active, lease, lock, files, pointer, seen, faults>>

(* The staging directory is moved into place; one that is there already    *)
(* has this content, and is used.                                          *)
Place(b) ==
    /\ Goes(b, IF Kind[b] = "charts" THEN "reread" ELSE "leased", "placed")
    /\ files' = files \cup {<<Kind[b], read[b]>>}
    /\ UNCHANGED <<revision, active, lease, lock, pointer, read, seen, faults>>

-----------------------------------------------------------------------------
(* publish_execution_artifacts.                                            *)

Holds(b) == lease = [holder |-> b, phase |-> "executing"]

(* Faulty variant of Publishing: the directory need not be in place.       *)
PublishingEarly(b) == pc[b] \in {"leased", "reread", "placed"}
Publishing(b) == pc[b] = "placed"

Publish(b) ==
    /\ Publishing(b) /\ Unlocked /\ Holds(b)
    /\ pc' = [pc EXCEPT ![b] = "registered"]
    /\ active' = [active EXCEPT ![Kind[b]] = <<read[b]>>]
    /\ lease' = NoLease
    /\ Committed
    /\ UNCHANGED <<lock, files, pointer, read, seen, faults>>

(* The build fails, or its lease is not publishable any more: the lease,   *)
(* if it is still this builder's, is aborted.                              *)
Fail(b) ==
    /\ pc[b] \in {"leased", "reread", "placed"} /\ Ends(b) /\ Unlocked
    /\ IF Holds(b) THEN lease' = NoLease /\ Committed ELSE UNCHANGED <<lease, revision>>
    /\ UNCHANGED <<active, lock, files, pointer, faults>>

-----------------------------------------------------------------------------
(* _reconcile_latest_pointer: first the builder's own target, without the  *)
(* lock; then, under the lock, that of the active record, or no pointer.   *)

Announce(b) ==
    /\ Goes(b, "registered", "announced")
    /\ pointer' = [pointer EXCEPT ![Kind[b]] = read[b]]
    /\ UNCHANGED <<revision, active, lease, lock, files, read, seen, faults>>

Consult(b) ==
    /\ Goes(b, "announced", "reconciling") /\ Unlocked
    /\ lock' = b
    /\ seen' = [seen EXCEPT ![b] = Newest(Kind[b])]
    /\ UNCHANGED <<revision, active, lease, files, pointer, read, faults>>

(* Faulty variant of Target: the builder's own target once more.           *)
TargetOwn(b) == read[b]
Target(b) == seen[b]

Settle(b) ==
    /\ pc[b] = "reconciling" /\ Ends(b)
    /\ pointer' = [pointer EXCEPT ![Kind[b]] = Target(b)]
    /\ lock' = Nobody
    /\ UNCHANGED <<revision, active, lease, files, faults>>

-----------------------------------------------------------------------------
(* The controller.                                                         *)

(* Any other command, as far as it matters here: it withdraws the active   *)
(* records of some kinds and may end the lease.  Withdrawing and ending is *)
(* revise, withdrawing alone approves a rollback, ending alone is stop,    *)
(* resume or an aborted lease.  latest.json stays as it is.                *)
Command(withdrawn, ends) ==
    /\ Unlocked /\ revision < MaxRevision
    /\ active' = [k \in Kinds |-> IF k \in withdrawn THEN <<>> ELSE active[k]]
    /\ lease' = IF ends THEN NoLease ELSE lease
    /\ Committed
    /\ UNCHANGED <<lock, files, pointer, pc, read, seen, faults>>

(* recover_execution_leases: completes a publication that died between its *)
(* two commits, beside the active records, and leaves latest.json alone.   *)
Recover ==
    /\ Unlocked /\ lease # NoLease
    /\ lease' = NoLease
    /\ active' = IF lease.phase # "publishing" THEN active
                 ELSE [active EXCEPT ![Kind[lease.holder]] = Append(@, lease.target)]
    /\ Committed
    /\ UNCHANGED <<lock, files, pointer, pc, read, seen, faults>>

-----------------------------------------------------------------------------
(* Faults.                                                                 *)

Fault == faults < MaxFaults /\ faults' = faults + 1

(* A builder dies, or has waited too long for the run lock to reconcile.   *)
Die(b) ==
    /\ Fault
    /\ pc[b] \notin {"idle", "read"} /\ Ends(b)
    /\ lock' = IF lock = b THEN Nobody ELSE lock
    /\ UNCHANGED <<revision, active, lease, files, pointer>>

(* A builder dies after it committed "publishing".                         *)
DiePublishing(b) ==
    /\ Fault
    /\ Publishing(b) /\ Ends(b) /\ Unlocked /\ Holds(b)
    /\ lease' = [holder |-> b, phase |-> "publishing", target |-> read[b]]
    /\ Committed
    /\ UNCHANGED <<active, lock, files, pointer>>

Build(b) ==
    \/ Read(b) \/ Begin(b) \/ Refused(b) \/ Reread(b) \/ Place(b)
    \/ Publish(b) \/ Fail(b) \/ Announce(b) \/ Consult(b) \/ Settle(b)
    \/ Die(b) \/ DiePublishing(b)

Next ==
    \/ \E b \in Builders : Build(b)
    \/ \E withdrawn \in SUBSET Kinds, ends \in BOOLEAN : Command(withdrawn, ends)
    \/ Recover

Spec == Init /\ [][Next]_vars

-----------------------------------------------------------------------------
(* Properties.                                                             *)

(* Every variable holds a value of the kind its comment announces, and no  *)
(* builder names a revision the run has not had.                           *)
TypeOK ==
    /\ revision \in Nat
    /\ active \in [Kinds -> Seq(Nat)] /\ pointer \in [Kinds -> Nat]
    /\ lease \in [holder : Builders \cup {Nobody}, phase : {"none", "executing"}]
                 \cup [holder : Builders, phase : {"publishing"}, target : 1..revision]
    /\ lock \in Builders \cup {Nobody}
    /\ files \subseteq Kinds \X (1..revision)
    /\ pc \in [Builders -> {"idle", "read", "leased", "reread", "placed", "registered",
                            "announced", "reconciling"}]
    /\ read \in [Builders -> 0..revision] /\ seen \in [Builders -> Nat]
    /\ faults \in Nat

(* Whatever dies wherever, latest.json and the active records name         *)
(* directories that are in place.                                          *)
NothingDangling ==
    \A k \in Kinds :
        /\ pointer[k] # 0 => <<k, pointer[k]>> \in files
        /\ \A i \in 1..Len(active[k]) : <<k, active[k][i]>> \in files

(* The builder that reconciles leaves a pointer to the active record of    *)
(* that moment, or none, however many stale builders write beside it.      *)
Reconciled ==
    [][\A b \in Builders : pc[b] = "reconciling" /\ pc'[b] = "idle" /\ faults' = faults =>
          pointer'[Kind[b]] = Newest(Kind[b])']_vars

(* Without faults, a stale builder that finishes late does not leave       *)
(* latest.json on its own target: when none is between registration and    *)
(* reconciliation, the pointer names the one active record.                *)
Finishing(k) == \E b \in Builders : Kind[b] = k /\ pc[b] \in {"registered", "announced", "reconciling"}

PointerSettled ==
    faults = 0 => \A k \in Kinds :
        ~Finishing(k) /\ active[k] # <<>> => active[k] = <<pointer[k]>>

-----------------------------------------------------------------------------
(* What the repository says of the program, and the code does not keep.    *)

(* "assert len(active) == 1" (test_execution_concurrency_v12.py): one      *)
(* record of a kind is active.  A recovered publication is registered      *)
(* beside the one it should supersede.                                     *)
OneActive == \A k \in Kinds : Len(active[k]) <= 1
=============================================================================
