# Verification of the analysis skill

This directory holds TLA+ models of the Growth Insight analysis skill, the TLC
instances that check them, and TLAPS proofs of the most important results. The
models are translated from the Python scripts under `src/scripts/`; line
numbers below refer to those files, and `PROJECT.json` maps every definition to
the lines it stands for.

## 1. The system

The skill drives specialised agents (business, metrics, SQL, insight,
visualization, review, report) through an analysis. A *run* is a directory.
Every decision about it is taken by deterministic scripts; the agents only
produce documents.

| Component | State it keeps | Operations |
|---|---|---|
| Run-state controller (`runctl.py`) | `run-state.json`: run status, route revision, stages with status, attempt, artifact and input hashes, pending gate, pending query, active leases, artifact records | init, set-route, start, record agent receipt, record stage, approve (route, stage, query, rollback), revise, stop, resume, prepare-query, leases (begin, validate, abort, recover), publications, finalize, metric edits, recover, audit |
| Commit protocol (`runctl.py`, `runtime_common.py`) | `events.jsonl`, `approvals.jsonl`, `run-state.json`, the run lock | lock, check head, append a line, replace a file atomically, recover |
| Query runner (`run_readonly_query.py`) | a staging directory | read the state, lease, execute, publish |
| Lineage builder (`build_lineage.py`) | content-named lineage files, `latest.json` | read, lease, build, publish, reconcile the pointer |
| Chart renderer (`render_charts.py`) | content-named charts, its own pointer | as above |
| Final report publisher (`runctl.py`) | an immutable directory for each Report version | read, lease, publish |
| Route validation (`validate_route_plan.py`) | none | accept or reject a plan |
| Metric versions and workbench (`runctl.py`) | the recorded outputs of the Metrics stage, `pending_metric_edit`, edit files and their records | number and check an output, request an edit, export and import a workbench |
| Database adapters (`db_common.py`), SQL guard (`sql_guard.py`) | an open result | bound the query, stream it in batches, close it |
| Output validation | none | predicates |
| Installer (`install_skill.py`) | the installed directory with its manifest, staging and backup directories beside it | install, update, uninstall, verify, with rollback |
| Evaluation harness (`run_evals.py`, ...) | its own records | scoring, outside of runs |

**How they interact.** Every mutating command of the controller takes an
operating-system lock on the run, loads the state, checks that its hash is the
head of the event log, and commits. The root task that drives the agents, the
user's approvals and the builders are different processes on one run directory.
Builders read the state *without* the lock, then ask for an execution lease,
work outside the lock, and publish under it. The query runner streams rows from
an adapter into a temporary file in the staging directory of its lease, and the
controller takes the directory over when the result is recorded. The installer
has nothing to do with runs; it shares its directory with the user. Files whose names are fixed
(`route-plan.json`, `rollback-plan.json`, attempt and query directories) are
written inside commands, some before the commit.

**What is hard.**
- A process may die between any two writes; the next command, `resume` or
  `recover` must cope with every prefix.
- A builder acts on a state that may have changed twice: before it gets its
  lease, and before it publishes.
- A revision or rollback may hit any part of the dependency graph while other
  parts await the user, are approved, or were carried over from another route.
- `stop`, failure and block leave different combinations of `current_stage`
  and `pending_stage`; `resume` must find the interrupted stage from them.
- The user repeats a command whose outcome is unknown.
- A metric is edited, removed and brought back over many attempts, some of
  which fail, and its number must go on identifying one definition.
- A query fails, times out, is too large or loses its lease at any row; what is
  kept in memory for its profile is bounded.
- An installation is a dozen renames, each of which may fail, also while it is
  undone, in a directory where the user works.

**What makes each part correct.** Controller: no work stands on replaced or
unapproved inputs; approvals are granted by the user only, never lost, and
never outlive what was approved; at most one role works, beside no open gate;
what a run completes with is bound together. Commit protocol: the log is never
damaged beyond recovery, no committed approval is lost, an approval is
effective once, recovery restores agreement. Builders: what is published rests
on current approvals. Metrics: a version names one definition for ever, and an
edit is applied or withdrawn, not lost. Query execution: what is published is
exactly the approved prefix of the result, its distinct counts are right, and a
failure leaves nothing. Installer: no file of the user is lost, a run succeeds
or leaves the directory as it was, and leftovers are told.

## 2. Modules

| Module | What it is |
|---|---|
| `RunControl.tla` | the controller, the builders' leases and publications; one action per command |
| `MCRunControl.tla`, `RunControl_*.cfg` | finite routes and roles for TLC |
| `RunControlProofs.tla` | theorems about RunControl: types, approvals, boundaries, queries |
| `RunEndProofs.tla` | theorems about the Review behind a Report, completed and finalizing runs, and that a run goes on; extends RunControlProofs |
| `OrderFacts.tla` | least and largest elements of sets of numbers and induction over sets of numbers, for the proofs |
| `ApprovalLedger.tla` | abstract specification: one growing history of changes in which a gate is answered once and a key used once |
| `CommitLog.tla` | how a commit reaches the three files; one action per write; implements ApprovalLedger |
| `MCCommitLog.tla`, `CommitLog_*.cfg`, `CommitLogProofs.tla` | finite instance, theorems, the refinement among them |
| `Publication.tla` | lineage builders and chart renderers beside one another: directories, registration, the `latest.json` pointers; one action per step |
| `MCPublication.tla`, `Publication_*.cfg` | finite instances |
| `PublicationProofs.tla` | theorems about Publication |
| `MetricVersions.tla` | the outputs of the Metrics stage, their numbers, and edits; one action per command |
| `MCMetricVersions.tla`, `MetricVersions_*.cfg`, `MetricVersionsProofs.tla` | finite instance, theorems |
| `DistinctTracker.tla` | counting distinct values in bounded memory |
| `ResultStream.tla` | one execution of an approved query; one action per batch, row or call that may fail; extends DistinctTracker |
| `MCResultStream.tla`, `ResultStream_stream.cfg`, `ResultStreamProofs.tla` | finite instance, theorems |
| `Installer.tla` | installer runs over one destination, and its user; one action per rename |
| `MCInstaller.tla`, `Installer_install.cfg`, `InstallerProofs.tla` | finite instance, theorems |

### RunControl and the code

A mutating command holds the lock from its first read to its commit, so one
command is one action. Where the code itself leaves the lock, the action is
split: a builder's unlocked read (`Read`), its lease (`BeginLease`) and its
publication (`PublishQuery`, `PublishLineage`, `PublishReport`) are separate, and
any command may come between. Where a process may die with a part of its
writes done, a `...Crash` action leaves exactly that part: `route-plan.json`
replaced (`SetRouteCrash`), the attempt directory created (`StartStageCrash`),
the stage started without its Review bundle (`StartStage` with `bundled` false),
`rollback-plan.json` replaced (`RecordStageCrash`), the query directory created
(`PrepareQueryCrash`), the lease only prepared (`BeginLease` with `ended`
false), the publication begun, with or without the directory in place
(`PublishCrash`). `RecoverExecutions` is what finds the last two later.

State: `stageStatus`, `attempt`, `artifact`, `inputHashes`, `verdict`, `deps`
are the stage records of `run-state.json`, `receipt` the agent receipt of the
running attempt; `approved` is `approved_artifacts`, `gate` the
`pending_approval`, `query` the `pending_query`, `results` the active records
of `artifacts` by kind, `lease` the one active entry of `execution_leases`
(the code refuses a second), `snapshot` what a builder has read, `plan` the
content of `rollback-plan.json`, `plans` the hashes registered for it, `bundle`
the newest Review input bundle, `says` what each stage's recorded output says
of the rest of the run. `disk` is what matters beside the state: whether
`route-plan.json` is the registered one, the inputs the route lacks or binds,
the attempt and query directories, the immutable output directories in place,
and the roles whose installed agent differs from what the run recorded when it
began (`UpdateAgents` changes that at any moment, for `_assert_current_agent_config`).

Abstractions, all of data:
- Stages are numbered by their position in the route. A stage id keeps its
  role in every route.
- Of the content of an output (`Content`) the model keeps what the controller
  compares with parts of the run that later commands change: the metric ids
  it uses or defines, whether it states facts (Insight), the query results it
  names (the source of a Visualization, the quality warnings a Review repeats)
  and whether it declares lineage breaks (Review, where some stage id is Metrics:
  without one they are compared with nothing). `Declarable` says which of these a
  role's output can have.
- All queries have one id, the warnings of a result are there or not, the user
  brings no result files, and no chart is ready to be rendered. A route binds
  query results and lineages, not the rollback plan or charts.
- An artifact is named by the attempt that produced it: the document carries
  the stage and the attempt, so two attempts never have the same hash.
- `PASS_WITH_RISKS` is `PASS`: what tells them apart are checks of one document,
  or of one document and the artifacts it stands on.
- Lineage breaks are present or not; the check compares the declared set with
  the built one.
- Whether an output validates by itself is a free choice
  (`RecordStageInvalid`); whether it fits the run (`ContextOK`) is computed.
- One builder at a time holds a `snapshot`: a second unlocked read could only
  be refused, since one lease is active at most, or come after the first lease
  ended, which a `Read` after it covers.
- Prose, rendered reports and the wording of documents are left out.
  `AuditClean` and `ContextOK` keep the conditions of `audit_run` and
  `_validate_stage_context` that the commands modelled here can falsify: the
  registered route file and rollback plans, the staging directory of a lease, and
  for each output that is shown or approved its inputs, metric ids, results,
  warnings, breaks and Review bundle. What is left out compares a document with
  itself, with files that nobody rewrites, or with artifacts whose replacement
  takes the stage's standing away (the caveats of a Report, confirmed decisions,
  the numbers of MetricVersions); an evidence reference may name a superseded
  artifact.
- The route of `set_route` may lack a required input (`missing`): it is registered
  and shown, but neither confirmed nor started from (`RouteExecutable`, which is
  `_load_verified_route(require_executable=True)`).

### CommitLog and the code

`todo` is what the lock holder still has to write. A commit is an event append
and a state replacement; an approval is preceded by an append to
`approvals.jsonl`, unless a dead attempt left it there; `start_stage` of a
Review and leases commit twice; `recover` rewrites the three files, audits,
and commits. `CrashBetween` drops the rest of `todo`; `CrashInApproval` and
`CrashInEvent` leave a torn line, with or without its text complete. An append
after a line without newline is glued to it and the file is broken for good
(`AfterAppend`); the head check (`Healthy`) must keep that from happening.
State files are replaced atomically (write, fsync, rename), so a crash leaves
the old or the new one. A state is abstracted to the sequence of changes it
results from: `state_hash` equality is equality of sequences.

### Publication and the code

RunControl treats a publication as one command between two others. Publication
opens it up for the builders that also maintain a `latest.json`. `pc` is where
a builder is in `build` / `render`: it reads the state (`Read`), takes the lease
(`Begin`), the chart renderer reads the state again (`Reread`), moves its
directory into place (`Place`), registers under the lock (`Publish`), writes
the pointer to its own target without the lock (`Announce`), takes the lock and
looks up the active record (`Consult`), and writes the pointer to that
(`Settle`). What is built is named by the state revision that was read, as the
directory is in the code. `Command` stands for every other command by its
effect here: it may withdraw the active records of some kinds (revise, rollback)
and may end the lease (revise, stop, abort). `Die` is a crash or the lock
timeout of `RunLock`; `DiePublishing` leaves the lease in phase `publishing`,
for `Recover`. Whether the run status and the inputs let a lease publish is
RunControl's subject; here any lease may fail.

### MetricVersions and the code

RunControl treats the Metrics stage like any other. MetricVersions opens it up:
`stage` is its status together with whether it is the current stage
(`rejected`: validation failed and it is still current; `ended`: the agent
reported BLOCKED or FAIL; `left`: it has failed and the run has turned to
another stage), `history` the outputs recorded under its id, `artifact` the one
it has now, `edit` the `pending_metric_edit` with what its file says, `files`
and `records` the edit files on disk and their registered hashes. An output is
free; `Fits` is what `_validate_stage_context` demands of its numbers and of a
pending edit. Everything else of the run appears as the commands that touch the
stage: `Approve`, `Resume`, `Revise` (of the stage, of one before it, or by an
approved rollback), `ReviseOther` (any other stage; the edit is withdrawn all
the same, line 2604) and `SetRoute`.

Abstractions: a version is checked against the outputs recorded under the same
stage id, as in the code, so one module instance is one id. The metrics of the
first output are not compared with anything, whatever their numbers. Whether
the run awaits just this stage is left to RunControl; the model may approve or
edit an output that awaits the user beside another stage, which is more than
the code does. The names and the schema of fields are left out; a content gives
every editable field a value, and a workbench lists contents without numbers,
since its version column is not used (lines 2721-2726). Exporting a workbench
reads only; `ImportWorkbench` takes any list for any earlier output, as a file
the user has worked on for long may be.

### ResultStream, DistinctTracker and the code

`Open` is `stream_readonly` up to the stream, `Fetch`, `EndOfRows` and
`Sentinel` are the batches of `_iter_cursor_batches`, `WriteRow` is the loop of
`_write_stream_to_temporary_csv`, `Close` the `finally` of either adapter,
`Place` the end of `main` up to `record_query_result`, which commits twice:
`Announce` (the lease is publishing), `MoveOutput` (the staging directory becomes
the output directory) and `Complete`. `Abort` and `Unlink` are the handlers of
`main`. `Served` is what the executed query returns after `_bounded_query` has
set its LIMIT. Each step has a variant that fails, by an error or by the
deadline, and the handlers may fail too: `Raise` with the `unlink` of the
writer, `Unlink`, `Abort`. A commit that fails may have put its event into the
log without the state (`HalfCommit`, which leaves the run `stuck`); every command
refuses then until `RecoverState` (`recover`). `place` says where the rows are:
nowhere, in the temporary file, staged under their name, or in the output
directory. `LoseLease` is another command on the run, `RecoverLease` is
`recover_execution_leases`, which completes a publication whose directory is
in place and gives up any other lease; `Kill` is the end of the process. A MySQL
cursor reads what is left of its result when it is closed (external, from how
`_discard_mysql_unbuffered_result` works around it).

`DistinctTracker` is `_DistinctTracker`: a switch to hashes is a step per value,
in any order, as the iteration of a set is. `heapq` and the hash function are
external: a heap is the set of its elements, and `Hash` is any function. The
estimate is rounded down where the code rounds to the nearest.

Abstractions: one column (each has its own tracker), rows are values, sizes
are given per row. Samples, minima, quality warnings and the manifest are left
out. Files in the staging directory of a lease that another command, or a
refused publication, has ended are not removed by anybody; the model has that
(`Abort`, `AnnounceFails`).

### Installer and the code

A directory is a function from paths to contents: a package file holds the
version it came with, a file of the user `early` or `late`, depending on whether
an installer was at work when it was written. `Install` and `Uninstall` decide
as the code does before it has changed anything: what the manifest lists, what
was altered, what asks for `--force`, which paths are the user's and are moved
along. Then every rename is a step (`SetAside`, `MoveIn`, `SwapIn`, and on the
way back `TakeOut`, `MoveBack`, `PutBack`), each may fail (`Fails`,
`UndoFails`), and the process may die between any two (`Die`). The code notes a
rename after it is done (`moved.append`, `committed = True`), and catches an
interrupt that comes in between: `MoveInCut` and `SwapInCut` are the renames that
the rollback does not know of. After the transaction an uninstallation removes
the directory if nothing is left in it (`RemoveDirectory`), which no handler
guards (`RemoveDirectoryFails`). `UserWrites` and `UserRemoves` come at any
moment; the user may create the destination while the old one is set aside.
`mine` is history: the files the user has written and not given up, by removing
them, by `--force` (for package paths) or by `--purge`; `unnoted` has those that
were in a move which was not noted, `mishap` what befell a run between two of its
steps.

Abstractions: the copying of the package into the stage is one step that may
fail; so is building the environment, which may leave half an environment.
Beside `.venv`, which the model has, a skill replaces `scripts/__pycache__`
whole, with whatever a user has put there (`SKILL_MUTABLE_PATHS`): such a
directory is the installer's, the model does not have it, and no property
speaks of files in it. Links, long paths and the choice of a staging root are
left out, as are `verify` and dry runs, which change nothing.

## 3. What is checked

Passing runs (`PROJECT.json` names the properties of each):

- **gates**: business, insight and review in a chain or a fork, two attempts of
  each, two route revisions (each may choose the other shape), all verdicts, one
  crash; 1.7 million states. The stage, approval, gate and boundary invariants,
  and that no step but the user's approves. Two attempts are enough to tell old artifacts from new
  ones; two route revisions to carry approvals over; three stages for a stage
  between the revised one and the one that must be disturbed, and for two
  branches in a fork.
- **query**: an SQL and a review stage in a chain, in a route that may lack a
  required input and bind earlier results, two attempts, two route revisions,
  all verdicts, two requests, a lease, a crash, and the Review's agent
  reconfigured at any moment; 3.3 million states. A query executes and
  publishes under its own approval only, results of replaced SQL are withdrawn,
  also when a crashed publication is recovered after the run moved on, and the
  run never stands still (`OnlyKnownStops`). The second request is the one an old
  snapshot might be mistaken for.
- **report**: metrics, review and report, three leases (a lineage, another one
  after the Report, the final report), one crash, and two route revisions, each
  of which may leave out Metrics or the Report: a run may be stopped after its
  final report and come to its end again by another route; 2.4 million states.
  The Report stands behind its Review; a completed run whose route has a Report
  has one final report, of exactly the approved Report and Review, and one
  without a Report has none; and a finalizing run can end (`FinalizingCanEnd`).
  Runs do complete in this instance, with and without a Report.
- **log**: histories of six events (a recovery may write one more), two keys,
  three crashes at any write. The log stays recoverable, the state is at most
  one event behind, committed approvals are kept exactly once, recovery makes
  the files agree, a gate and a key are used once; CommitLog implements
  ApprovalLedger (`history <- events`); a lagging run is healthy again in the
  end. Three crashes allow one to hit a command, one the retry, and one the
  recovery in between. No symmetry is used, since the run checks liveness.
- **pointer**: two lineage builders and a chart renderer, state revisions up
  to six (two leases and their publications with commands between), one of
  them dying or timing out. Pointers and records never dangle; the builder
  that reconciles leaves its pointer on the active record; without faults, when
  no builder is between registration and reconciliation, the pointer names the
  only active record. Two builders of one kind are what a stale pointer takes;
  the third shares the lease and the lock with them but not the pointer.
- **metrics**: two metrics with two contents, versions up to three, four
  attempts, two edit files, one crash. Four attempts are what it takes to
  record a metric, remove it, bring it back and revise it, or to fail with an
  edit pending; two files to ask for one name twice. Versions identify
  definitions and are counted without gaps, registered edit files stay intact,
  an edit is settled by an output that applies it or withdrawn by the user, and
  one that was accepted can be applied, with one exception (see below).
- **stream**: every result of up to four rows over four values (two with the
  same hash) and null, three rows and six bytes approved, batches of two, no
  LIMIT or one below, at or above the bound, either database, the deadline
  and three faults anywhere, those of the clean-up, of the commits and of
  recoveries under a live process included; one exact value and two hashes in
  the tracker, so that every switch happens; 6.2 million states. What is
  published is the approved prefix and called truncated when it is; the tracker
  and the counts are right; a failed execution reads nothing more, publishes
  nothing that had not reached its place before, and leaves a temporary file
  only after a second failure. Three faults are one that fails the execution, one
  that keeps its file from being removed, and one more.
- **install**: two runs (install, update, uninstall with any options) over two
  versions, the second of which ships a file that the first had not, two files
  of the user, one of which may be a directory the package needs as a file, two
  changes by the user, two failures, interrupts or kills; 3.6 million states. No
  file from before a run is lost, a run is all or nothing, and what is left is
  told, each up to the mishaps that the property names (see below).

**Standing still.** `OnlyKnownStops` says of every state of a started run, but
those named below, that the guard of a next command holds (`Onward`: start,
record, approve, resume to another status, or finalize; neither a revision nor a
new route), or that a builder has the turn (`BuildersTurn`: an approved query is
to be executed, or in `finalizing` lineage or the final report is to be built or
an open lease to end). The guards are the very operators the actions have as
conjuncts, so the property can be proved without ENABLED. They have every
condition of the code that a modelled command can falsify, the full audit and
the executable route included.

`Held` names where the code is known to need more:
- The route is not confirmed, and no stage starts, after `set_route` died with
  `route-plan.json` replaced, while a required input is missing, or once an
  input the route binds was superseded (`RouteHeld`).
- The stage whose turn it is does not start where `start_stage` died with the
  attempt directory made, where the stage's agent was reconfigured, or where it
  was revised before its dependencies were approved (`StageMayNotStart`).
- The output directory of an approved query is in place, left by a publisher that
  died and was given up (`QueryTaken`).
- A second `stop` has overwritten the boundary of the first.
- The audit fails (`AuditHeld`): a registered rollback plan was overwritten; a
  lease has no staging directory; the Review is of an earlier route, or the
  lineage or the query warnings are no longer those it declares; another shown or
  approved output names results that were withdrawn, or metrics that are no
  longer approved.

`NoWayToEnd` names where `finalizing` has no exit: a stage was
left behind, the route has no Review, or the lineage a final report names was
built anew or withdrawn; `finalize_run` refuses then, and the final report is not
published again for the same Report. `FinalizingCanEnd` speaks of the final
report, without which the last step is not taken and from which no revision
leads back: it can still be published, or is the right one. `EndHeld` names the
exceptions: a final report published under an earlier route is still active, or
a publisher died with its directory in place and was not recovered.

Of `AuditHeld` the instance of **query** reaches the causes of plan, lease and
route. The others take a third stage that is still open behind the Review, a
lineage, metric ids (`MetricIds` is empty in the instances) or an Insight or
Visualization beside a query; for them the property rests on the theorem
`RunsGoOn`, which holds for all roles, routes and constants.

Deadlock is not checked: a completed run, an ended execution and a finished
installation have no further step, and in every instance the bounds end all
behaviours. `MaxAttempt`, `MaxRoute`, `MaxQuery`, `MaxLease`, `MaxCrash`,
`MaxEvents`, `MaxRevision`, `MaxFaults`, `MaxVersion`, `MaxJobs` and `MaxWrites`
are bounds of the models, not of the code; the byte, row and hash limits of
ResultStream are the code's, made small.

**Fairness.** All modules but CommitLog assume none: nothing there obliges a user or an agent
to act, and a process may be killed. CommitLog's `FairSpec` has weak fairness of `Step` (a process
that holds the lock is running code without waits on other processes) and of
`BeginRecover` while the run is not healthy (every command is then refused with
the instruction to run `recover`, and the user or root task does). Crashes
are finitely many by their bound: a machine that crashes in every recovery
would never be healthy.

### Where the code and what is said of it differ

Each of these runs checks one statement of the repository and ends in a
counterexample.

- **plans**: every rollback plan is written to one path, so a second failed
  Review changes the file of a registered artifact, and the audit fails from
  then on.
- **lineage_end**: the check that lineage was rebuilt after the Report
  compares positions in the artifact list; a builder that read the state
  before the Report's approval may publish after it and passes.
- **one_active**: a publication that died between its two commits is
  completed by `recover-executions` without marking the older records of its
  kind superseded: two lineages (or chart manifests) are active.
- **reintroduced**: a workbench may bring back a metric which an earlier output
  had and the current one has not. The import gives it version 1, the
  validation wants the version of its last appearance plus one and the
  imported list exactly: every attempt fails until the user withdraws the edit.

Also observed, and part of the models, where `Held`, `NoWayToEnd`, `EndHeld` or the
wording of a property names them:

- A second `stop` of a stopped run records `stopped` as the boundary to resume
  to, so that `resume` leads from stopped to stopped (line 2797).
- In a fork, revising one branch clears the gate of the other, and
  `_next_pending_stage` never returns to a stage that awaits the user: the run
  enters `finalizing` with that stage unapproved. `finalize` refuses and no
  revision is allowed there; only `stop` and a new route lead on.
- The input bundle of a Review names the route revision of its attempt and
  the audit compares it with the current one: a Review carried over to a new
  route makes the run unfit to resume and finalize (line 1314).
- A query result that is published, or withdrawn, after a Review was approved
  changes the warnings the Review has to repeat (line 1541): the audit
  fails, and the run is neither resumed nor finalized until the Review is
  revised, which `finalizing` does not allow.
- A route may bind an artifact which the very command that registers it
  withdraws (line 860 after 782): it is then shown, and never confirmed.
- A query whose publisher died with the output directory in place, and whose lease
  was then ended by another command, is refused whenever it is executed (line 2302).
- A lease binds artifact files, which remain on disk when their stage is
  revised: lineage read before a revision is leased and published after it.
- A final report published under one route stays active under the next: neither
  a new route nor a new publication supersedes it, and `finalize_run` demands
  that there is one only (line 3499).
- `record_query_result` may fail in its second commit after the event is in the
  log, or between its commits with the output directory in place: the query
  runner reports a failure, its abort is refused or comes too late, and recovery
  completes the publication. `FailureLeavesNothing` says what rows that concerns.
- An interrupt between a rename of the installer and the note of it (582-583,
  584-585) is caught and undone as if the rename had not happened: a file of
  the user that was just moved is deleted with the stage, or the new package stays
  although the installer reports a failure.
- If anybody creates the destination while it is set aside, a rollback leaves the
  backup where it is and does not name it (600); an emptied directory that cannot
  be removed makes an uninstallation fail that has done everything else, and the
  warning that names a leftover backup is lost (828).
- Two installers on one destination exclude one another by nothing; a file
  written after the second has decided and before it swaps is lost with the
  backup of the first.

## 4. What is proved

Every safety invariant and action property that a passing run checks is stated by a
theorem below, for every value of the constants. `RunControlProofs.tla` and
`RunEndProofs.tla` prove for every number of stages, role assignment, set of
route plans and bound, from the assumption `ConstantsOK` alone:

| Theorem | Statement |
|---|---|
| `TypeCorrect` | `Spec => []TypeOK` |
| `InputsAlwaysApproved` | `Spec => []InputsApproved` |
| `ApprovalsAlwaysExact` | `Spec => []ApprovalsExact` |
| `OneRunsAtATime` | `Spec => []OneRunning` |
| `BoundariesAgree` | `Spec => []Boundaries` |
| `QueriesAreApproved` | `Spec => []QueryLeaseApproved` |
| `QueryResultsAlwaysCurrent` | `Spec => []QueryResultsCurrent` |
| `OnlyTheUserApproves` | `Spec => ApprovedByUser` |
| `ReportsAreReviewed` | `Spec => []ReportBehindReview` |
| `CompletedRunsAreConsistent` | `Spec => []CompletedIsConsistent` |
| `FinalizingRunsCanEnd` | `Spec => []FinalizingCanEnd` |
| `RunsGoOn` | `Spec => []OnlyKnownStops` |

**The argument.** The five invariants from `InputsApproved` to
`QueryLeaseApproved` support one another and none is inductive alone: their
conjunction is `Control`. That a running stage is the current one
(`OneRunning`) excludes `revise` under a running role only through the status
of the run (`Boundaries`); an approved stage keeps its inputs because a
revision takes every dependent with it, which needs `inputHashes` to equal the
artifacts now (`InputsApproved`); a carried-over stage is passing and approved
because `ApprovalsExact` held before; a query's lease survives a rollback only
if no query is open there (`Boundaries`, last but one conjunct). One lemma per
command shows that it keeps the five; the lemmas `InputsStep`,
`ApprovalsStep`, `IdleStep`, `SentBackStep` and `NoLeaseStep` state once what the
commands share. `DescendantsClosed` is the fact about the graph: a
stage that depends on a descendant is one. `NatMinimum` gives the first pending
stage.

`QueryResultsCurrent` needs more than `Control`: an old snapshot may hold SQL
that is no longer approved. `QueryBound` follows the SQL artifacts from the
request through the snapshot and the lease to the result, and says that a
snapshot whose revision is that of the open request carries that request's
SQL. Request numbers are never used twice (`queryRev` only grows), so a
stale snapshot gets no lease.

`ReviewInv` stands behind `ReportBehindReview`. A route has one Review and one
Report at most (`OneOfARole`), a Review that is shown or approved owns the newest
bundle, of its very attempt (`ReviewBundled`), a Report has a Review among its
ancestors that is not skipped (`ReviewRouted`), and a live Report a passing one
(`ReportBacked`). The last lasts because whatever a live stage descends
from is approved (`AncestorsApproved`), so that a revision of the Review, or of
anything behind it, takes the Report along; and because a stage that is carried
over into a new route is carried over with all its ancestors
(`SetRouteKeepsReviewInv`).

A completed run stays consistent because no command changes it (`CompletedRests`);
the one that could is a publication still under way, and no lease outlives a
stopped or completed run (`Halted`). `finalize_run` looks for one passing Review, one
approved Report and a final report of both; that these are all that is approved
of Report and Review takes `ApprovalsExact` (`BoundIsApproved`), and that the Review
read what its ancestors carry now takes `ReviewInv` (`FinalizeCompletes`).

`EndInv` follows the final report. What its builder has read is in the snapshot,
the lease or the result (`FinalWork`); it has a Report in it (`OneReport`); under the
first route it is the Report and the Review that are approved now (`FirstRoute`),
because nothing but another route leads away from the end (`EndRests`); and a
directory of a Report's is taken by one final report only, and without a crash
never while no final report is active (`OutputsTaken`).

`Turn` gives each boundary what its next command needs: the gate the user is asked
about (`GateWhere`), the query to approve or execute (`QueryWhere`), the stage to
start or go back to (`StageWhere`). It speaks of the boundary a stopped run would be
resumed to as well, since a resumed run finds what was there. `AuditInv` is what the
audit finds in order whatever happened: a stage was given inputs of its dependencies
only (`InputsGiven`), a lease executes in a directory of its own (`LeaseStaged`), and
the directory of a query that was never published is free unless a publisher died
(`QueryDirs`). With `Control` and `ReviewInv` it leaves the audit nothing to refuse
but what `AuditHeld` names (`AuditPasses`). From `Turn`, `AuditInv`,
`Control`, `ReviewInv` and `EndInv`, `RunsGoOn` has a lemma for each kind of boundary
(`StartDue`, `ReturnDue`, `ResumeDue`, `FinalizeDue`). An attempt at this proof that
failed added an exception to `NoWayToEnd`: lineage that was withdrawn after the final
report named it holds the run as lineage built anew does.

`PublicationProofs.tla` proves for any number of builders, kinds assigned to them,
and bounds: `TypeCorrect`, `NeverDangling` (`Spec => []NothingDangling`),
`AlwaysReconciled` (`Spec => Reconciled`) and `PointersSettle`
(`Spec => []PointerSettled`). The second needs that whoever is past
reading holds a revision the run has had (`Named`), and that what a
builder has placed stays in place until it settles, and what a dead publisher
left does until it is recovered (`Placed`); the third that a builder which
reconciles holds the lock, so what it found is still so when it writes
(`Consulting`). The last needs in addition that without a fault no kind has two
active records (`PointerInv`).

| Module | Theorem | Statement |
|---|---|---|
| `CommitLogProofs` | `LogTypeCorrect` | `Spec => []TypeOK` |
| | `FilesFollowTheWrites` | `Spec => []CommitInv`, the inductive invariant |
| | `TheLogStaysRecoverable` | `Spec => []EventsRecoverable` |
| | `StateIsNearHead` | `Spec => []StateNearHead` |
| | `CommittedApprovalsAreKept` | `Spec => []CommittedApprovalsKept` |
| | `RecoveryRestoresAgreement` | `Spec => []RecoverAgrees` |
| | `GatesAreAnsweredOnce` | `Spec => []OneApproval` |
| | `FilesImplementTheLedger` | `Spec => LedgerSpec`: CommitLog implements ApprovalLedger |
| `MetricVersionsProofs` | `TypeCorrect` | `Spec => []TypeOK` |
| | `VersionsAlwaysIdentify` | `Spec => []VersionsIdentify` |
| | `VersionsNeverSkipped` | `Spec => []NoVersionSkipped` |
| | `EditsStayIntact` | `Spec => []EditsIntact` |
| | `OnlyReintroductionsStick` | `Spec => []StuckOnlyByReintroduction` |
| | `EditsAreSettled` | `Spec => EditSettled` |
| `ResultStreamProofs` | `TypeCorrect` | `Spec => []TypeOK`, the limits of rows, bytes and hashes included |
| | `PublishedAlwaysExact` | `Spec => []PublishedExact` |
| | `DistinctAlwaysRight` | `Spec => []DistinctRight` |
| | `CountsAreRight` | `Spec => []CountRight` |
| | `AbortsReadNothing` | `Spec => AbortReadsNothing` |
| | `FailuresLeaveNothing` | `Spec => []FailureLeavesNothing` |
| `InstallerProofs` | `TypeCorrect` | `Spec => []TypeOK` |
| | `RunsAreAllOrNothing` | `Spec => []AllOrNothing`, with any number of installers |
| | `NothingIsLost` | `Spec => []NothingLost`, with one installer |
| | `LeftoversAreAlwaysTold` | `Spec => LeftoversAreTold`, with one installer |

**CommitLog.** What the lock holder has still to write (`todo`) determines how far
the three files are apart: `Phase` has a disjunct for each point of a command and of
a recovery. `TailKnown` says that a torn last event is one the state has not seen,
so that a command which trusts the state finds a log it can append to. `LogInv`
speaks of the contents: an approval answers a gate opened before it
(`GatesBefore`), no approval is filed twice (`NoTwice`), every approval of the log is
filed (`Kept`), gates and keys are used once (`OneApproval`). The key of an approval
that passes its checks is used by no event, because all approvals of the log are in
`approvals.jsonl`, where the code looks (`ApprovalAllowed`). The refinement
maps `history` to `events`: only a commit, whole or torn, appends an event, and its
change is allowed by the ledger then (`StepIsLedgerStep`). `Committed` is a
recursive function, and its values are established by induction over the set of
numbers for which they hold (`NatSetInduction` in OrderFacts), which takes no
operator as a parameter.

**MetricVersions.** A new output is compared with the last appearance of each
metric only. `VersionsIdentify` is inductive because that appearance agrees with
all before it: it carries the largest version of the metric so far. An edit
that was accepted stays applicable because, while it is pending, the stage
stands where it stood (`Pending`: nothing is recorded, the artifact is the
newest output, the file is registered and a registered file is never
written again), and because an import numbers a list as the validation expects
unless it brings a metric back (`NormalizedIsExpected`). `EditSettled` follows
from `Pending` for each command that drops an edit (`EditSettledStep`). Assumed
of the constants: that there is another name for a metric than a given one, so
that deleting the only metric leaves a list to record.

**ResultStream.** `Flow` follows the rows: what has come from the database is
the file and then the batch, in the order of the table. `Phases` says what is
open or failed at each step. The tracker keeps the smallest hashes because
a hash that is not kept is larger than all that are (`AddHashKeeps`); it is
shown for one value and for one step of the switch, and ResultStream adds the
rows. `Publishing` has what `FailureLeavesNothing` says of publications: a lease is
completed only with the rows in the output directory, where nothing but
`record_query_result` under its lock puts them. `Charged` counts the failures that a
file left behind has cost. For
`CountRight`, the tracker has finished its switch when the file is finished
(`Settled`), and the estimate lies between the hashes kept and the rows whatever the
hash function is (`CountIs`): k different hashes reach at least k - 1.

**Installer.** `Safe` says for each file of the user where it can be while an
installer is at work: in the destination, the backup, the stage, or a directory
left behind, depending on the step and on whether it has been moved (`Kept`).
A step moves a file from one of these places to the next, and the only
directories that are deleted are those in which no such file can be, but for a
file whose move was not noted, which is in `unnoted`. The theorem
needs that there is one installer, and so does `LeftoversAreAlwaysTold`, which adds
that nothing is at the destination as long as there is a backup to put back, unless
one of the mishaps has put something there (`Vacant`).
`AllOrNothing` needs neither: it speaks of runs that nobody disturbed, and
for those `Track` says at each step that what was found is still in place, or
whole in the backup and the tree the user's paths were moved to, or what an unnoted
rename has made of it. It is assumed that
no installer is called `None`, which stands for the user where `Disturb` says who
has changed the destination.

**Only model-checked.** `HealthyAgain`: liveness under fairness is out of reach of
the prover. What the runs show by counterexample (section 3) needs no proof. The
bounds `Max...` are parameters of the theorems like the other constants: they hold
whatever the bounds are, and so for every behaviour of the code that the models
have.

## 5. What is not modelled, and the plan

Not modelled for good: output validation and which SQL is accepted (pure
predicates over documents and syntax trees; the models treat their verdicts as
inputs), connection settings, schema inspection and the identity of a data
source (driver I/O), the contents of a result profile beside its distinct counts,
the evaluation harness and rendering (they keep no state of a run), `verify` and
dry runs of the installer. Of the controller, registration of external
artifacts (`ingest_artifact`, `register_artifacts`) and migration are not
modelled. The pointer files that go on naming withdrawn lineage until the next
build are no part of any commit, and no property speaks of them.

Planned, most important first:
1. Charts in RunControl: leases of kind charts, which may be published while a
   stage awaits the user, and the binding of the final report to charts, with
   the theorems of section 4 extended to them.
2. `StateDelta`: the delta encoding of events as functions over small nested
   documents, checked against application of the delta.
3. Proofs: nothing that the runs check now and the prover can state is left. What
   can be strengthened is `NothingIsLost` and `LeftoversAreAlwaysTold`, for several
   installers that work on the directory one after another, and the refinement of
   a ledger of stage approvals by RunControl.
