----------------------------- MODULE RunControl -----------------------------
(***************************************************************************)
(* The run-state controller of the analysis skill (src/scripts/runctl.py). *)
(*                                                                         *)
(* One run directory is shared by several processes: the root task that    *)
(* drives the agents, the user's approvals, and the deterministic builders *)
(* (query runner, lineage builder, report publisher).  Every mutating      *)
(* command runs under the run lock and ends in one committed state, so one *)
(* action is one command.  The builders read the state WITHOUT the lock,   *)
(* take an execution lease, work, and publish: these are separate actions. *)
(* A process that dies between two writes of a command leaves a prefix of  *)
(* them: the "...Crash" actions.  How one commit reaches the disk is the   *)
(* subject of CommitLog.tla.                                               *)
(*                                                                         *)
(* Data abstraction.  Stages are numbered by their position in the route.  *)
(* The artifact of a stage is named by the attempt that produced it (the   *)
(* recorded JSON carries stage and attempt, so two attempts never have the *)
(* same hash), 0 standing for "no artifact".  PASS stands for PASS and     *)
(* PASS_WITH_RISKS.  Of the content of an output the model keeps what the  *)
(* controller compares with parts of the run that later commands change:   *)
(* metric ids, results, facts and lineage breaks.  The break set of a      *)
(* lineage is abstracted to whether it is empty, and the quality warnings  *)
(* of a query result to whether there are any.  All queries have one id,   *)
(* the user brings no result files, and no chart is ready to be rendered.  *)
(***************************************************************************)
EXTENDS Naturals, FiniteSets, Sequences

CONSTANTS
    NumStages,      \* how many stage ids routes may use
    Role,           \* [Stages -> Roles]: the role a stage id is given
    Routes,         \* the route plans the root may propose
    MetricIds,      \* the metric ids an output may use
    AgentUpdates,   \* which roles' installed agents may differ from the run's
    Verdicts,       \* the outcomes agents may report
    MaxAttempt,     \* bound: attempts of one stage
    MaxRoute,       \* bound: route revisions
    MaxQuery,       \* bound: query revisions
    MaxLease,       \* bound: execution leases of the run
    MaxCrash        \* bound: processes that die inside a command

Stages  == 1..NumStages
NoStage == 0
Roles   == {"business", "metrics", "sql", "insight", "visualization", "review", "report"}

StageStatuses ==
    {"absent", "pending", "running", "awaiting_user_confirmation", "approved",
     "revising", "blocked", "failed", "stale", "skipped"}

Statuses ==
    {"initialized", "awaiting_route_confirmation", "running", "validating",
     "finalizing", "awaiting_user_confirmation", "awaiting_query_confirmation",
     "revising", "blocked", "failed", "stopped", "completed"}

(* The stage and run statuses that stand for work which waits to be done.  *)
Startable == {"pending", "revising", "stale"}

(* A route plan, as validate_route_plan.py reads it: every stage id is     *)
(* absent or has an initial status, and names the stages it depends on.    *)
(* "missing": it lacks a required input.                                   *)
RoutePlan == [status  : [Stages -> {"absent", "pending", "skipped", "stale"}],
              deps    : [Stages -> SUBSET Stages],
              missing : BOOLEAN]

ASSUME ConstantsOK ==
    /\ NumStages \in Nat \ {0}
    /\ Role \in [Stages -> Roles]
    /\ Routes \subseteq RoutePlan
    /\ AgentUpdates \subseteq SUBSET Roles
    /\ Verdicts \subseteq {"PASS", "BLOCKED", "FAIL"}
    /\ {MaxAttempt, MaxRoute, MaxQuery, MaxLease, MaxCrash} \subseteq Nat

VARIABLES
    status,         \* run status
    resumeStatus,   \* boundary recorded by stop ("none": not recorded)
    routeRevision,
    deps,           \* depends_on of every stage of the registered route
    stageStatus,    \* status of every stage; "absent": not in the route
    attempt,        \* attempt counter of every stage
    artifact,       \* attempt whose artifact the stage carries, 0 if none
    verdict,        \* stage_status of that artifact
    inputHashes,    \* per stage, the artifact of each dependency at its start
    receipt,        \* the running attempt has an agent receipt
    approved,       \* approved_artifacts: pairs <<stage, artifact>>
    currentStage,
    pendingStage,
    gate,           \* pending_approval
    query,          \* pending_query
    queryRev,       \* query requests registered so far
    bundle,         \* the newest review input bundle
    says,           \* content of the output every stage recorded last
    plan,           \* rollback-plan.json on disk
    plans,          \* rollback plans registered in the state, oldest first
    results,        \* active (not superseded) derived artifacts, by kind
    snapshot,       \* what a builder read before it asked for a lease
    lease,          \* the newest execution lease, while it is active
    leases,         \* how many leases were ever prepared
    disk,           \* what the run directory and the host hold beside the state
    crashes         \* processes that died inside a command

stageVars == <<deps, stageStatus, attempt, artifact, verdict, inputHashes, receipt>>
runVars   == <<status, resumeStatus, routeRevision, approved, currentStage,
               pendingStage, gate, query, queryRev>>
reviewVars == <<bundle, says, plan, plans>>
execVars  == <<results, snapshot, lease, leases>>
diskVars  == <<disk, crashes>>
vars      == <<stageVars, runVars, reviewVars, execVars, diskVars>>

-----------------------------------------------------------------------------
(* Values of the structured variables.                                     *)

NoGate  == [type |-> "none", stage |-> NoStage, rev |-> 0]
Gates   == [type : {"none", "route", "stage", "rollback"},
            stage : Stages \cup {NoStage}, rev : Nat]

NoQuery == [phase |-> "none", rev |-> 0, sql |-> {}]
Pairs   == Stages \X Nat

(* The work of a builder: the approved artifacts it reads, the query       *)
(* revision it executes, the lineage (by lease number) it binds, and the   *)
(* rollback plan among its inputs.                                         *)
NoPair  == <<NoStage, 0>>
NoWork  == [kind |-> "none", pairs |-> {}, rev |-> 0, lineage |-> 0, plan |-> NoPair]
NoLease == [phase |-> "none", work |-> NoWork, id |-> 0, route |-> 0,
            staged |-> FALSE, moved |-> FALSE]
NoBundle == [stage |-> NoStage, attempt |-> 0, route |-> 0, inputs |-> {}]
NoPlan  == [id |-> NoPair, target |-> NoStage, art |-> 0]
NoResults == [query |-> {}, lineage |-> <<>>, final |-> {}]

(* The content of an output: the metric ids it uses (a Metrics output: that *)
(* it defines), whether it states facts, the query results it names (the    *)
(* source of a Visualization, the warnings a Review repeats), and whether   *)
(* it declares lineage breaks.                                              *)
Content   == [metrics : SUBSET MetricIds, facts : BOOLEAN, results : SUBSET Nat,
              breaks : BOOLEAN]
NoContent == [metrics |-> {}, facts |-> FALSE, results |-> {}, breaks |-> FALSE]

(* What the registered route lacks, and the active artifacts it binds as    *)
(* inputs: query results by revision, lineages by lease.                    *)
NoInputs == [missing |-> FALSE, query |-> {}, lineage |-> {}]

-----------------------------------------------------------------------------
(* Graph and route helpers.                                                *)

Closed(g, X) == \A s \in Stages : (g[s] \cap X # {}) => s \in X

(* The stage and everything that depends on it, directly or not.           *)
DescendantsIn(g, t) ==
    {s \in Stages : \A X \in SUBSET Stages : (t \in X /\ Closed(g, X)) => s \in X}

AncestorsIn(g, t) == {a \in Stages \ {t} : t \in DescendantsIn(g, a)}

Descendants(t) == DescendantsIn(deps, t)
Ancestors(t)   == AncestorsIn(deps, t)

InRoute == {s \in Stages : stageStatus[s] # "absent"}

(* Faulty variant of NextPending: the position after it.                   *)
NextPendingShifted(ss) ==
    LET P == {s \in Stages : ss[s] \in Startable}
    IN  IF P = {} THEN NoStage ELSE 1 + CHOOSE s \in P : \A t \in P : s <= t

(* First stage, in route order, that waits to be worked on.                *)
NextPending(ss) ==
    LET P == {s \in Stages : ss[s] \in Startable}
    IN  IF P = {} THEN NoStage ELSE CHOOSE s \in P : \A t \in P : s <= t

ValidRoute(r) ==
    LET P == {s \in Stages : r.status[s] # "absent"} IN
    /\ \A s \in Stages \ P : r.deps[s] = {}
    /\ \A s \in P : \A d \in r.deps[s] : d \in P /\ d < s /\ r.status[d] # "skipped"
    /\ \A s, t \in P : Role[s] = Role[t] => s = t
    /\ \A s \in P : Role[s] = "report" =>
         \E v \in AncestorsIn(r.deps, s) : Role[v] = "review" /\ r.status[v] # "skipped"

AllowedTransitions ==
    [initialized |-> {"awaiting_route_confirmation", "stopped"},
     awaiting_route_confirmation |-> {"running", "finalizing", "blocked", "stopped", "completed"},
     running |-> {"validating", "finalizing", "revising", "awaiting_route_confirmation",
                  "awaiting_query_confirmation", "blocked", "failed", "stopped", "completed"},
     validating |-> {"finalizing", "revising", "awaiting_user_confirmation",
                     "awaiting_route_confirmation", "blocked", "failed", "stopped", "completed"},
     finalizing |-> {"completed", "failed", "stopped"},
     awaiting_user_confirmation |-> {"running", "finalizing", "revising",
                     "awaiting_route_confirmation", "awaiting_query_confirmation",
                     "stopped", "completed"},
     awaiting_query_confirmation |-> {"running", "revising", "awaiting_route_confirmation",
                                      "blocked", "stopped"},
     revising |-> {"running", "awaiting_route_confirmation", "blocked", "failed", "stopped"},
     blocked |-> {"running", "revising", "awaiting_route_confirmation", "stopped"},
     failed |-> {"revising", "awaiting_route_confirmation", "stopped"},
     stopped |-> {"awaiting_route_confirmation", "awaiting_user_confirmation",
                  "awaiting_query_confirmation", "revising", "running", "blocked",
                  "failed", "finalizing"},
     completed |-> {}]

(* _set_status(target) does not raise.                                     *)
CanMoveTo(target) == target = status \/ target \in AllowedTransitions[status]

-----------------------------------------------------------------------------
(* What the controller checks before it lets a command through.            *)

Pair(s) == <<s, artifact[s]>>

ApprovedOf(role) == {s \in Stages : Role[s] = role /\ stageStatus[s] = "approved" /\ artifact[s] # 0}

LastLineage == results.lineage[Len(results.lineage)]

ApprovedAncestors(s) ==
    {Pair(a) : a \in {b \in Ancestors(s) : stageStatus[b] = "approved" /\ artifact[b] # 0}}

InputsCurrent(s) ==
    \A d \in Stages : inputHashes[s][d] # 0 => artifact[d] = inputHashes[s][d]

(* Faulty variant of ReviewBound: a missing input bundle is let through.    *)
ReviewBoundIfAny(s) == bundle = NoBundle \/ bundle.stage = s

ReviewBound(s) ==
    bundle = [stage |-> s, attempt |-> attempt[s], route |-> routeRevision,
              inputs |-> ApprovedAncestors(s)]

LineageDeclared(breaks) ==
    ApprovedOf("metrics") # {} =>
        /\ results.lineage # <<>>
        /\ LastLineage.breaks = breaks

(* The active query results, and the warnings of the newest one.           *)
ActiveQueries == {r.rev : r \in results.query}
Warnings == {r.rev : r \in {q \in results.query :
                              q.warns /\ \A p \in results.query : p.rev <= q.rev}}

KnownMetrics == UNION {says[m].metrics : m \in ApprovedOf("metrics")}

(* Where Metrics are approved, an output uses no other metric ids.         *)
MetricsKnown(s, c) ==
    /\ Role[s] \in {"sql", "insight", "visualization", "report"}
    /\ KnownMetrics # {}
    => c.metrics \subseteq KnownMetrics

(* Facts need a registered result, a chart source must be one.             *)
ResultsKnown(s, c) ==
    /\ Role[s] = "insight" /\ c.facts => ActiveQueries # {}
    /\ Role[s] = "visualization" => c.results \subseteq ActiveQueries

WarningsRepeated(s, c) == Role[s] = "review" => c.results = Warnings

(* _validate_stage_context: an output with content c of stage s, against   *)
(* the run.                                                                *)
ContextOK(s, c) ==
    /\ InputsCurrent(s)
    /\ MetricsKnown(s, c) /\ ResultsKnown(s, c) /\ WarningsRepeated(s, c)
    /\ Role[s] = "review" => ReviewBound(s) /\ LineageDeclared(c.breaks)
    /\ Role[s] = "report" => \E v \in ApprovedOf("review") : verdict[v] = "PASS"

PassingReviews == {v \in ApprovedOf("review") : verdict[v] = "PASS" /\ Pair(v) \in approved}

(* audit_run reports no error.                                             *)
AuditClean ==
    /\ disk.routeFile
    /\ \A i \in 1..Len(plans) : plans[i] = plan.id
    /\ \A s \in Stages : stageStatus[s] \in {"approved", "awaiting_user_confirmation"}
                            => ContextOK(s, says[s])
    /\ \A p \in approved : stageStatus[p[1]] # "absent" /\ p[2] = artifact[p[1]]
    /\ lease.phase \in {"prepared", "executing"} => lease.staged

-----------------------------------------------------------------------------
(* Effects shared by several commands.                                     *)

(* Faulty variant of Without: SQL work is not an input of query results.   *)
WithoutForgetsSql(affected) ==
    [results EXCEPT
        !.query   = IF {Role[s] : s \in affected} \cap {"business", "metrics"} # {}
                    THEN {} ELSE @,
        !.lineage = IF {Role[s] : s \in affected} \subseteq {"business"} THEN @ ELSE <<>>]

(* _invalidate_derived_artifacts: the active results of the kinds that the *)
(* roles of the affected stages feed.                                      *)
Without(affected) ==
    LET roles == {Role[s] : s \in affected} IN
    [results EXCEPT
        !.query   = IF roles \cap {"business", "metrics", "sql"} # {} THEN {} ELSE @,
        !.lineage = IF roles \subseteq {"business"} THEN @ ELSE <<>>]

(* Faulty variant of SentBack: work downstream keeps its status.           *)
SentBackAlone(t) == [stageStatus EXCEPT ![t] = "revising"]

(* The stages after stage t is sent back: t revises, the work downstream   *)
(* that had begun is stale.                                                *)
SentBack(t) ==
    [s \in Stages |->
        IF s = t THEN "revising"
        ELSE IF s \in Descendants(t) /\ stageStatus[s] \notin {"absent", "pending", "skipped"}
        THEN "stale" ELSE stageStatus[s]]

(* Faulty variant of ApprovalsWithout: approvals of replaced work survive. *)
ApprovalsKept(affected) == approved

ApprovalsWithout(affected) == {p \in approved : p[1] \notin affected}

(* Where the run goes when no gate is left: to the next stage, or on to    *)
(* finalization.                                                           *)
NextStatus(ss) == IF NextPending(ss) = NoStage THEN "finalizing" ELSE "running"

Proceed(ss) ==
    /\ status' = NextStatus(ss)
    /\ pendingStage' = NextPending(ss)

Dies == crashes < MaxCrash /\ crashes' = crashes + 1

LineageIds == {results.lineage[i].id : i \in 1..Len(results.lineage)}

(* _load_verified_route(require_executable=True): the file is the one that *)
(* was registered, nothing is missing, and no bound input is superseded.   *)
RouteExecutable ==
    /\ disk.routeFile
    /\ ~disk.inputs.missing
    /\ disk.inputs.query \subseteq ActiveQueries
    /\ disk.inputs.lineage \subseteq LineageIds

-----------------------------------------------------------------------------
Init ==
    /\ status = "initialized" /\ resumeStatus = "none" /\ routeRevision = 0
    /\ deps = [s \in Stages |-> {}]
    /\ stageStatus = [s \in Stages |-> "absent"]
    /\ attempt = [s \in Stages |-> 0]
    /\ artifact = [s \in Stages |-> 0]
    /\ verdict = [s \in Stages |-> "none"]
    /\ inputHashes = [s \in Stages |-> [d \in Stages |-> 0]]
    /\ receipt = FALSE
    /\ approved = {} /\ currentStage = NoStage /\ pendingStage = NoStage
    /\ gate = NoGate /\ query = NoQuery /\ queryRev = 0
    /\ bundle = NoBundle /\ says = [s \in Stages |-> NoContent]
    /\ plan = NoPlan /\ plans = <<>>
    /\ results = NoResults /\ snapshot = NoWork /\ lease = NoLease /\ leases = 0
    /\ disk = [routeFile |-> TRUE, inputs |-> NoInputs,
               attemptDir |-> [s \in Stages |-> 0], queryDir |-> 0, outputs |-> {},
               agents |-> {}]
    /\ crashes = 0

-----------------------------------------------------------------------------
(* set_route.  r is the plan, reuse the stages it gives status "approved"  *)
(* and lists under reused_approved_artifacts (r.status is then unused).    *)
(* The inputs it binds are active artifacts, which this very command may   *)
(* withdraw.  Proposing the pending route once more returns without a      *)
(* commit.                                                                 *)

(* Faulty variant of CanReuse: a stage that was not approved is carried    *)
(* over.                                                                   *)
CanReuseRevised(r, reuse, s) == /\ artifact[s] # 0 /\ deps[s] = r.deps[s]
                                /\ r.deps[s] \subseteq reuse
CanReuse(r, reuse, s) ==
    /\ stageStatus[s] = "approved" /\ artifact[s] # 0 /\ Pair(s) \in approved
    /\ deps[s] = r.deps[s]
    /\ r.deps[s] \subseteq reuse

CanSetRoute(r, reuse) ==
    /\ routeRevision < MaxRoute
    /\ currentStage = NoStage
    /\ status # "completed" /\ CanMoveTo("awaiting_route_confirmation")
    /\ \A s \in Stages : stageStatus[s] # "running"
    /\ \A s \in Stages : r.status[s] # "absent" /\ stageStatus[s] = "absent"
                            => disk.attemptDir[s] = 0
    /\ \A s \in reuse : r.status[s] \in {"pending", "stale"} /\ CanReuse(r, reuse, s)
    /\ ValidRoute(r)

SetRoute(r, reuse) ==
    /\ CanSetRoute(r, reuse)
    /\ status' = "awaiting_route_confirmation"
    /\ routeRevision' = routeRevision + 1
    /\ deps' = r.deps
    /\ stageStatus' = [s \in Stages |-> IF s \in reuse THEN "approved" ELSE r.status[s]]
    /\ attempt' = [s \in Stages |-> IF r.status[s] = "absent" THEN 0 ELSE attempt[s]]
    /\ artifact' = [s \in Stages |-> IF s \in reuse THEN artifact[s] ELSE 0]
    /\ verdict' = [s \in Stages |-> IF s \in reuse THEN verdict[s] ELSE "none"]
    /\ inputHashes' = [s \in Stages |-> IF s \in reuse THEN inputHashes[s]
                                         ELSE [d \in Stages |-> 0]]
    /\ receipt' = FALSE
    /\ approved' = {p \in approved : p[1] \in reuse}
    /\ results' = IF InRoute \ reuse = {} THEN results ELSE Without(InRoute \ reuse)
    /\ currentStage' = NoStage /\ pendingStage' = NoStage
    /\ query' = NoQuery
    /\ gate' = [type |-> "route", stage |-> NoStage, rev |-> routeRevision + 1]
    /\ lease' = NoLease
    /\ \E query_inputs \in SUBSET ActiveQueries, lineage_inputs \in SUBSET LineageIds :
         disk' = [disk EXCEPT !.routeFile = TRUE,
                              !.inputs = [missing |-> r.missing, query |-> query_inputs,
                                          lineage |-> lineage_inputs]]
    /\ UNCHANGED <<resumeStatus, queryRev, reviewVars, snapshot, leases, crashes>>

(* The process dies after route-plan.json was replaced, before the commit. *)
SetRouteCrash(r, reuse) ==
    /\ CanSetRoute(r, reuse)
    /\ Dies
    /\ disk' = [disk EXCEPT !.routeFile = FALSE]
    /\ UNCHANGED <<stageVars, runVars, reviewVars, execVars>>

-----------------------------------------------------------------------------
(* start_stage.                                                            *)

CanStart(s) ==
    /\ status \in {"running", "revising"}
    /\ \A t \in Stages : stageStatus[t] # "running"
    /\ gate = NoGate /\ query = NoQuery
    /\ RouteExecutable
    /\ pendingStage = s
    /\ stageStatus[s] \in Startable
    /\ Role[s] \notin disk.agents         \* the agent is configured as the run recorded
    /\ \A d \in deps[s] : stageStatus[d] = "approved" /\ artifact[d] # 0 /\ Pair(d) \in approved
    /\ Role[s] = "report" => Ancestors(s) \cap PassingReviews # {}
    /\ attempt[s] < MaxAttempt
    /\ disk.attemptDir[s] = attempt[s]      \* mkdir(attempt-n, exist_ok=False)

(* The input bundle of a Review is registered by a second commit; "bundled" *)
(* is FALSE when the process dies between the two.                          *)
StartStage(s, bundled) ==
    /\ CanStart(s)
    /\ attempt' = [attempt EXCEPT ![s] = @ + 1]
    /\ stageStatus' = [stageStatus EXCEPT ![s] = "running"]
    /\ inputHashes' = [inputHashes EXCEPT ![s] =
                          [d \in Stages |-> IF d \in deps[s] THEN artifact[d] ELSE 0]]
    /\ receipt' = FALSE
    /\ currentStage' = s /\ pendingStage' = NoStage
    /\ status' = "running"
    /\ disk' = [disk EXCEPT !.attemptDir = [@ EXCEPT ![s] = attempt[s] + 1]]
    /\ \/ /\ bundled
          /\ UNCHANGED crashes
          /\ bundle' = IF Role[s] # "review" THEN bundle
                       ELSE [stage |-> s, attempt |-> attempt[s] + 1,
                             route |-> routeRevision, inputs |-> ApprovedAncestors(s)]
       \/ ~bundled /\ Role[s] = "review" /\ Dies /\ UNCHANGED bundle
    /\ UNCHANGED <<deps, artifact, verdict, resumeStatus, routeRevision, approved,
                   gate, query, queryRev, says, plan, plans, execVars>>

(* The process dies after it created the attempt directory, before the     *)
(* commit.                                                                 *)
StartStageCrash(s) ==
    /\ CanStart(s)
    /\ Dies
    /\ disk' = [disk EXCEPT !.attemptDir = [@ EXCEPT ![s] = attempt[s] + 1]]
    /\ UNCHANGED <<stageVars, runVars, reviewVars, execVars>>

(* record_agent_receipt: one receipt per attempt, of an agent that is      *)
(* configured as the run recorded.                                         *)
RecordReceipt ==
    /\ \E s \in Stages : stageStatus[s] = "running" /\ Role[s] \notin disk.agents
    /\ ~receipt
    /\ receipt' = TRUE
    /\ UNCHANGED <<deps, stageStatus, attempt, artifact, verdict, inputHashes,
                   runVars, reviewVars, execVars, diskVars>>

-----------------------------------------------------------------------------
(* record_stage.                                                           *)

Recording(s) == status = "running" /\ currentStage = s /\ CanMoveTo("failed")

(* The output does not validate, by itself or against the run: the stage   *)
(* fails, and remains the current stage.                                   *)
RecordStageInvalid(s) ==
    /\ Recording(s)
    /\ status' = "failed"
    /\ stageStatus' = [stageStatus EXCEPT ![s] = "failed"]
    /\ UNCHANGED <<deps, attempt, artifact, verdict, inputHashes, receipt, resumeStatus,
                   routeRevision, approved, currentStage, pendingStage, gate, query,
                   queryRev, reviewVars, execVars, diskVars>>

(* A valid output with its receipt, and content c.                         *)
Recorded(s, v, c) ==
    /\ Recording(s)
    /\ ContextOK(s, c)
    /\ receipt
    /\ artifact' = [artifact EXCEPT ![s] = attempt[s]]
    /\ verdict' = [verdict EXCEPT ![s] = v]
    /\ says' = [says EXCEPT ![s] = c]
    /\ UNCHANGED <<deps, attempt, inputHashes, receipt, resumeStatus, routeRevision,
                   approved, query, queryRev, bundle, execVars>>

RecordStagePass(s, c) ==
    /\ Recorded(s, "PASS", c)
    /\ stageStatus' = [stageStatus EXCEPT ![s] = "awaiting_user_confirmation"]
    /\ status' = "awaiting_user_confirmation"
    /\ gate' = [type |-> "stage", stage |-> s, rev |-> attempt[s]]
    /\ UNCHANGED <<currentStage, pendingStage, plan, plans, diskVars>>

RecordStageBlocked(s, c) ==
    /\ Recorded(s, "BLOCKED", c)
    /\ stageStatus' = [stageStatus EXCEPT ![s] = "blocked"]
    /\ status' = "blocked"
    /\ gate' = NoGate
    /\ currentStage' = NoStage /\ pendingStage' = s
    /\ UNCHANGED <<plan, plans, diskVars>>

(* A failed Review names the approved ancestor to go back to (target), and *)
(* its rollback plan replaces rollback-plan.json.                          *)
RecordStageFail(s, c, target) ==
    /\ Recorded(s, "FAIL", c)
    /\ stageStatus' = [stageStatus EXCEPT ![s] = "failed"]
    /\ status' = "failed"
    /\ currentStage' = NoStage /\ pendingStage' = s
    /\ IF Role[s] = "review"
       THEN /\ target \in Ancestors(s)
            /\ stageStatus[target] = "approved" /\ artifact[target] # 0
            /\ plan' = [id |-> <<s, attempt[s]>>, target |-> target, art |-> artifact[target]]
            /\ plans' = Append(plans, <<s, attempt[s]>>)
            /\ gate' = [type |-> "rollback", stage |-> target, rev |-> attempt[s]]
       ELSE target = s /\ gate' = NoGate /\ UNCHANGED <<plan, plans>>
    /\ UNCHANGED diskVars

(* What the output of a stage may say: where no stage is Metrics, what a   *)
(* Review says of lineage breaks is compared with nothing; the ids an      *)
(* Insight uses are those of its observations, which are facts.            *)
Declarable(s) ==
    {c \in [metrics : SUBSET MetricIds, facts : BOOLEAN, results : SUBSET (1..queryRev),
            breaks : BOOLEAN] :
        /\ c.metrics # {} => Role[s] \notin {"business", "review"}
        /\ c.facts => Role[s] = "insight"
        /\ Role[s] = "insight" /\ c.metrics # {} => c.facts
        /\ c.results # {} => Role[s] \in {"visualization", "review"}
        /\ c.breaks => Role[s] = "review" /\ \E m \in Stages : Role[m] = "metrics"}

(* The process dies after rollback-plan.json was replaced, before the      *)
(* commit.                                                                 *)
RecordStageCrash(s, target) ==
    /\ Recording(s) /\ Role[s] = "review" /\ receipt
    /\ \E c \in Declarable(s) : ContextOK(s, c)
    /\ target \in Ancestors(s) /\ stageStatus[target] = "approved" /\ artifact[target] # 0
    /\ plan' = [id |-> <<s, attempt[s]>>, target |-> target, art |-> artifact[target]]
    /\ Dies
    /\ UNCHANGED <<stageVars, runVars, bundle, says, plans, execVars, disk>>

-----------------------------------------------------------------------------
(* approve, by type.  The idempotency key and the two log writes of an     *)
(* approval are the subject of CommitLog.tla.                              *)

CanApproveRoute ==
    /\ gate.type = "route" /\ gate.rev = routeRevision
    /\ status = "awaiting_route_confirmation"
    /\ RouteExecutable
    /\ CanMoveTo(NextStatus(stageStatus))

ApproveRoute ==
    /\ CanApproveRoute
    /\ Proceed(stageStatus)
    /\ gate' = NoGate
    /\ UNCHANGED <<stageVars, resumeStatus, routeRevision, approved, currentStage, query,
                   queryRev, reviewVars, execVars, diskVars>>

CanApproveStage(s) ==
    /\ gate = [type |-> "stage", stage |-> s, rev |-> artifact[s]]
    /\ status = "awaiting_user_confirmation"
    /\ stageStatus[s] = "awaiting_user_confirmation" /\ artifact[s] # 0
    /\ verdict[s] = "PASS"
    /\ CanMoveTo(NextStatus([stageStatus EXCEPT ![s] = "approved"]))

ApproveStage(s) ==
    /\ CanApproveStage(s)
    /\ stageStatus' = [stageStatus EXCEPT ![s] = "approved"]
    /\ approved' = approved \cup {Pair(s)}
    /\ gate' = NoGate
    /\ currentStage' = NoStage
    /\ Proceed(stageStatus')
    /\ UNCHANGED <<deps, attempt, artifact, verdict, inputHashes, receipt, resumeStatus,
                   routeRevision, query, queryRev, reviewVars, execVars, diskVars>>

CanApproveQuery == query.phase = "prepared" /\ status = "awaiting_query_confirmation"

ApproveQuery ==
    /\ CanApproveQuery
    /\ query' = [query EXCEPT !.phase = "approved"]
    /\ status' = "running"
    /\ UNCHANGED <<stageVars, resumeStatus, routeRevision, approved, currentStage,
                   pendingStage, gate, queryRev, reviewVars, execVars, diskVars>>

CanApproveRollback(t) ==
    /\ gate = [type |-> "rollback", stage |-> t, rev |-> plan.id[2]]
    /\ status = "failed"
    /\ plans # <<>> /\ plans[Len(plans)] = plan.id        \* the file still has its hash
    /\ plan.target = t
    /\ t \in Ancestors(plan.id[1])
    /\ artifact[t] = plan.art

(* Active leases are NOT aborted here, unlike in revise.                   *)
ApproveRollback(t) ==
    /\ CanApproveRollback(t)
    /\ stageStatus' = SentBack(t)
    /\ approved' = ApprovalsWithout(Descendants(t))
    /\ results' = Without(Descendants(t))
    /\ status' = "revising"
    /\ currentStage' = NoStage /\ pendingStage' = t
    /\ gate' = NoGate /\ query' = NoQuery
    /\ UNCHANGED <<deps, attempt, artifact, verdict, inputHashes, receipt, resumeStatus,
                   routeRevision, queryRev, reviewVars, snapshot, lease, leases, diskVars>>

-----------------------------------------------------------------------------
(* revise.  The metric edits (metric-edit, workbench import) send the      *)
(* Metrics stage back the same way.                                        *)

(* Faulty variant of CanRevise: a role may be at work.                     *)
CanReviseAnytime(t) ==
    /\ status \in {"awaiting_user_confirmation", "awaiting_query_confirmation", "running",
                   "blocked", "failed"}
    /\ gate.type # "rollback" /\ t \in InRoute

CanRevise(t) ==
    /\ status \in {"awaiting_user_confirmation", "awaiting_query_confirmation", "running",
                   "blocked", "failed"}
    /\ status = "running" => /\ currentStage = NoStage
                             /\ \A s \in Stages : stageStatus[s] # "running"
    /\ gate.type # "rollback"
    /\ t \in InRoute

Revise(t) ==
    /\ CanRevise(t)
    /\ stageStatus' = SentBack(t)
    /\ approved' = ApprovalsWithout(Descendants(t))
    /\ results' = Without(Descendants(t))
    /\ status' = "revising"
    /\ currentStage' = NoStage /\ pendingStage' = t
    /\ gate' = NoGate /\ query' = NoQuery
    /\ lease' = NoLease
    /\ UNCHANGED <<deps, attempt, artifact, verdict, inputHashes, receipt, resumeStatus,
                   routeRevision, queryRev, reviewVars, snapshot, leases, diskVars>>

(* stop.                                                                   *)
Stop ==
    /\ status # "completed" /\ CanMoveTo("stopped")
    /\ resumeStatus' = status
    /\ status' = "stopped"
    /\ lease' = NoLease
    /\ UNCHANGED <<stageVars, routeRevision, approved, currentStage, pendingStage, gate,
                   query, queryRev, reviewVars, results, snapshot, leases, diskVars>>

(* resume: back to the boundary stop recorded, or out of the status a dead *)
(* process left; an interrupted attempt is given up.                       *)
ResumeTarget == IF status = "stopped" THEN resumeStatus ELSE status
Interrupted  == IF currentStage # NoStage THEN currentStage ELSE pendingStage

(* Faulty variant of GivesUp: a blocked or failed stage is not restarted.  *)
GivesUpRunning ==
    /\ Interrupted # NoStage
    /\ ResumeTarget \in {"running", "validating"}
    /\ stageStatus[Interrupted] \in {"running", "failed", "blocked"}

GivesUp ==
    /\ Interrupted # NoStage
    /\ \/ /\ ResumeTarget \in {"running", "validating"}
          /\ stageStatus[Interrupted] \in {"running", "failed", "blocked"}
       \/ ResumeTarget \in {"blocked", "failed"} /\ gate.type # "rollback"

ResumedStatus ==
    IF GivesUp THEN "revising"
    ELSE IF Interrupted # NoStage /\ ResumeTarget = "blocked" THEN "failed"
    ELSE IF ResumeTarget = "initialized" THEN "awaiting_route_confirmation"
    ELSE ResumeTarget

CanResume ==
    /\ status \in {"running", "validating", "finalizing", "stopped", "blocked", "failed"}
    /\ AuditClean
    /\ ResumeTarget # "none"
    /\ CanMoveTo(ResumedStatus)

Resume ==
    /\ CanResume
    /\ status' = ResumedStatus
    /\ resumeStatus' = "none"
    /\ IF GivesUp
       THEN /\ stageStatus' = [stageStatus EXCEPT ![Interrupted] = "revising"]
            /\ currentStage' = NoStage /\ pendingStage' = Interrupted
       ELSE UNCHANGED <<stageStatus, currentStage, pendingStage>>
    /\ lease' = NoLease
    /\ UNCHANGED <<deps, attempt, artifact, verdict, inputHashes, receipt, routeRevision,
                   approved, gate, query, queryRev, reviewVars, results, snapshot, leases, diskVars>>

-----------------------------------------------------------------------------
(* prepare_query: a query of the approved SQL stage.                       *)

CanPrepareQuery ==
    /\ status = "running"
    /\ currentStage = NoStage /\ query = NoQuery
    /\ ApprovedOf("sql") # {}
    /\ disk.queryDir = queryRev            \* the revision directory is new
    /\ queryRev < MaxQuery

PrepareQuery ==
    /\ CanPrepareQuery
    /\ queryRev' = queryRev + 1
    /\ query' = [phase |-> "prepared", rev |-> queryRev + 1,
                 sql |-> {Pair(s) : s \in ApprovedOf("sql")}]
    /\ status' = "awaiting_query_confirmation"
    /\ disk' = [disk EXCEPT !.queryDir = queryRev + 1]
    /\ UNCHANGED <<stageVars, resumeStatus, routeRevision, approved, currentStage,
                   pendingStage, gate, reviewVars, execVars, crashes>>

(* The process dies after it created the revision directory.               *)
PrepareQueryCrash ==
    /\ CanPrepareQuery
    /\ Dies
    /\ disk' = [disk EXCEPT !.queryDir = queryRev + 1]
    /\ UNCHANGED <<stageVars, runVars, reviewVars, execVars>>

-----------------------------------------------------------------------------
(* Builders.  A builder first reads the state, without the run lock.       *)

ReadForQuery ==
    /\ status = "running" /\ query.phase = "approved"
    /\ snapshot' = [NoWork EXCEPT !.kind = "query", !.pairs = query.sql, !.rev = query.rev]

(* build_lineage.build: every approved stage output, and every active      *)
(* artifact as a bound input.                                              *)
ReadForLineage ==
    /\ status # "completed"
    /\ snapshot' = [NoWork EXCEPT
          !.kind = "lineage",
          !.pairs = {Pair(s) : s \in {t \in Stages : stageStatus[t] = "approved" /\ artifact[t] # 0}},
          !.plan = IF plans = <<>> THEN NoPair ELSE plans[Len(plans)]]

(* Faulty variant of ReadForReport: only the Report is bound.              *)
ReadForReportOnly ==
    /\ status = "finalizing"
    /\ Cardinality(ApprovedOf("report")) = 1 /\ ApprovedOf("review") # {}
    /\ results.final = {}
    /\ snapshot' = [NoWork EXCEPT
          !.kind = "final_report", !.pairs = {Pair(s) : s \in ApprovedOf("report")},
          !.lineage = IF results.lineage = <<>> THEN 0 ELSE LastLineage.id]

(* publish_final_report, up to its lease.  A report already published for  *)
(* this Report artifact is returned as it is.                              *)
ReadForReport ==
    /\ status = "finalizing"
    /\ Cardinality(ApprovedOf("report")) = 1 /\ ApprovedOf("review") # {}
    /\ \A v \in ApprovedOf("review") : verdict[v] = "PASS"
    /\ LET pairs == {Pair(s) : s \in ApprovedOf("report") \cup ApprovedOf("review")} IN
       /\ \A f \in results.final : f.pairs \cap {Pair(s) : s \in ApprovedOf("report")} = {}
       /\ snapshot' = [NoWork EXCEPT
              !.kind = "final_report", !.pairs = pairs,
              !.lineage = IF results.lineage = <<>> THEN 0 ELSE LastLineage.id]

Read ==
    /\ snapshot = NoWork /\ leases < MaxLease
    /\ ReadForQuery \/ ReadForLineage \/ ReadForReport
    /\ UNCHANGED <<stageVars, runVars, reviewVars, results, lease, leases, diskVars>>

(* The bound inputs that can change on disk: the rollback plan.            *)
InputsUnchanged(work) == work.plan # NoPair => work.plan = plan.id

(* Faulty variant of QueryStillApproved: any approved query will do.       *)
AnyQueryApproved(work) == work.kind = "query" => query.phase = "approved"

QueryStillApproved(work) ==
    work.kind = "query" => query.phase = "approved" /\ query.rev = work.rev

(* begin_execution_lease.  It commits "prepared", creates the staging      *)
(* directory, commits "executing"; "ended" is FALSE when the process dies  *)
(* in between, with or without the directory.                              *)
BeginLease(ended, staged) ==
    /\ snapshot # NoWork
    /\ status \notin {"completed", "stopped", "failed", "blocked"}
    /\ lease = NoLease
    /\ QueryStillApproved(snapshot) /\ InputsUnchanged(snapshot)
    /\ leases < MaxLease
    /\ leases' = leases + 1
    /\ lease' = [phase |-> IF ended THEN "executing" ELSE "prepared", work |-> snapshot,
                 id |-> leases + 1, route |-> routeRevision, staged |-> staged, moved |-> FALSE]
    /\ snapshot' = NoWork
    /\ IF ended THEN staged /\ UNCHANGED crashes ELSE Dies
    /\ UNCHANGED <<stageVars, runVars, reviewVars, results, disk>>

(* The lease was refused, or the builder died before it asked.             *)
DropSnapshot ==
    /\ snapshot # NoWork
    /\ snapshot' = NoWork
    /\ UNCHANGED <<stageVars, runVars, reviewVars, results, lease, leases, diskVars>>

(* A lease is given up: by its holder, by the user, because it expired or  *)
(* because its publication was refused.                                    *)
AbortLease ==
    /\ lease # NoLease
    /\ lease' = NoLease
    /\ UNCHANGED <<stageVars, runVars, reviewVars, results, snapshot, leases, diskVars>>

(* _validate_execution_lease_locked.                                       *)
LeaseValid ==
    /\ lease.phase = "executing"
    /\ status \in {"running", "finalizing"}
    /\ routeRevision = lease.route
    /\ QueryStillApproved(lease.work) /\ InputsUnchanged(lease.work)

(* The immutable output directory of the leased work: of a query revision, *)
(* or of the final version of a Report artifact.  A lineage has one of its *)
(* own for each content.                                                   *)
Output ==
    CASE lease.work.kind = "query"        -> {<<NoStage, lease.work.rev>>}
      [] lease.work.kind = "final_report" -> {p \in lease.work.pairs : Role[p[1]] = "report"}
      [] OTHER                            -> {}

OutputIsNew == Output \cap disk.outputs = {}

QueryRecord(warns) == [rev |-> lease.work.rev, pairs |-> lease.work.pairs, warns |-> warns]
FinalRecord == [pairs |-> lease.work.pairs, lineage |-> lease.work.lineage]

(* "after": the Reports a lineage was registered after.                    *)
LineageRecord(breaks) ==
    [id |-> lease.id, pairs |-> lease.work.pairs, breaks |-> breaks,
     after |-> {Pair(s) : s \in {t \in InRoute : Role[t] = "report" /\ artifact[t] # 0}}]

(* The warnings of a result matter to a Review only.                       *)
WarningsPossible == {w \in BOOLEAN : w => \E s \in Stages : Role[s] = "review"}

(* Only the approved Metrics can have breaks.                              *)
BreaksPossible(pairs) == {b \in BOOLEAN : b => \E p \in pairs : Role[p[1]] = "metrics"}

(* record_query_result.  The move of the staging directory lies between    *)
(* the commits "publishing" and "completed".                               *)
PublishQuery(warns) ==
    /\ LeaseValid /\ lease.work.kind = "query" /\ OutputIsNew
    /\ CanMoveTo("running")
    /\ warns \in WarningsPossible
    /\ results' = [results EXCEPT !.query = @ \cup {QueryRecord(warns)}]
    /\ query' = NoQuery
    /\ status' = "running"
    /\ lease' = NoLease
    /\ disk' = [disk EXCEPT !.outputs = @ \cup Output]
    /\ UNCHANGED <<stageVars, resumeStatus, routeRevision, approved, currentStage,
                   pendingStage, gate, queryRev, reviewVars, snapshot, leases, crashes>>

(* publish_execution_artifacts of a lineage: supersedes the earlier ones.  *)
PublishLineage(breaks) ==
    /\ LeaseValid /\ lease.work.kind = "lineage"
    /\ breaks \in BreaksPossible(lease.work.pairs)
    /\ results' = [results EXCEPT !.lineage = <<LineageRecord(breaks)>>]
    /\ lease' = NoLease
    /\ UNCHANGED <<stageVars, runVars, reviewVars, snapshot, leases, diskVars>>

(* publish_final_report, from its second lock on.  The output directory is *)
(* named after the Report attempt and its content.                         *)
PublishReport ==
    /\ LeaseValid /\ lease.work.kind = "final_report" /\ OutputIsNew
    /\ results' = [results EXCEPT !.final = @ \cup {FinalRecord}]
    /\ lease' = NoLease
    /\ disk' = [disk EXCEPT !.outputs = @ \cup Output]
    /\ UNCHANGED <<stageVars, runVars, reviewVars, snapshot, leases, crashes>>

(* The publisher dies after the commit "publishing", before or after the   *)
(* output directory is in place; a lineage is in place beforehand.         *)
PublishCrash(moved) ==
    /\ LeaseValid /\ OutputIsNew
    /\ lease.work.kind = "lineage" => moved
    /\ Dies
    /\ lease' = [lease EXCEPT !.phase = "publishing", !.moved = moved]
    /\ disk' = [disk EXCEPT !.outputs = IF moved THEN @ \cup Output ELSE @]
    /\ UNCHANGED <<stageVars, runVars, reviewVars, results, snapshot, leases>>

(* recover_execution_leases: completes a publication whose files are in    *)
(* place, without superseding older results; gives up any other lease.     *)
RecoverExecutions(breaks, warns) ==
    /\ lease # NoLease
    /\ lease' = NoLease
    /\ breaks \in BreaksPossible(lease.work.pairs)
    /\ warns \in WarningsPossible
    /\ \/ /\ ~(lease.phase = "publishing" /\ lease.moved)
          /\ UNCHANGED <<results, runVars>>
       \/ /\ lease.phase = "publishing" /\ lease.moved
          /\ results' = [results EXCEPT
                !.query = IF lease.work.kind # "query" THEN @ ELSE @ \cup {QueryRecord(warns)},
                !.lineage = IF lease.work.kind # "lineage" THEN @
                            ELSE Append(@, LineageRecord(breaks)),
                !.final = IF lease.work.kind # "final_report" THEN @ ELSE @ \cup {FinalRecord}]
          /\ IF lease.work.kind = "query"
             THEN /\ CanMoveTo("running") /\ status' = "running"
                  /\ query' = IF query.rev = lease.work.rev THEN NoQuery ELSE query
             ELSE UNCHANGED <<status, query>>
          /\ UNCHANGED <<resumeStatus, routeRevision, approved, currentStage, pendingStage,
                         gate, queryRev>>
    /\ UNCHANGED <<stageVars, reviewVars, snapshot, leases, diskVars>>

-----------------------------------------------------------------------------
(* finalize_run.                                                           *)

LineageReady ==
    ApprovedOf("metrics") # {} =>
        /\ results.lineage # <<>>
        /\ \A s \in ApprovedOf("report") : Pair(s) \in LastLineage.after

(* Faulty variant of ReportReady: some final report is published.          *)
ReportPublished == ApprovedOf("report") # {} => results.final # {}

ReportReady ==
    IF ApprovedOf("report") = {} THEN results.final = {}
    ELSE \E f \in results.final :
           /\ results.final = {f}
           /\ f.pairs = {Pair(s) : s \in ApprovedOf("report") \cup PassingReviews}
           /\ f.lineage = IF results.lineage = <<>> THEN 0 ELSE LastLineage.id

CanFinalize ==
    /\ status = "finalizing"
    /\ AuditClean
    /\ (\E s \in Stages : Role[s] = "report" /\ stageStatus[s] \notin {"absent", "skipped"})
          => Cardinality(ApprovedOf("report")) = 1
    /\ Cardinality(PassingReviews) = 1
    /\ \A s \in InRoute : stageStatus[s] \in {"approved", "skipped"}
    /\ LineageReady /\ ReportReady
    /\ lease = NoLease

Finalize ==
    /\ CanFinalize
    /\ status' = "completed"
    /\ UNCHANGED <<stageVars, resumeStatus, routeRevision, approved, currentStage,
                   pendingStage, gate, query, queryRev, reviewVars, execVars, diskVars>>

-----------------------------------------------------------------------------
(* The installed agents of the roles X differ from those the run recorded   *)
(* when it began (another release is installed, or an earlier one again).   *)
UpdateAgents(X) ==
    /\ X # disk.agents
    /\ disk' = [disk EXCEPT !.agents = X]
    /\ UNCHANGED <<stageVars, runVars, reviewVars, execVars, crashes>>

-----------------------------------------------------------------------------
RouteSteps ==
    \/ \E r \in Routes, reuse \in SUBSET Stages : SetRoute(r, reuse) \/ SetRouteCrash(r, reuse)
    \/ ApproveRoute

StageSteps == \E s \in Stages :
    \/ \E bundled \in BOOLEAN : StartStage(s, bundled)
    \/ StartStageCrash(s)
    \/ RecordStageInvalid(s)
    \/ \E c \in Declarable(s) :
         \/ "PASS" \in Verdicts /\ RecordStagePass(s, c)
         \/ "BLOCKED" \in Verdicts /\ RecordStageBlocked(s, c)
         \/ "FAIL" \in Verdicts /\ \E t \in Stages : RecordStageFail(s, c, t)
    \/ "FAIL" \in Verdicts /\ \E t \in Stages : RecordStageCrash(s, t)
    \/ ApproveStage(s)
    \/ ApproveRollback(s)
    \/ Revise(s)

QuerySteps == PrepareQuery \/ PrepareQueryCrash \/ ApproveQuery

LeaseSteps ==
    \/ Read \/ DropSnapshot \/ AbortLease
    \/ \E ended, staged \in BOOLEAN : BeginLease(ended, staged)
    \/ PublishReport
    \/ \E breaks \in BOOLEAN : PublishLineage(breaks)
    \/ \E warns \in BOOLEAN : PublishQuery(warns)
    \/ \E breaks, warns \in BOOLEAN : RecoverExecutions(breaks, warns)
    \/ \E moved \in BOOLEAN : PublishCrash(moved)

Next == \/ RouteSteps \/ StageSteps \/ RecordReceipt
        \/ QuerySteps \/ LeaseSteps \/ Stop \/ Resume \/ Finalize
        \/ \E X \in AgentUpdates : UpdateAgents(X)

Spec == Init /\ [][Next]_vars

-----------------------------------------------------------------------------
(* Properties.                                                             *)

Works == [kind : {"none", "query", "lineage", "final_report"}, pairs : SUBSET Pairs,
          rev : Nat, lineage : Nat, plan : (Stages \cup {NoStage}) \X Nat]

(* Every variable holds a value of the kind its comment announces.         *)
StagesTyped ==
    /\ deps \in [Stages -> SUBSET Stages]
    /\ stageStatus \in [Stages -> StageStatuses]
    /\ attempt \in [Stages -> Nat]
    /\ artifact \in [Stages -> Nat]
    /\ verdict \in [Stages -> {"none", "PASS", "BLOCKED", "FAIL"}]
    /\ inputHashes \in [Stages -> [Stages -> Nat]]
    /\ receipt \in BOOLEAN

RunTyped ==
    /\ status \in Statuses
    /\ resumeStatus \in Statuses \cup {"none"}
    /\ routeRevision \in Nat
    /\ approved \subseteq Pairs
    /\ currentStage \in Stages \cup {NoStage}
    /\ pendingStage \in Stages \cup {NoStage}
    /\ gate \in Gates
    /\ query \in [phase : {"none", "prepared", "approved"}, rev : Nat, sql : SUBSET Pairs]
    /\ queryRev \in Nat

ReviewTyped ==
    /\ bundle \in [stage : Stages \cup {NoStage}, attempt : Nat, route : Nat,
                   inputs : SUBSET Pairs]
    /\ says \in [Stages -> Content]
    /\ plan \in [id : (Stages \cup {NoStage}) \X Nat, target : Stages \cup {NoStage}, art : Nat]
    /\ plans \in Seq(Stages \X Nat)

QueryRecords   == [rev : Nat, pairs : SUBSET Pairs, warns : BOOLEAN]
LineageRecords == [id : Nat, pairs : SUBSET Pairs, breaks : BOOLEAN, after : SUBSET Pairs]
FinalRecords   == [pairs : SUBSET Pairs, lineage : Nat]

ResultsTyped ==
    results \in [query : SUBSET QueryRecords, lineage : Seq(LineageRecords),
                 final : SUBSET FinalRecords]

LeaseTyped ==
    /\ snapshot \in Works
    /\ lease \in [phase : {"none", "prepared", "executing", "publishing"}, work : Works,
                  id : Nat, route : Nat, staged : BOOLEAN, moved : BOOLEAN]
    /\ leases \in Nat

DiskTyped ==
    /\ disk \in [routeFile : BOOLEAN,
                 inputs : [missing : BOOLEAN, query : SUBSET Nat, lineage : SUBSET Nat],
                 attemptDir : [Stages -> Nat], queryDir : Nat,
                 outputs : SUBSET ((Stages \cup {NoStage}) \X Nat),
                 agents : SUBSET Roles]
    /\ crashes \in Nat

TypeOK == StagesTyped /\ RunTyped /\ ReviewTyped /\ ResultsTyped /\ LeaseTyped /\ DiskTyped

(* A stage that runs, awaits the user or is approved stands on approved    *)
(* dependencies only, and was given exactly the artifacts they carry now:  *)
(* no revision, rollback, reroute or resume leaves it on replaced inputs.  *)
Live == {"running", "awaiting_user_confirmation", "approved"}

InputsApproved ==
    \A s \in Stages : stageStatus[s] \in Live =>
        \A d \in deps[s] : stageStatus[d] = "approved" /\ inputHashes[s][d] = artifact[d]

(* approved_artifacts is exactly the current, passing artifacts of the     *)
(* approved stages: no approval is lost, or outlives its artifact.         *)
ApprovalsExact ==
    /\ approved = {Pair(s) : s \in {t \in Stages : stageStatus[t] = "approved"}}
    /\ \A s \in Stages : stageStatus[s] = "approved" => artifact[s] # 0 /\ verdict[s] = "PASS"

(* Only one role runs, it is the current stage, and no gate or query is    *)
(* open beside it.                                                         *)
OneRunning ==
    \A s \in Stages : stageStatus[s] = "running" =>
        currentStage = s /\ gate = NoGate /\ query = NoQuery

(* The boundary a run stands at, or would be resumed to, agrees with its   *)
(* stages: a running run has no current stage that does not run, a blocked *)
(* or failed one has a stage to go back to, a rollback waits for the user  *)
(* only in a failed run, and no query is open while a role has the turn.   *)
Boundaries ==
    /\ currentStage # NoStage => query = NoQuery
    /\ ResumeTarget = "running" /\ currentStage # NoStage
          => stageStatus[currentStage] = "running"
    /\ ResumeTarget \in {"initialized", "awaiting_route_confirmation"} => currentStage = NoStage
    /\ ResumeTarget \in {"blocked", "failed"} /\ Interrupted # NoStage
          => stageStatus[Interrupted] \in {"blocked", "failed"}
    /\ gate.type = "rollback" => ResumeTarget \in {"failed", "stopped", "none"} /\ query = NoQuery
    /\ \A s \in Stages : stageStatus[s] = "running"
          => ResumeTarget \in {"running", "stopped", "none"}

(* A Report is written, shown and approved only behind a passing Review    *)
(* among its ancestors, and that Review read exactly the artifacts its     *)
(* ancestors carry now.                                                    *)
ReportBehindReview ==
    \A s \in Stages : Role[s] = "report" /\ stageStatus[s] \in Live =>
        \E v \in Ancestors(s) \cap PassingReviews :
            bundle.stage = v /\ bundle.inputs = ApprovedAncestors(v)

(* An active query result was computed from an SQL artifact that is still  *)
(* approved, whatever was revised, rolled back or recovered meanwhile.     *)
QueryResultsCurrent == \A r \in results.query : r.pairs \subseteq approved

(* A query that holds a lease is the approved one; no agent runs then.     *)
QueryLeaseApproved ==
    lease.phase # "none" /\ lease.work.kind = "query" =>
        /\ query.phase = "approved" /\ query.rev = lease.work.rev
        /\ \A s \in Stages : stageStatus[s] # "running"

(* A completed run has a passing Review of the current artifacts and every *)
(* stage approved or skipped.  If the route has a Report, it has exactly   *)
(* one final report, of exactly the approved Report and Review, and bound  *)
(* to the lineage the run ends with; otherwise it has none                 *)
(* (publish_final_report, finalize_run).                                   *)
CompletedIsConsistent ==
    status = "completed" =>
        /\ \A s \in InRoute : stageStatus[s] \in {"approved", "skipped"}
        /\ \E v \in PassingReviews : bundle.inputs = ApprovedAncestors(v)
        /\ IF \E s \in InRoute : Role[s] = "report" /\ stageStatus[s] # "skipped"
           THEN \E f \in results.final :
                  /\ results.final = {f}
                  /\ f.pairs = {p \in approved : Role[p[1]] \in {"report", "review"}}
                  /\ f.lineage = IF results.lineage = <<>> THEN 0 ELSE LastLineage.id
           ELSE results.final = {}

(* A stage becomes approved only by the user's confirmation of the very    *)
(* artifact the gate shows; nothing else, a new route, a resume or a       *)
(* recovered publication included, grants an approval.                     *)
ApprovedByUser ==
    [][\A s \in Stages : stageStatus'[s] = "approved" /\ stageStatus[s] # "approved" =>
          /\ gate = [type |-> "stage", stage |-> s, rev |-> artifact[s]]
          /\ Pair(s)' = Pair(s)]_vars

(* The commands a run goes on by, without another wish of the user: every  *)
(* command but a new route, a revision and stop.                           *)
Onward ==
    \/ CanApproveRoute \/ CanApproveQuery \/ CanFinalize
    \/ CanResume /\ ResumedStatus # status
    \/ \E s \in Stages : \/ CanStart(s) \/ Recording(s)
                         \/ CanApproveStage(s) \/ CanApproveRollback(s)

(* What a final report is of: the approved Report and the passing Review.  *)
Bound == {Pair(s) : s \in ApprovedOf("report") \cup PassingReviews}

(* The output directory of the approved query is in place, left by a       *)
(* publisher that died and was given up: its results are refused from then *)
(* on.                                                                     *)
QueryTaken ==
    /\ crashes > 0
    /\ query.phase = "approved" /\ <<NoStage, query.rev>> \in disk.outputs
    /\ ~(lease.phase = "publishing" /\ lease.work.kind = "query" /\ lease.moved)

(* The approved query is to be executed, or the lineage or the final       *)
(* report of the end to be built, and a lease that is open to end before.  *)
BuildersTurn ==
    \/ /\ status = "running" /\ query.phase = "approved"
       /\ \/ <<NoStage, query.rev>> \notin disk.outputs
          \/ lease.phase = "publishing" /\ lease.work.kind = "query" /\ lease.moved
    \/ /\ status = "finalizing"
       /\ \/ lease # NoLease \/ ~LineageReady
          \/ /\ ApprovedOf("report") # {}
             /\ results.final = {} /\ Bound \cap disk.outputs = {}

(* Where a run cannot go on.  A route is not approved, and no stage of it  *)
(* starts, where set_route died with route-plan.json replaced, where a     *)
(* required input is missing, and where an input it binds was superseded.  *)
RouteHeld ==
    \/ ~disk.routeFile
    \/ disk.inputs.missing
    \/ \E n \in disk.inputs.query : \A r \in results.query : r.rev # n
    \/ \E n \in disk.inputs.lineage : \A i \in 1..Len(results.lineage) :
                                          results.lineage[i].id # n

(* A stage does not start where its route is held, where start_stage died  *)
(* with the attempt directory made, where its agent was reconfigured, or   *)
(* where the stage was revised before what it depends on was approved.     *)
StageMayNotStart(s) ==
    \/ RouteHeld
    \/ disk.attemptDir[s] # attempt[s]
    \/ Role[s] \in disk.agents
    \/ \E d \in deps[s] : stageStatus[d] # "approved"

(* A run is neither resumed nor finalized, because it fails its audit,     *)
(* where a rollback plan was overwritten; where a builder died before its  *)
(* staging directory was there; where the Review was carried over from an  *)
(* earlier route, or the lineage or the query warnings are no longer those *)
(* it declares; and where another stage's output names results that were   *)
(* withdrawn, or metrics that are no longer approved.                      *)
AuditHeld ==
    \/ \E i \in 1..Len(plans) : plans[i] # plan.id
    \/ lease.phase = "prepared" /\ ~lease.staged
    \/ \E s \in Stages : stageStatus[s] \in {"approved", "awaiting_user_confirmation"} /\
         \/ Role[s] = "review" /\ \/ bundle.route # routeRevision
                                   \/ ~LineageDeclared(says[s].breaks)
                                   \/ says[s].results # Warnings
         \/ Role[s] = "insight" /\ says[s].facts /\ results.query = {}
         \/ Role[s] = "visualization" /\ ~(says[s].results \subseteq ActiveQueries)
         \/ ~MetricsKnown(s, says[s])

Held ==
    \/ status = "awaiting_route_confirmation" /\ RouteHeld
    \/ pendingStage # NoStage /\ stageStatus[pendingStage] \in Startable
          /\ StageMayNotStart(pendingStage)
    \/ status = "running" /\ QueryTaken
    \/ status = "stopped" /\ resumeStatus \in {"stopped", "none"}
    \/ /\ status \in {"stopped", "blocked", "failed", "finalizing"}
       /\ ~disk.routeFile \/ AuditHeld

(* Where finalization cannot end: the route has a stage that is neither    *)
(* done nor skipped, or no Review; the lineage that the final report names *)
(* was built anew or withdrawn, and the report is not published twice.     *)
NoWayToEnd ==
    \/ \E s \in InRoute : stageStatus[s] \notin {"approved", "skipped"}
    \/ \A s \in InRoute : Role[s] = "review" => stageStatus[s] = "skipped"
    \/ \E f \in results.final :
          f.lineage # IF results.lineage = <<>> THEN 0 ELSE LastLineage.id

(* Where the final report is not to be had: one that was published under   *)
(* an earlier route is still active, because neither a new route nor a new *)
(* publication supersedes it; a publisher died with its directory in place *)
(* and was not recovered.                                                  *)
EndHeld ==
    \/ routeRevision > 1 /\ \E f \in results.final : f.pairs # Bound
    \/ crashes > 0 /\ results.final = {} /\ Bound \cap disk.outputs # {}

(* A run never stands still but where it is held: whatever was revised,    *)
(* rolled back, blocked, failed, stopped and resumed, and wherever a       *)
(* process died, there is a next command that is not another revision or   *)
(* route, or a builder has the turn, so that no sequence of legal commands *)
(* loses it (start_stage, approve, resume, finalize_run).                  *)
OnlyKnownStops ==
    /\ status # "completed" /\ routeRevision > 0
    /\ pendingStage # NoStage => attempt[pendingStage] < MaxAttempt
    => \/ Onward \/ BuildersTurn
       \/ Held
       \/ status = "finalizing" /\ (NoWayToEnd \/ EndHeld)

(* A finalizing run, which no revision can leave, can get the final report *)
(* it has to end with but where it is held: the report is still to be      *)
(* published and its directory free, or the one there is is of the right   *)
(* Report and Review (publish_final_report, finalize_run).                 *)
FinalizingCanEnd ==
    status = "finalizing" =>
        \/ EndHeld
        \/ results.final = {} /\ Bound \cap disk.outputs = {}
        \/ \E f \in results.final : results.final = {f} /\ f.pairs = Bound

-----------------------------------------------------------------------------
(* What the repository says of the program, and the code does not keep.    *)

(* "Registered artifact paths are immutable" (runctl.py): the file of      *)
(* every registered rollback plan is the one that was registered.  A       *)
(* second failed Review overwrites rollback-plan.json.                     *)
PlansIntact == \A i \in 1..Len(plans) : plans[i] = plan.id

(* "Finalization requires metric lineage to be rebuilt after Report."      *)
(* (runctl.py): the lineage of a completed run covers the approved Report. *)
(* One built from a state read before the Report was approved passes.      *)
LineageAtEnd ==
    status = "completed" /\ ApprovedOf("metrics") # {} => approved \subseteq LastLineage.pairs

=============================================================================
