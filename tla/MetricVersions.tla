--------------------------- MODULE MetricVersions ---------------------------
(***************************************************************************)
(* The definitions a Metrics stage records, attempt after attempt, and the *)
(* edits a user asks for in between (src/scripts/runctl.py).               *)
(*                                                                         *)
(* Every recorded output numbers its metrics: the numbers are checked      *)
(* against all outputs the stage recorded before (_validate_stage_context).*)
(* While an output awaits the user, one metric may be edited               *)
(* (request_metric_edit), or the whole list through an exported file       *)
(* (import_metrics_workbench): the edit sends the stage back, and the next *)
(* output must apply it.                                                   *)
(*                                                                         *)
(* One command is one action, as in RunControl, of which this module       *)
(* refines the Metrics stage: the rest of the run is there only through    *)
(* the commands that send this stage back.  An output is a function from   *)
(* metric ids to a version and a content; a content gives every editable   *)
(* field a value.                                                          *)
(***************************************************************************)
EXTENDS Naturals, FiniteSets, Sequences

CONSTANTS
    Ids,            \* metric ids
    Fields,         \* EDITABLE_METRIC_FIELDS
    Values,         \* what a field may hold
    EditIds,        \* names of edit files
    MaxVersion,     \* bound: versions an agent may write
    MaxAttempt,     \* bound: attempts of the stage
    MaxCrash        \* bound: processes that die inside a command

Content == [Fields -> Values]

(* What an agent may write: the schema demands at least one metric.        *)
ListsOf(entry) == UNION {[D -> entry] : D \in (SUBSET Ids) \ {{}}}
Outputs == ListsOf([version : 1..MaxVersion, content : Content])

(* What the user may ask for: an import may go one version beyond.         *)
Imports == ListsOf([version : 1..MaxVersion + 1, content : Content])

(* A list without numbers: what a user writes into a workbench, whose      *)
(* version column is not used.                                             *)
Lists == ListsOf(Content)

(* The fields an edit asks for.                                            *)
Changes == UNION {[F -> Values] : F \in SUBSET Fields}

ASSUME ConstantsOK ==
    /\ \A m \in Ids : \E n \in Ids : n # m      \* there is always another name
    /\ Values # {}
    /\ {MaxVersion, MaxAttempt, MaxCrash} \subseteq Nat

VARIABLES
    stage,      \* where the Metrics stage is
    attempt,    \* its attempt counter
    history,    \* the outputs it has recorded, oldest first
    artifact,   \* stage["artifact"]: position in history, 0 if none
    edit,       \* pending_metric_edit, with the content of its file
    files,      \* edit files on disk: the write that made each, 0 if none
    records,    \* registered metric_edit artifacts: pairs <<id, write>>
    writes,     \* edit files written so far
    crashes

vars == <<stage, attempt, history, artifact, edit, files, records, writes, crashes>>

(* startable: pending, revising or stale; rejected: the output failed the  *)
(* validation and the stage is still current; ended: BLOCKED or FAIL;      *)
(* left: either, after the run has turned to another stage.                *)
StageStates == {"startable", "running", "awaiting", "approved", "rejected", "ended", "left"}

NoEdit == [op |-> "none"]
Operation == [op : {"add", "modify", "delete"}, id : Ids, changes : Changes]
Edit ==
    {NoEdit}
    \cup [op : {"add", "modify", "delete"}, id : Ids, changes : Changes,
          base : Nat, file : EditIds, write : Nat]
    \cup [op : {"batch"}, metrics : Imports, operations : SUBSET Operation,
          base : Nat, file : EditIds, write : Nat]

Init ==
    /\ stage = "startable"
    /\ attempt = 0
    /\ history = <<>>
    /\ artifact = 0
    /\ edit = NoEdit
    /\ files = [f \in EditIds |-> 0]
    /\ records = {}
    /\ writes = 0
    /\ crashes = 0

-----------------------------------------------------------------------------
(* Numbering.                                                              *)

Appearances(id) == {i \in 1..Len(history) : id \in DOMAIN history[i]}
LastAppearance(id) ==
    CHOOSE i \in Appearances(id) : \A j \in Appearances(id) : j <= i

(* Faulty variant of ExpectedVersion: a metric that is not in the output   *)
(* before is new.                                                          *)
ExpectedVersionLatest(id, c) ==
    LET n == Len(history)
    IN  IF n \notin Appearances(id) THEN 1
        ELSE IF history[n][id].content = c
             THEN history[n][id].version
             ELSE history[n][id].version + 1

(* Faulty variant of ExpectedVersion: a new metric gets the number of the  *)
(* output it is first in.                                                  *)
ExpectedVersionByOutput(id, c) ==
    IF Appearances(id) = {} THEN Len(history) + 1
    ELSE LET i == LastAppearance(id)
             old == history[i][id]
         IN  IF i = Len(history) /\ old.content = c
             THEN old.version
             ELSE old.version + 1

(* The number that the next output must give to a metric with content c:   *)
(* compared with the output before, or, for one that is not in it, with    *)
(* its last appearance.                                                    *)
ExpectedVersion(id, c) ==
    IF Appearances(id) = {} THEN 1
    ELSE LET i == LastAppearance(id)
             old == history[i][id]
         IN  IF i = Len(history) /\ old.content = c
             THEN old.version
             ELSE old.version + 1

(* Nothing is compared before an output is recorded.                       *)
VersionsOK(d) ==
    history # <<>> =>
        \A id \in DOMAIN d : d[id].version = ExpectedVersion(id, d[id].content)

-----------------------------------------------------------------------------
(* Edits.                                                                  *)

Current == history[artifact]

(* _metric_edit_operations: the difference between two lists.              *)
Operations(old, new) ==
    {[op |-> "delete", id |-> m, changes |-> <<>>] : m \in DOMAIN old \ DOMAIN new}
    \cup {[op |-> "add", id |-> m, changes |-> new[m].content] : m \in DOMAIN new \ DOMAIN old}
    \cup {[op |-> "modify", id |-> m,
           changes |-> [f \in {g \in Fields : old[m].content[g] # new[m].content[g]}
                            |-> new[m].content[f]]] :
             m \in {n \in DOMAIN old \cap DOMAIN new : old[n].content # new[n].content}}

(* import_metrics_workbench numbers the list by the current output alone.  *)
Normalized(list) ==
    [m \in DOMAIN list |->
        [content |-> list[m],
         version |-> IF m \notin DOMAIN Current THEN 1
                     ELSE IF Current[m].content # list[m]
                          THEN Current[m].version + 1
                          ELSE Current[m].version]]

(* What the validation of an output asks of it while an edit is pending.   *)
Applied(e, d) ==
    /\ e.base = artifact
    /\ files[e.file] = e.write
    /\ e.op = "batch" => /\ d = e.metrics
                         /\ e.operations = Operations(history[Len(history)], e.metrics)
    /\ e.op = "delete" => e.id \notin DOMAIN d
    /\ e.op \in {"add", "modify"} =>
           /\ e.id \in DOMAIN d
           /\ \A f \in DOMAIN e.changes : d[e.id].content[f] = e.changes[f]

Fits(d) == VersionsOK(d) /\ (edit # NoEdit => Applied(edit, d))

-----------------------------------------------------------------------------
(* The stage.                                                              *)

StartStage ==
    /\ stage = "startable"
    /\ attempt < MaxAttempt
    /\ attempt' = attempt + 1
    /\ stage' = "running"
    /\ UNCHANGED <<history, artifact, edit, files, records, writes, crashes>>

(* Faulty variant of RecordStage: it forgets to register the output.       *)
RecordStageUnregistered(d, outcome) ==
    /\ stage = "running"
    /\ Fits(d)
    /\ artifact' = Len(history) + 1
    /\ edit' = NoEdit
    /\ stage' = IF outcome = "PASS" THEN "awaiting" ELSE "ended"
    /\ UNCHANGED <<attempt, history, files, records, writes, crashes>>

(* record_stage: an output that fits is recorded, whatever its outcome,    *)
(* and settles the edit.                                                   *)
RecordStage(d, outcome) ==
    /\ stage = "running"
    /\ Fits(d)
    /\ history' = Append(history, d)
    /\ artifact' = Len(history) + 1
    /\ edit' = NoEdit
    /\ stage' = IF outcome = "PASS" THEN "awaiting" ELSE "ended"
    /\ UNCHANGED <<attempt, files, records, writes, crashes>>

(* Faulty variant of RecordInvalid: it drops the edit.                     *)
RecordInvalidDropping(d) ==
    /\ stage = "running"
    /\ ~Fits(d)
    /\ stage' = "rejected"
    /\ edit' = NoEdit
    /\ UNCHANGED <<attempt, history, artifact, files, records, writes, crashes>>

(* record_stage: one that does not fails the stage.                        *)
RecordInvalid(d) ==
    /\ stage = "running"
    /\ ~Fits(d)
    /\ stage' = "rejected"
    /\ UNCHANGED <<attempt, history, artifact, edit, files, records, writes, crashes>>

(* approve: the user confirms the output that awaits it.                   *)
Approve ==
    /\ stage = "awaiting"
    /\ stage' = "approved"
    /\ UNCHANGED <<attempt, history, artifact, edit, files, records, writes, crashes>>

(* resume: the interrupted stage is to be run again.                       *)
Resume ==
    /\ stage \in {"running", "rejected", "ended"}
    /\ stage' = "startable"
    /\ UNCHANGED <<attempt, history, artifact, edit, files, records, writes, crashes>>

(* revise, of this stage or of one it depends on, or an approved rollback: *)
(* the edit is withdrawn.                                                  *)
Revise ==
    /\ stage \in {"awaiting", "approved", "rejected", "ended", "left"}
    /\ stage' = "startable"
    /\ edit' = NoEdit
    /\ UNCHANGED <<attempt, history, artifact, files, records, writes, crashes>>

(* revise of any other stage withdraws the edit as well, and leaves a      *)
(* Metrics stage that has failed as it is: resume takes up the other one.  *)
ReviseOther ==
    /\ stage \in {"rejected", "ended"}
    /\ stage' = "left"
    /\ edit' = NoEdit
    /\ UNCHANGED <<attempt, history, artifact, files, records, writes, crashes>>

(* Faulty variant of SetRoute: the edit stays pending.                     *)
SetRouteKeeping ==
    /\ stage \in {"startable", "awaiting", "approved", "ended", "left"}
    /\ stage' = "startable"
    /\ artifact' = 0
    /\ UNCHANGED <<attempt, history, edit, files, records, writes, crashes>>

(* set_route: a plan that does not carry the stage over takes its artifact *)
(* from it, not its recorded outputs.                                      *)
SetRoute ==
    /\ stage \in {"startable", "awaiting", "approved", "ended", "left"}
    /\ stage' = "startable"
    /\ artifact' = 0
    /\ edit' = NoEdit
    /\ UNCHANGED <<attempt, history, files, records, writes, crashes>>
-----------------------------------------------------------------------------
(* Requests of the user.                                                   *)

(* Faulty variant of Register: it does not look for an old edit file.      *)
RegisterOver(e, f) ==
    /\ writes' = writes + 1
    /\ files' = [files EXCEPT ![f] = writes + 1]
    /\ records' = records \cup {<<f, writes + 1>>}
    /\ edit' = e
    /\ stage' = "startable"
    /\ UNCHANGED <<attempt, history, artifact, crashes>>

(* request_metric_edit and import_metrics_workbench alike: the edit file   *)
(* is new, then the stage is sent back and the edit pending.               *)
Register(e, f) ==
    /\ files[f] = 0
    /\ writes' = writes + 1
    /\ files' = [files EXCEPT ![f] = writes + 1]
    /\ records' = records \cup {<<f, writes + 1>>}
    /\ edit' = e
    /\ stage' = "startable"
    /\ UNCHANGED <<attempt, history, artifact, crashes>>

CanEdit(base) ==
    /\ stage = "awaiting"
    /\ base = artifact
    /\ attempt < MaxAttempt

(* What request_metric_edit accepts.                                       *)
Meaningful(op, m, c) ==
    \/ op = "add" /\ DOMAIN c = Fields /\ m \notin DOMAIN Current
    \/ /\ op = "modify" /\ m \in DOMAIN Current
       /\ \E f \in DOMAIN c : Current[m].content[f] # c[f]
    \/ op = "delete" /\ c = <<>> /\ m \in DOMAIN Current

RequestEdit(base, op, m, c, f) ==
    /\ CanEdit(base)
    /\ Meaningful(op, m, c)
    /\ Register([op |-> op, id |-> m, changes |-> c,
                 base |-> base, file |-> f, write |-> writes + 1], f)

(* A workbench is a file exported from some output (export only reads), on *)
(* which the user may work for as long as they like.                       *)
ImportWorkbench(base, list, f) ==
    /\ CanEdit(base)
    /\ LET metrics == Normalized(list)
           operations == Operations(Current, metrics)
       IN  /\ operations # {}
           /\ (\E o \in operations : o.op = "delete") => Cardinality(DOMAIN Current) # 1
           /\ Register([op |-> "batch", metrics |-> metrics, operations |-> operations,
                        base |-> base, file |-> f, write |-> writes + 1], f)

(* Either dies after the edit file and before the commit.                  *)
EditCrash(f) ==
    /\ CanEdit(artifact)
    /\ crashes < MaxCrash
    /\ files[f] = 0
    /\ writes' = writes + 1
    /\ files' = [files EXCEPT ![f] = writes + 1]
    /\ crashes' = crashes + 1
    /\ UNCHANGED <<stage, attempt, history, artifact, edit, records>>

-----------------------------------------------------------------------------
Next ==
    \/ StartStage
    \/ \E d \in Outputs : \/ \E outcome \in {"PASS", "BLOCKED", "FAIL"} : RecordStage(d, outcome)
                          \/ RecordInvalid(d)
    \/ Approve \/ Resume \/ Revise \/ ReviseOther \/ SetRoute
    \/ \E base \in 1..Len(history), f \in EditIds :
          \/ \E op \in {"add", "modify", "delete"}, m \in Ids, c \in Changes :
                RequestEdit(base, op, m, c, f)
          \/ \E list \in Lists : ImportWorkbench(base, list, f)
    \/ \E f \in EditIds : EditCrash(f)

Spec == Init /\ [][Next]_vars

-----------------------------------------------------------------------------
(* Properties.                                                             *)

TypeOK ==
    /\ stage \in StageStates
    /\ attempt \in Nat
    /\ history \in Seq(Outputs)
    /\ artifact \in 0..Len(history)
    /\ edit \in Edit
    /\ files \in [EditIds -> Nat]
    /\ records \subseteq EditIds \X Nat
    /\ writes \in Nat
    /\ crashes \in Nat

(* An id with a version names one definition in everything the stage has   *)
(* ever recorded, and a later output never goes back to an older version:  *)
(* what lineage and SQL say of metric m, version v, stays true of it,      *)
(* across edits, removals, reintroductions and new routes.                 *)
VersionsIdentify ==
    \A i, j \in 1..Len(history) :
        i < j => \A id \in DOMAIN history[i] \cap DOMAIN history[j] :
            LET old == history[i][id]
                new == history[j][id]
            IN  /\ old.version <= new.version
                /\ old.version = new.version => old.content = new.content

(* Versions grow one by one: from one appearance of an id to the next by   *)
(* at most one, and from 1 for an id that is new in a revised output.      *)
NoVersionSkipped ==
    \A j \in 2..Len(history) : \A id \in DOMAIN history[j] :
        LET before == {i \in 1..j-1 : id \in DOMAIN history[i]}
        IN  IF before = {}
            THEN history[j][id].version = 1
            ELSE \E i \in before : history[j][id].version \in {history[i][id].version,
                                                               history[i][id].version + 1}

(* The file of a registered edit is never replaced, not by another edit of *)
(* that name and not by one that died before its commit: audit_run would   *)
(* report the record from then on.                                         *)
EditsIntact == \A r \in records : files[r[1]] = r[2]

(* A pending edit ends only in an output that applies it, or with a        *)
(* command of the user that withdraws it while no attempt runs; failed and *)
(* interrupted attempts leave it pending.                                  *)
EditSettled ==
    [][edit # NoEdit /\ edit' # edit =>
        \/ /\ edit' = NoEdit
           /\ Len(history') = Len(history) + 1
           /\ edit.base = Len(history)
           /\ CASE edit.op = "batch"  -> history'[Len(history')] = edit.metrics
                [] edit.op = "delete" -> edit.id \notin DOMAIN history'[Len(history')]
                [] OTHER -> \E c \in Content :
                               /\ \A f \in DOMAIN edit.changes : c[f] = edit.changes[f]
                               /\ edit.id \in DOMAIN history'[Len(history')]
                               /\ history'[Len(history')][edit.id].content = c
        \/ edit' = NoEdit /\ stage # "running" /\ history' = history]_vars

(* There is an output that would be recorded: some list of metrics,        *)
(* numbered as expected, applies the pending edit.                         *)
Numbered(list) ==
    [m \in DOMAIN list |-> [version |-> ExpectedVersion(m, list[m]), content |-> list[m]]]
Satisfiable ==
    edit # NoEdit => \E list \in Lists : Applied(edit, Numbered(list))

(* An edit that was accepted can be applied, unless it is a workbench that *)
(* brings back a metric which an output before the current one had.        *)
StuckOnlyByReintroduction ==
    Satisfiable \/ /\ edit.op = "batch"
                   /\ \E id \in DOMAIN edit.metrics \ DOMAIN Current : Appearances(id) # {}

(* Every accepted edit can be applied.  SKILL.md:127 says that the import  *)
(* "requires the next Metrics response to match the imported metric list   *)
(* exactly".                                                               *)
EditsCanBeApplied == Satisfiable
=============================================================================
