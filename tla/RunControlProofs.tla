-------------------------- MODULE RunControlProofs --------------------------
(***************************************************************************)
(* Theorems about RunControl, for every route, role assignment and bound.  *)
(***************************************************************************)
EXTENDS RunControl, OrderFacts

-----------------------------------------------------------------------------
(* The values of the operators that the commands assign.                   *)

LEMMA StagesAreNat == Stages \subseteq Nat \ {0} /\ NoStage \notin Stages
BY ConstantsOK DEF ConstantsOK, Stages, NoStage

(* _next_pending_stage returns a stage of the route that waits to be       *)
(* started, or none.                                                       *)
LEMMA NextPendingType ==
    ASSUME NEW ss
    PROVE  /\ NextPending(ss) \in Stages \cup {NoStage}
           /\ NextPending(ss) # NoStage => ss[NextPending(ss)] \in Startable
<1> DEFINE P == {s \in Stages : ss[s] \in Startable}
<1>1. CASE P = {}
  BY <1>1 DEF NextPending
<1>2. CASE P # {}
  <2>1. \E s \in P : \A t \in P : s <= t
    BY <1>2, StagesAreNat, NatMinimum
  <2>2. (CHOOSE s \in P : \A t \in P : s <= t) \in P
    BY <2>1
  <2> QED BY <1>2, <2>2 DEF NextPending
<1> QED BY <1>1, <1>2

LEMMA SentBackType ==
    ASSUME NEW t \in Stages, stageStatus \in [Stages -> StageStatuses]
    PROVE  SentBack(t) \in [Stages -> StageStatuses]
BY DEF SentBack, StageStatuses

LEMMA WithoutType ==
    ASSUME NEW affected, ResultsTyped
    PROVE  Without(affected) \in
             [query : SUBSET QueryRecords, lineage : Seq(LineageRecords),
              final : SUBSET FinalRecords]
<1> DEFINE roles == {Role[s] : s \in affected}
           q == IF roles \cap {"business", "metrics", "sql"} # {} THEN {} ELSE results.query
           l == IF roles \subseteq {"business"} THEN results.lineage ELSE <<>>
<1>1. q \in SUBSET QueryRecords
  BY DEF ResultsTyped
<1>2. l \in Seq(LineageRecords)
  BY DEF ResultsTyped
<1>3. Without(affected) = [results EXCEPT !.query = q, !.lineage = l]
  BY DEF Without, ResultsTyped
<1> HIDE DEF q, l
<1> QED BY <1>1, <1>2, <1>3 DEF ResultsTyped

(* Where the run goes when no gate is left.                                *)
LEMMA ProceedType ==
    ASSUME NEW ss, Proceed(ss)
    PROVE  status' \in {"finalizing", "running"} /\ pendingStage' \in Stages \cup {NoStage}
BY NextPendingType DEF Proceed, NextStatus

-----------------------------------------------------------------------------
(* Every variable keeps its type.                                          *)

LEMMA TypeInit == Init => TypeOK
<1> SUFFICES ASSUME Init PROVE TypeOK
  OBVIOUS
<1>1. deps \in [Stages -> SUBSET Stages] /\ stageStatus \in [Stages -> StageStatuses]
  BY DEF Init, StageStatuses
<1>2. attempt \in [Stages -> Nat] /\ artifact \in [Stages -> Nat]
  BY DEF Init
<1>3. verdict \in [Stages -> {"none", "PASS", "BLOCKED", "FAIL"}]
  BY DEF Init
<1>4. inputHashes \in [Stages -> [Stages -> Nat]]
  BY DEF Init
<1>5. StagesTyped
  BY <1>1, <1>2, <1>3, <1>4 DEF StagesTyped, Init
<1>6. RunTyped
  BY DEF Init, RunTyped, Statuses, Gates, NoGate, NoQuery
<1>7. bundle \in [stage : Stages \cup {NoStage}, attempt : Nat, route : Nat,
                 inputs : SUBSET Pairs]
  BY DEF Init, NoBundle, NoStage
<1>8. plan \in [id : (Stages \cup {NoStage}) \X Nat, target : Stages \cup {NoStage}, art : Nat]
  BY DEF Init, NoPlan, NoPair, NoStage
<1>9. plans \in Seq(Stages \X Nat)
  BY DEF Init
<1>10. ResultsTyped
  BY DEF Init, ResultsTyped, NoResults
<1>13. says \in [Stages -> Content]
  BY DEF Init, NoContent, Content
<1>11. LeaseTyped
  BY DEF Init, LeaseTyped, NoLease, NoWork, Works, NoPair
<1>12. DiskTyped
  BY DEF Init, DiskTyped, NoInputs
<1> QED BY <1>5, <1>6, <1>7, <1>8, <1>9, <1>10, <1>11, <1>12, <1>13 DEF TypeOK, ReviewTyped, Init

LEMMA RecordTypes ==
    ASSUME StagesTyped, LeaseTyped
    PROVE  /\ \A warns \in BOOLEAN : QueryRecord(warns) \in QueryRecords
           /\ FinalRecord \in FinalRecords
           /\ \A breaks \in BOOLEAN : LineageRecord(breaks) \in LineageRecords
<1>1. lease.work.rev \in Nat /\ lease.work.pairs \in SUBSET Pairs /\ lease.work.lineage \in Nat
  BY DEF LeaseTyped, Works
<1>2. lease.id \in Nat
  BY DEF LeaseTyped
<1>3. {Pair(s) : s \in {t \in InRoute : Role[t] = "report" /\ artifact[t] # 0}} \in SUBSET Pairs
  BY DEF StagesTyped, InRoute, Pair, Pairs
<1> QED BY <1>1, <1>2, <1>3 DEF QueryRecord, FinalRecord, LineageRecord, QueryRecords,
       FinalRecords, LineageRecords

LEMMA ContentOfOutput == ASSUME NEW s PROVE Declarable(s) \subseteq Content
<1>1. SUBSET (1..queryRev) \subseteq SUBSET Nat
  OBVIOUS
<1> QED BY <1>1 DEF Declarable, Content

LEMMA NoWorkType == NoWork \in Works
BY DEF NoWork, Works, NoPair

LEMMA StagesKept == ASSUME StagesTyped, UNCHANGED stageVars PROVE StagesTyped'
BY DEF StagesTyped, stageVars
LEMMA RunKept == ASSUME RunTyped, UNCHANGED runVars PROVE RunTyped'
BY DEF RunTyped, runVars
LEMMA ReviewKept == ASSUME ReviewTyped, UNCHANGED reviewVars PROVE ReviewTyped'
BY DEF ReviewTyped, reviewVars
LEMMA ResultsKept == ASSUME ResultsTyped, UNCHANGED results PROVE ResultsTyped'
BY DEF ResultsTyped
LEMMA LeaseKept == ASSUME LeaseTyped, UNCHANGED <<snapshot, lease, leases>> PROVE LeaseTyped'
BY DEF LeaseTyped
LEMMA DiskKept == ASSUME DiskTyped, UNCHANGED diskVars PROVE DiskTyped'
BY DEF DiskTyped, diskVars

LEMMA TypeStep == TypeOK /\ [Next]_vars => TypeOK'
<1> SUFFICES ASSUME TypeOK, [Next]_vars PROVE TypeOK'
  OBVIOUS
<1> USE DEF TypeOK
<1>1. ASSUME NEW r \in Routes, NEW reuse \in SUBSET Stages, SetRoute(r, reuse) PROVE TypeOK'
  <2>6. /\ r.status \in [Stages -> {"absent", "pending", "skipped", "stale"}]
        /\ r.deps \in [Stages -> SUBSET Stages] /\ r.missing \in BOOLEAN
    BY ConstantsOK DEF ConstantsOK, RoutePlan
  <2>1. StagesTyped'
    <3>1. stageStatus' \in [Stages -> StageStatuses]
      BY <1>1, <2>6 DEF SetRoute, StageStatuses
    <3>2. inputHashes' \in [Stages -> [Stages -> Nat]]
      BY <1>1 DEF SetRoute, StagesTyped
    <3> QED BY <1>1, <2>6, <3>1, <3>2 DEF StagesTyped, SetRoute
  <2>2. RunTyped'
    BY <1>1 DEF RunTyped, SetRoute, Gates, NoStage, NoQuery, Statuses
  <2>3. ResultsTyped'
    BY <1>1, WithoutType DEF ResultsTyped, SetRoute
  <2>4. LeaseTyped'
    BY <1>1 DEF LeaseTyped, SetRoute, NoLease, NoWork, Works, NoPair
  <2>5. DiskTyped'
    <3>1. PICK q \in SUBSET ActiveQueries, l \in SUBSET LineageIds :
            disk' = [disk EXCEPT !.routeFile = TRUE,
                                 !.inputs = [missing |-> r.missing, query |-> q, lineage |-> l]]
      BY <1>1 DEF SetRoute
    <3>2. q \in SUBSET Nat
      BY DEF ActiveQueries, ResultsTyped, QueryRecords
    <3>3. l \in SUBSET Nat
      <4>1. \A i \in 1..Len(results.lineage) : results.lineage[i] \in LineageRecords
        BY DEF ResultsTyped
      <4> QED BY <4>1 DEF LineageIds, LineageRecords
    <3> QED BY <1>1, <2>6, <3>1, <3>2, <3>3 DEF DiskTyped, SetRoute
  <2> QED BY <1>1, <2>1, <2>2, <2>3, <2>4, <2>5, ReviewKept DEF SetRoute, reviewVars
<1>2. ASSUME NEW r \in Routes, NEW reuse \in SUBSET Stages, SetRouteCrash(r, reuse) PROVE TypeOK'
  <2>1. DiskTyped'
    <3>1. crashes' \in Nat
      BY <1>2 DEF SetRouteCrash, Dies, DiskTyped
    <3>2. disk' = [disk EXCEPT !.routeFile = FALSE]
      BY <1>2 DEF SetRouteCrash
    <3> QED BY <3>1, <3>2 DEF DiskTyped
  <2> QED BY <1>2, <2>1, StagesKept, RunKept, ReviewKept, ResultsKept, LeaseKept DEF SetRouteCrash, execVars, reviewVars, runVars, stageVars
<1>3. ASSUME ApproveRoute PROVE TypeOK'
  <2>1. RunTyped'
    BY <1>3, ProceedType DEF RunTyped, ApproveRoute, NoGate, Gates, Statuses
  <2> QED BY <1>3, <2>1, StagesKept, ReviewKept, ResultsKept, LeaseKept, DiskKept DEF ApproveRoute, diskVars, execVars, reviewVars, stageVars
<1>4. ASSUME NEW s \in Stages, NEW bundled \in BOOLEAN, StartStage(s, bundled) PROVE TypeOK'
  <2>1. StagesTyped'
    <3>1. inputHashes' \in [Stages -> [Stages -> Nat]]
      <4>1. [d \in Stages |-> IF d \in deps[s] THEN artifact[d] ELSE 0] \in [Stages -> Nat]
        BY DEF StagesTyped
      <4> QED BY <1>4, <4>1 DEF StartStage, StagesTyped
    <3>2. stageStatus' \in [Stages -> StageStatuses]
      BY <1>4 DEF StartStage, StagesTyped, StageStatuses
    <3>3. attempt' \in [Stages -> Nat]
      BY <1>4 DEF StartStage, StagesTyped
    <3> QED BY <1>4, <3>1, <3>2, <3>3 DEF StartStage, StagesTyped
  <2>2. RunTyped'
    BY <1>4 DEF RunTyped, StartStage, Statuses
  <2>3. ReviewTyped'
    <3>1. ApprovedAncestors(s) \in SUBSET Pairs
      BY DEF StagesTyped, ApprovedAncestors, Ancestors, AncestorsIn, Pair, Pairs
    <3>2. attempt[s] + 1 \in Nat /\ routeRevision \in Nat
      BY DEF StagesTyped, RunTyped
    <3>3. bundle' \in {bundle, [stage |-> s, attempt |-> attempt[s] + 1, route |-> routeRevision,
                              inputs |-> ApprovedAncestors(s)]}
      BY <1>4 DEF StartStage
    <3> QED BY <1>4, <3>1, <3>2, <3>3 DEF StartStage, ReviewTyped
  <2>4. DiskTyped'
    <3>1. [disk.attemptDir EXCEPT ![s] = attempt[s] + 1] \in [Stages -> Nat]
      BY DEF DiskTyped, StagesTyped
    <3>2. disk' = [disk EXCEPT !.attemptDir = [disk.attemptDir EXCEPT ![s] = attempt[s] + 1]]
      BY <1>4 DEF StartStage
    <3>3. crashes' \in Nat
      BY <1>4 DEF StartStage, Dies, DiskTyped
    <3> QED BY <3>1, <3>2, <3>3 DEF DiskTyped
  <2> QED BY <1>4, <2>1, <2>2, <2>3, <2>4, ResultsKept, LeaseKept DEF StartStage, execVars
<1>5. ASSUME NEW s \in Stages, StartStageCrash(s) PROVE TypeOK'
  <2>1. DiskTyped'
    <3>1. [disk.attemptDir EXCEPT ![s] = attempt[s] + 1] \in [Stages -> Nat]
      BY DEF DiskTyped, StagesTyped
    <3>2. disk' = [disk EXCEPT !.attemptDir = [disk.attemptDir EXCEPT ![s] = attempt[s] + 1]]
      BY <1>5 DEF StartStageCrash
    <3>3. crashes' \in Nat
      BY <1>5 DEF StartStageCrash, Dies, DiskTyped
    <3> QED BY <3>1, <3>2, <3>3 DEF DiskTyped
  <2> QED BY <1>5, <2>1, StagesKept, RunKept, ReviewKept, ResultsKept, LeaseKept DEF StartStageCrash, execVars, reviewVars, runVars, stageVars
<1>6. ASSUME RecordReceipt PROVE TypeOK'
  <2>1. StagesTyped'
    BY <1>6 DEF StagesTyped, RecordReceipt
  <2> QED BY <1>6, <2>1, RunKept, ReviewKept, ResultsKept, LeaseKept, DiskKept DEF RecordReceipt, diskVars, execVars, reviewVars, runVars
<1>7. ASSUME NEW s \in Stages, RecordStageInvalid(s) PROVE TypeOK'
  <2>1. StagesTyped'
    BY <1>7 DEF StagesTyped, RecordStageInvalid, StageStatuses
  <2>2. RunTyped'
    BY <1>7 DEF RunTyped, RecordStageInvalid, Statuses
  <2> QED BY <1>7, <2>1, <2>2, ReviewKept, ResultsKept, LeaseKept, DiskKept DEF RecordStageInvalid, diskVars, execVars, reviewVars
<1>8. ASSUME NEW s \in Stages, NEW c \in Content, RecordStagePass(s, c) PROVE TypeOK'
  <2>1. StagesTyped'
    BY <1>8 DEF StagesTyped, RecordStagePass, Recorded, StageStatuses
  <2>2. RunTyped'
    BY <1>8 DEF RunTyped, RecordStagePass, Recorded, StagesTyped, Gates, Statuses
  <2>3. ReviewTyped'
    BY <1>8 DEF ReviewTyped, RecordStagePass, Recorded
  <2> QED BY <1>8, <2>1, <2>2, <2>3, ResultsKept, LeaseKept, DiskKept DEF RecordStagePass, diskVars, execVars, Recorded
<1>9. ASSUME NEW s \in Stages, NEW c \in Content, RecordStageBlocked(s, c) PROVE TypeOK'
  <2>1. StagesTyped'
    BY <1>9 DEF StagesTyped, RecordStageBlocked, Recorded, StageStatuses
  <2>2. RunTyped'
    BY <1>9 DEF RunTyped, RecordStageBlocked, Recorded, NoGate, Gates, Statuses
  <2>3. ReviewTyped'
    BY <1>9 DEF ReviewTyped, RecordStageBlocked, Recorded
  <2> QED BY <1>9, <2>1, <2>2, <2>3, ResultsKept, LeaseKept, DiskKept DEF RecordStageBlocked, diskVars, execVars, Recorded
<1>10. ASSUME NEW s \in Stages, NEW c \in Content, NEW t \in Stages, RecordStageFail(s, c, t) PROVE TypeOK'
  <2>1. StagesTyped'
    BY <1>10 DEF StagesTyped, RecordStageFail, Recorded, StageStatuses
  <2>2. RunTyped'
    <3>1. gate' \in Gates
      BY <1>10 DEF RecordStageFail, StagesTyped, NoGate, Gates
    <3> QED BY <1>10, <3>1 DEF RecordStageFail, Recorded, RunTyped, Statuses
  <2>3. ReviewTyped'
    <3>1. attempt[s] \in Nat /\ artifact[t] \in Nat
      BY DEF StagesTyped
    <3>2. CASE Role[s] = "review"
      <4>1. plan' = [id |-> <<s, attempt[s]>>, target |-> t, art |-> artifact[t]]
        BY <1>10, <3>2 DEF RecordStageFail
      <4>2. plans' \in Seq(Stages \X Nat)
        <5> DEFINE E == Stages \X Nat
        <5>1. <<s, attempt[s]>> \in E
          BY <3>1
        <5>2. plans \in Seq(E) /\ plans' = Append(plans, <<s, attempt[s]>>)
          BY <1>10, <3>2 DEF RecordStageFail, ReviewTyped
        <5> HIDE DEF E
        <5>3. plans' \in Seq(E)
          BY <5>1, <5>2
        <5> QED BY <5>3 DEF E
      <4> QED BY <1>10, <3>1, <4>1, <4>2 DEF RecordStageFail, Recorded, ReviewTyped
    <3>3. CASE Role[s] # "review"
      BY <1>10, <3>3 DEF RecordStageFail, Recorded, ReviewTyped
    <3> QED BY <3>2, <3>3
  <2> QED BY <1>10, <2>1, <2>2, <2>3, ResultsKept, LeaseKept, DiskKept DEF RecordStageFail, diskVars, execVars, Recorded
<1>11. ASSUME NEW s \in Stages, NEW t \in Stages, RecordStageCrash(s, t) PROVE TypeOK'
  <2>1. ReviewTyped'
    BY <1>11 DEF ReviewTyped, RecordStageCrash, StagesTyped
  <2>2. DiskTyped'
    BY <1>11 DEF DiskTyped, RecordStageCrash, Dies
  <2> QED BY <1>11, <2>1, <2>2, StagesKept, RunKept, ResultsKept, LeaseKept DEF RecordStageCrash, execVars, runVars, stageVars
<1>12. ASSUME NEW s \in Stages, ApproveStage(s) PROVE TypeOK'
  <2>1. StagesTyped'
    BY <1>12 DEF StagesTyped, ApproveStage, StageStatuses
  <2>2. RunTyped'
    BY <1>12, ProceedType DEF RunTyped, ApproveStage, StagesTyped, NoGate, Gates, Pair, Pairs, Statuses
  <2> QED BY <1>12, <2>1, <2>2, ReviewKept, ResultsKept, LeaseKept, DiskKept DEF ApproveStage, diskVars, execVars, reviewVars
<1>13. ASSUME NEW s \in Stages, ApproveRollback(s) PROVE TypeOK'
  <2>1. StagesTyped'
    BY <1>13, SentBackType DEF StagesTyped, ApproveRollback
  <2>2. RunTyped'
    BY <1>13 DEF RunTyped, ApproveRollback, ApprovalsWithout, NoGate, Gates, NoQuery, Statuses
  <2>3. ResultsTyped'
    BY <1>13, WithoutType DEF ResultsTyped, ApproveRollback
  <2> QED BY <1>13, <2>1, <2>2, <2>3, ReviewKept, LeaseKept, DiskKept DEF ApproveRollback, diskVars, execVars, reviewVars
<1>14. ASSUME NEW s \in Stages, Revise(s) PROVE TypeOK'
  <2>1. StagesTyped'
    BY <1>14, SentBackType DEF StagesTyped, Revise
  <2>2. RunTyped'
    BY <1>14 DEF RunTyped, Revise, ApprovalsWithout, NoGate, Gates, NoQuery, Statuses
  <2>3. ResultsTyped'
    BY <1>14, WithoutType DEF ResultsTyped, Revise
  <2>4. LeaseTyped'
    BY <1>14 DEF LeaseTyped, Revise, NoLease, NoWork, Works, NoPair
  <2> QED BY <1>14, <2>1, <2>2, <2>3, <2>4, ReviewKept, DiskKept DEF Revise, diskVars, reviewVars
<1>15. ASSUME PrepareQuery PROVE TypeOK'
  <2>1. RunTyped'
    BY <1>15 DEF RunTyped, PrepareQuery, CanPrepareQuery, StagesTyped, ApprovedOf, Pair, Pairs, Statuses
  <2>2. DiskTyped'
    BY <1>15 DEF DiskTyped, PrepareQuery, Dies, RunTyped
  <2> QED BY <1>15, <2>1, <2>2, StagesKept, ReviewKept, ResultsKept, LeaseKept DEF PrepareQuery, execVars, reviewVars, stageVars
<1>16. ASSUME PrepareQueryCrash PROVE TypeOK'
  <2>1. DiskTyped'
    BY <1>16 DEF DiskTyped, PrepareQueryCrash, Dies, RunTyped
  <2> QED BY <1>16, <2>1, StagesKept, RunKept, ReviewKept, ResultsKept, LeaseKept DEF PrepareQueryCrash, execVars, reviewVars, runVars, stageVars
<1>17. ASSUME ApproveQuery PROVE TypeOK'
  <2>1. RunTyped'
    BY <1>17 DEF RunTyped, ApproveQuery, Statuses
  <2> QED BY <1>17, <2>1, StagesKept, ReviewKept, ResultsKept, LeaseKept, DiskKept DEF ApproveQuery, diskVars, execVars, reviewVars, stageVars
<1>18. ASSUME Read PROVE TypeOK'
  <2>1. LeaseTyped'
    <3>1. snapshot' \in Works
      <4>1. CASE ReadForQuery
        BY <4>1, NoWorkType DEF ReadForQuery, Works, RunTyped
      <4>2. CASE ReadForLineage
        <5>1. {Pair(s) : s \in {t \in Stages : stageStatus[t] = "approved" /\ artifact[t] # 0}}
                \in SUBSET Pairs
          BY DEF StagesTyped, Pair, Pairs
        <5>2. (IF plans = <<>> THEN NoPair ELSE plans[Len(plans)]) \in (Stages \cup {NoStage}) \X Nat
          BY DEF ReviewTyped, NoPair
        <5> QED BY <4>2, <5>1, <5>2, NoWorkType DEF ReadForLineage, Works
      <4>3. CASE ReadForReport
        <5>1. {Pair(s) : s \in ApprovedOf("report") \cup ApprovedOf("review")} \in SUBSET Pairs
          BY DEF StagesTyped, Pair, Pairs, ApprovedOf
        <5>2. (IF results.lineage = <<>> THEN 0 ELSE LastLineage.id) \in Nat
          <6>1. CASE results.lineage # <<>>
            <7>1. results.lineage \in Seq(LineageRecords)
              BY DEF ResultsTyped
            <7>2. LastLineage \in LineageRecords
              BY <6>1, <7>1 DEF LastLineage
            <7> QED BY <6>1, <7>2 DEF LineageRecords
          <6> QED BY <6>1
        <5> QED BY <4>3, <5>1, <5>2, NoWorkType DEF ReadForReport, Works
      <4> QED BY <1>18, <4>1, <4>2, <4>3 DEF Read
    <3> QED BY <1>18, <3>1 DEF Read, LeaseTyped
  <2> QED BY <1>18, <2>1, StagesKept, RunKept, ReviewKept, ResultsKept, DiskKept DEF Read, diskVars, execVars, reviewVars, runVars, stageVars
<1>19. ASSUME DropSnapshot PROVE TypeOK'
  <2>1. LeaseTyped'
    BY <1>19 DEF LeaseTyped, DropSnapshot, NoWork, Works, NoPair
  <2> QED BY <1>19, <2>1, StagesKept, RunKept, ReviewKept, ResultsKept, DiskKept DEF DropSnapshot, diskVars, execVars, reviewVars, runVars, stageVars
<1>20. ASSUME AbortLease PROVE TypeOK'
  <2>1. LeaseTyped'
    BY <1>20 DEF LeaseTyped, AbortLease, NoLease, NoWork, Works, NoPair
  <2> QED BY <1>20, <2>1, StagesKept, RunKept, ReviewKept, ResultsKept, DiskKept DEF AbortLease, diskVars, execVars, reviewVars, runVars, stageVars
<1>21. ASSUME NEW ended \in BOOLEAN, NEW staged \in BOOLEAN, BeginLease(ended, staged) PROVE TypeOK'
  <2>1. LeaseTyped'
    BY <1>21 DEF LeaseTyped, BeginLease, NoWork, Works, NoPair, RunTyped
  <2>2. DiskTyped'
    BY <1>21 DEF DiskTyped, BeginLease, Dies
  <2> QED BY <1>21, <2>1, <2>2, StagesKept, RunKept, ReviewKept, ResultsKept DEF BeginLease, execVars, reviewVars, runVars, stageVars
<1>22. ASSUME NEW warns \in BOOLEAN, PublishQuery(warns) PROVE TypeOK'
  <2>1. RunTyped'
    BY <1>22 DEF RunTyped, PublishQuery, NoQuery, Statuses
  <2>2. ResultsTyped'
    BY <1>22, RecordTypes DEF ResultsTyped, PublishQuery
  <2>3. LeaseTyped'
    BY <1>22 DEF LeaseTyped, PublishQuery, NoLease, NoWork, Works, NoPair
  <2>4. DiskTyped'
    BY <1>22 DEF DiskTyped, PublishQuery, Dies, LeaseTyped, Works, Output, NoStage, Pairs
  <2> QED BY <1>22, <2>1, <2>2, <2>3, <2>4, StagesKept, ReviewKept DEF PublishQuery, reviewVars, stageVars
<1>23. ASSUME PublishReport PROVE TypeOK'
  <2>1. ResultsTyped'
    BY <1>23, RecordTypes DEF ResultsTyped, PublishReport
  <2>2. LeaseTyped'
    BY <1>23 DEF LeaseTyped, PublishReport, NoLease, NoWork, Works, NoPair
  <2>3. DiskTyped'
    BY <1>23 DEF DiskTyped, PublishReport, Dies, LeaseTyped, Works, Output, NoStage, Pairs
  <2> QED BY <1>23, <2>1, <2>2, <2>3, StagesKept, RunKept, ReviewKept DEF PublishReport, reviewVars, runVars, stageVars
<1>24. ASSUME NEW breaks \in BOOLEAN, PublishLineage(breaks) PROVE TypeOK'
  <2>1. ResultsTyped'
    <3>1. <<LineageRecord(breaks)>> \in Seq(LineageRecords)
      BY RecordTypes
    <3> QED BY <1>24, <3>1 DEF ResultsTyped, PublishLineage
  <2>2. LeaseTyped'
    BY <1>24 DEF LeaseTyped, PublishLineage, NoLease, NoWork, Works, NoPair
  <2> QED BY <1>24, <2>1, <2>2, StagesKept, RunKept, ReviewKept, DiskKept DEF PublishLineage, diskVars, reviewVars, runVars, stageVars
<1>25. ASSUME NEW breaks \in BOOLEAN, NEW warns \in BOOLEAN,
           RecoverExecutions(breaks, warns) PROVE TypeOK'
  <2>1. RunTyped'
    <3>1. CASE UNCHANGED runVars
      BY <3>1, RunKept DEF RunTyped
    <3>2. CASE ~ UNCHANGED runVars
      <4>1. status' \in Statuses
        BY <1>25, <3>2 DEF RunTyped, RecoverExecutions, Statuses
      <4>2. query' \in {query, NoQuery}
        BY <1>25, <3>2 DEF RecoverExecutions
      <4> QED BY <1>25, <3>2, <4>1, <4>2 DEF RunTyped, RecoverExecutions, NoQuery
    <3> QED BY <3>1, <3>2
  <2>2. ResultsTyped'
    <3> DEFINE q == IF lease.work.kind # "query" THEN results.query
                     ELSE results.query \cup {QueryRecord(warns)}
               l == IF lease.work.kind # "lineage" THEN results.lineage
                     ELSE Append(results.lineage, LineageRecord(breaks))
               f == IF lease.work.kind # "final_report" THEN results.final
                     ELSE results.final \cup {FinalRecord}
    <3>1. q \in SUBSET QueryRecords
      BY RecordTypes DEF ResultsTyped
    <3>2. l \in Seq(LineageRecords)
      BY RecordTypes DEF ResultsTyped
    <3>3. f \in SUBSET FinalRecords
      BY RecordTypes DEF ResultsTyped
    <3>4. results' \in {results, [results EXCEPT !.query = q, !.lineage = l, !.final = f]}
      BY <1>25 DEF RecoverExecutions, ResultsTyped
    <3> HIDE DEF q, l, f
    <3> QED BY <3>1, <3>2, <3>3, <3>4 DEF ResultsTyped
  <2>3. LeaseTyped'
    BY <1>25 DEF LeaseTyped, RecoverExecutions, NoLease, NoWork, Works, NoPair
  <2> QED BY <1>25, <2>1, <2>2, <2>3, StagesKept, ReviewKept, DiskKept DEF RecoverExecutions, diskVars, reviewVars, stageVars
<1>26. ASSUME NEW moved \in BOOLEAN, PublishCrash(moved) PROVE TypeOK'
  <2>1. LeaseTyped'
    BY <1>26 DEF LeaseTyped, PublishCrash
  <2>2. DiskTyped'
    BY <1>26 DEF DiskTyped, PublishCrash, Dies, LeaseTyped, Works, Output, NoStage, Pairs
  <2> QED BY <1>26, <2>1, <2>2, StagesKept, RunKept, ReviewKept, ResultsKept DEF PublishCrash, execVars, reviewVars, runVars, stageVars
<1>27. ASSUME Stop PROVE TypeOK'
  <2>1. RunTyped'
    BY <1>27 DEF RunTyped, Stop, Statuses
  <2>2. LeaseTyped'
    BY <1>27 DEF LeaseTyped, Stop, NoLease, NoWork, Works, NoPair
  <2> QED BY <1>27, <2>1, <2>2, StagesKept, ReviewKept, ResultsKept, DiskKept DEF Stop, diskVars, execVars, reviewVars, stageVars
<1>28. ASSUME Resume PROVE TypeOK'
  <2>1. StagesTyped'
    BY <1>28 DEF StagesTyped, Resume, RunTyped, Interrupted, GivesUp, StageStatuses
  <2>2. RunTyped'
    BY <1>28 DEF RunTyped, Resume, CanResume, ResumeTarget, Interrupted, GivesUp, Statuses,
       ResumedStatus
  <2>3. LeaseTyped'
    BY <1>28 DEF LeaseTyped, Resume, NoLease, NoWork, Works, NoPair
  <2> QED BY <1>28, <2>1, <2>2, <2>3, ReviewKept, ResultsKept, DiskKept DEF Resume, diskVars, execVars, reviewVars
<1>29. ASSUME Finalize PROVE TypeOK'
  <2>1. RunTyped'
    BY <1>29 DEF RunTyped, Finalize, Statuses
  <2> QED BY <1>29, <2>1, StagesKept, ReviewKept, ResultsKept, LeaseKept, DiskKept DEF Finalize, diskVars, execVars, reviewVars, stageVars
<1>31. ASSUME NEW X \in AgentUpdates, UpdateAgents(X) PROVE TypeOK'
  <2>1. DiskTyped'
    BY <1>31, ConstantsOK DEF DiskTyped, UpdateAgents, ConstantsOK
  <2> QED BY <1>31, <2>1, StagesKept, RunKept, ReviewKept, ResultsKept, LeaseKept DEF UpdateAgents, execVars, reviewVars, runVars, stageVars
<1>30. CASE UNCHANGED vars
  BY <1>30, StagesKept, RunKept, ReviewKept, ResultsKept, LeaseKept, DiskKept DEF vars, execVars
<1> QED
  BY ContentOfOutput, <1>31, <1>1, <1>2, <1>3, <1>4, <1>5, <1>6, <1>7, <1>8, <1>9, <1>10, <1>11, <1>12, <1>13, <1>14, <1>15, <1>16, <1>17, <1>18, <1>19, <1>20, <1>21, <1>22, <1>23, <1>24, <1>25, <1>26, <1>27, <1>28, <1>29, <1>30 DEF Next, RouteSteps, StageSteps, QuerySteps, LeaseSteps

-----------------------------------------------------------------------------
(* The stages, the approvals and the boundary of the run agree.            *)
(*                                                                         *)
(* None of the five invariants is inductive alone: that a recorded stage   *)
(* was not approved comes from Boundaries, that no stage runs when a gate  *)
(* is answered too, that no query is open when a role starts or a rollback *)
(* is approved ties the lease to the query.  Their conjunction is.         *)

Control == InputsApproved /\ ApprovalsExact /\ OneRunning /\ Boundaries /\ QueryLeaseApproved

NoneRuns == \A s \in Stages : stageStatus[s] # "running"

LEMMA ControlInit == Init => Control
BY DEF Init, Control, InputsApproved, ApprovalsExact, OneRunning, Boundaries, QueryLeaseApproved,
   ResumeTarget, Live, NoLease, NoGate, NoQuery

LEMMA ControlKept ==
    ASSUME Control, UNCHANGED <<deps, stageStatus, artifact, verdict, inputHashes, runVars, lease>>
    PROVE  Control'
BY DEF Control, InputsApproved, ApprovalsExact, OneRunning, Boundaries, QueryLeaseApproved,
   ResumeTarget, Interrupted, Live, Pair, runVars

(* A stage stands in its own descendants, and they are closed under        *)
(* "depends on".                                                           *)
LEMMA DescendantsClosed ==
    ASSUME NEW t \in Stages, NEW s \in Stages, NEW d \in deps[s], d \in Descendants(t)
    PROVE  s \in Descendants(t)
<1> SUFFICES ASSUME NEW X \in SUBSET Stages, t \in X, Closed(deps, X) PROVE s \in X
  BY DEF Descendants, DescendantsIn
<1>1. d \in X
  BY DEF Descendants, DescendantsIn
<1> QED BY <1>1 DEF Closed

LEMMA DescendsFromItself == ASSUME NEW t \in Stages PROVE t \in Descendants(t)
BY DEF Descendants, DescendantsIn

LEMMA NoCurrentNoneRuns == ASSUME OneRunning, currentStage = NoStage PROVE NoneRuns
BY StagesAreNat DEF OneRunning, NoneRuns

(* While a query is open no role has the turn and no rollback waits.       *)
LEMMA QueryOpen ==
    ASSUME Control, query # NoQuery
    PROVE  currentStage = NoStage /\ NoneRuns /\ gate.type # "rollback"
<1>1. currentStage = NoStage /\ gate.type # "rollback"
  BY DEF Control, Boundaries
<1> QED BY <1>1, NoCurrentNoneRuns DEF Control

(* Without an open query no lease executes one.                            *)
LEMMA QueryClosed ==
    ASSUME Control, query = NoQuery
    PROVE  ~ (lease.phase # "none" /\ lease.work.kind = "query")
BY DEF Control, QueryLeaseApproved, NoQuery

LEMMA LeaseOfQuery ==
    ASSUME Control, lease.phase # "none", lease.work.kind = "query"
    PROVE  /\ query.phase = "approved" /\ query.rev = lease.work.rev /\ query # NoQuery
           /\ NoneRuns /\ currentStage = NoStage /\ gate.type # "rollback"
<1>1. query.phase = "approved" /\ query.rev = lease.work.rev
  BY DEF Control, QueryLeaseApproved
<1>2. query # NoQuery
  BY <1>1 DEF NoQuery
<1> QED BY <1>1, <1>2, QueryOpen

-----------------------------------------------------------------------------
(* What a command that changes one stage preserves.                        *)

(* Changing the status of a stage that is not approved disturbs no other   *)
(* stage: nobody live depends on it.                                       *)
LEMMA InputsStep ==
    ASSUME StagesTyped, InputsApproved,
           NEW s \in Stages, stageStatus[s] # "approved",
           NEW x, stageStatus' = [stageStatus EXCEPT ![s] = x],
           deps' = deps,
           \A q \in Stages \ {s} : artifact'[q] = artifact[q] /\ inputHashes'[q] = inputHashes[q],
           x \in Live => \A d \in deps[s] : /\ stageStatus[d] = "approved"
                                            /\ inputHashes'[s][d] = artifact[d]
    PROVE  InputsApproved'
<1> SUFFICES ASSUME NEW q \in Stages, stageStatus'[q] \in Live, NEW d \in deps'[q]
             PROVE  stageStatus'[d] = "approved" /\ inputHashes'[q][d] = artifact'[d]
  BY DEF InputsApproved, Live
<1>1. d \in Stages /\ stageStatus \in [Stages -> StageStatuses]
  BY DEF StagesTyped
<1>2. stageStatus[d] = "approved" /\ inputHashes'[q][d] = artifact[d]
  <2>1. CASE q = s
    BY <1>1, <2>1
  <2>2. CASE q # s
    <3>1. stageStatus[q] \in Live
      BY <1>1, <2>2
    <3> QED BY <2>2, <3>1 DEF InputsApproved
  <2> QED BY <2>1, <2>2
<1>3. d # s
  BY <1>2
<1> QED BY <1>1, <1>2, <1>3

LEMMA ApprovalsStep ==
    ASSUME StagesTyped, ApprovalsExact,
           NEW s \in Stages, stageStatus[s] # "approved",
           NEW x, x # "approved", stageStatus' = [stageStatus EXCEPT ![s] = x],
           \A q \in Stages \ {s} : artifact'[q] = artifact[q] /\ verdict'[q] = verdict[q],
           approved' = approved
    PROVE  ApprovalsExact'
<1>1. \A q \in Stages : (stageStatus'[q] = "approved") <=> (stageStatus[q] = "approved")
  BY DEF StagesTyped
<1>2. \A q \in Stages : stageStatus[q] = "approved" =>
          Pair(q)' = Pair(q) /\ artifact'[q] = artifact[q] /\ verdict'[q] = verdict[q]
  BY DEF Pair
<1> QED BY <1>1, <1>2 DEF ApprovalsExact

(* A run that stands at no stage, without a rollback gate, and is neither  *)
(* blocked, failed nor stopped meets every demand of Boundaries.           *)
LEMMA IdleStep ==
    ASSUME currentStage' = NoStage, NoneRuns', gate'.type # "rollback",
           status' \notin {"blocked", "failed", "stopped"}
    PROVE  OneRunning' /\ Boundaries'
<1>1. ResumeTarget' = status'
  BY DEF ResumeTarget
<1> QED BY <1>1 DEF OneRunning, Boundaries, NoneRuns

(* A lease and a query that do not change stay in agreement as long as no  *)
(* stage starts to run.                                                    *)
LEMMA LeaseStep ==
    ASSUME QueryLeaseApproved, UNCHANGED <<lease, query>>,
           NoneRuns => NoneRuns'
    PROVE  QueryLeaseApproved'
BY DEF QueryLeaseApproved, NoneRuns

LEMMA NoLeaseStep == ASSUME lease' = NoLease PROVE QueryLeaseApproved'
BY DEF QueryLeaseApproved, NoLease

(* Sending stage t back leaves live only stages that do not descend from   *)
(* it, and the approvals of those.                                         *)
LEMMA SentBackStep ==
    ASSUME StagesTyped, InputsApproved, ApprovalsExact, NoneRuns, NEW t \in Stages,
           stageStatus' = SentBack(t), approved' = ApprovalsWithout(Descendants(t)),
           UNCHANGED <<deps, artifact, inputHashes, verdict>>
    PROVE  InputsApproved' /\ ApprovalsExact' /\ NoneRuns'
<1>1. \A s \in Stages : stageStatus'[s] \in Live =>
          s \notin Descendants(t) /\ stageStatus'[s] = stageStatus[s]
  BY DescendsFromItself DEF SentBack, Live
<1>2. \A s \in Stages : s \notin Descendants(t) => stageStatus'[s] = stageStatus[s]
  BY DescendsFromItself DEF SentBack
<1>3. InputsApproved'
  <2> SUFFICES ASSUME NEW s \in Stages, stageStatus'[s] \in Live, NEW d \in deps[s]
               PROVE  stageStatus'[d] = "approved" /\ inputHashes[s][d] = artifact[d]
    BY DEF InputsApproved, Live
  <2>1. s \notin Descendants(t) /\ stageStatus[s] \in Live
    BY <1>1
  <2>2. d \in Stages /\ stageStatus[d] = "approved" /\ inputHashes[s][d] = artifact[d]
    BY <2>1 DEF InputsApproved, StagesTyped
  <2>3. d \notin Descendants(t)
    BY <2>1, <2>2, DescendantsClosed
  <2> QED BY <1>2, <2>2, <2>3
<1>4. \A s \in Stages : stageStatus'[s] = "approved" <=>
          stageStatus[s] = "approved" /\ s \notin Descendants(t)
  BY <1>1, <1>2 DEF Live
<1>5. ApprovalsExact'
  <2>1. \A s \in Stages : Pair(s)' = Pair(s) /\ Pair(s)[1] = s
    BY DEF Pair
  <2>2. approved' = {p \in approved : p[1] \notin Descendants(t)}
    BY DEF ApprovalsWithout
  <2>3. approved' = {Pair(s)' : s \in {q \in Stages : stageStatus'[q] = "approved"}}
    BY <1>4, <2>1, <2>2 DEF ApprovalsExact
  <2>4. \A s \in Stages : stageStatus'[s] = "approved" => artifact'[s] # 0 /\ verdict'[s] = "PASS"
    BY <1>4 DEF ApprovalsExact
  <2> QED BY <2>3, <2>4 DEF ApprovalsExact
<1>6. NoneRuns'
  BY <1>1 DEF NoneRuns, Live
<1> QED BY <1>3, <1>5, <1>6

-----------------------------------------------------------------------------
(* Each command preserves Control.                                         *)

LEMMA SetRouteKeepsControl ==
    ASSUME TypeOK, Control, NEW r \in Routes, NEW reuse \in SUBSET Stages, SetRoute(r, reuse)
    PROVE  Control'
<1>1. \A s \in Stages : stageStatus'[s] \in Live => s \in reuse /\ stageStatus'[s] = "approved"
  BY ConstantsOK DEF ConstantsOK, RoutePlan, SetRoute, Live
<1>2. \A s \in reuse : CanReuse(r, reuse, s)
  BY DEF SetRoute, CanSetRoute
<1>3. InputsApproved'
  <2> SUFFICES ASSUME NEW s \in Stages, stageStatus'[s] \in Live, NEW d \in deps'[s]
               PROVE  stageStatus'[d] = "approved" /\ inputHashes'[s][d] = artifact'[d]
    BY DEF InputsApproved, Live
  <2>1. s \in reuse /\ CanReuse(r, reuse, s)
    BY <1>1, <1>2
  <2>2. d \in reuse /\ d \in deps[s] /\ stageStatus[s] = "approved"
    BY <2>1 DEF CanReuse, SetRoute
  <2>3. inputHashes[s][d] = artifact[d]
    BY <2>1, <2>2 DEF Control, InputsApproved, Live
  <2> QED BY <2>1, <2>2, <2>3 DEF SetRoute
<1>4. \A s \in Stages : stageStatus'[s] = "approved" <=> s \in reuse
  BY <1>1 DEF SetRoute, Live
<1>5. \A s \in reuse : /\ stageStatus[s] = "approved" /\ Pair(s) \in approved
                       /\ Pair(s)' = Pair(s) /\ artifact'[s] = artifact[s] /\ verdict'[s] = verdict[s]
  BY <1>2 DEF CanReuse, SetRoute, Pair
<1>6. ApprovalsExact'
  <2>1. approved' = {p \in approved : p[1] \in reuse}
    BY DEF SetRoute
  <2>2. approved = {Pair(s) : s \in {t \in Stages : stageStatus[t] = "approved"}}
    BY DEF Control, ApprovalsExact
  <2>3. \A s \in Stages : Pair(s)[1] = s
    BY DEF Pair
  <2>4. approved' = {Pair(s)' : s \in {t \in Stages : stageStatus'[t] = "approved"}}
    BY <1>4, <1>5, <2>1, <2>2, <2>3
  <2>5. \A s \in Stages : stageStatus'[s] = "approved" => artifact'[s] # 0 /\ verdict'[s] = "PASS"
    BY <1>4, <1>5 DEF Control, ApprovalsExact
  <2> QED BY <2>4, <2>5 DEF ApprovalsExact
<1>7. NoneRuns'
  BY <1>1 DEF NoneRuns, Live
<1>8. OneRunning' /\ Boundaries'
  BY <1>7, IdleStep DEF SetRoute
<1>9. QueryLeaseApproved'
  BY NoLeaseStep DEF SetRoute
<1> QED BY <1>3, <1>6, <1>8, <1>9 DEF Control

LEMMA ApproveRouteKeepsControl ==
    ASSUME TypeOK, Control, ApproveRoute
    PROVE  Control'
<1>1. NoneRuns /\ currentStage = NoStage
  BY NoCurrentNoneRuns DEF ApproveRoute, Control, Boundaries, ResumeTarget, CanApproveRoute
<1>2. InputsApproved' /\ ApprovalsExact'
  BY DEF ApproveRoute, stageVars, Control, InputsApproved, ApprovalsExact, Live, Pair
<1>3. NoneRuns'
  BY <1>1 DEF ApproveRoute, stageVars, NoneRuns
<1>4. OneRunning' /\ Boundaries'
  BY <1>1, <1>3, ProceedType, IdleStep DEF ApproveRoute, NoGate
<1>5. QueryLeaseApproved'
  BY <1>3, LeaseStep DEF ApproveRoute, execVars, Control
<1> QED BY <1>2, <1>4, <1>5 DEF Control

LEMMA StartStageKeepsControl ==
    ASSUME TypeOK, Control, NEW s \in Stages, NEW bundled \in BOOLEAN, StartStage(s, bundled)
    PROVE  Control'
<1>1. /\ stageStatus[s] # "approved" /\ NoneRuns
      /\ gate = NoGate /\ query = NoQuery /\ UNCHANGED <<gate, query, lease>>
      /\ stageStatus' = [stageStatus EXCEPT ![s] = "running"] /\ deps' = deps
      /\ UNCHANGED <<artifact, verdict, approved>>
      /\ status' = "running" /\ currentStage' = s
      /\ \A d \in deps[s] : stageStatus[d] = "approved"
  BY DEF StartStage, CanStart, Startable, NoneRuns, execVars
<1>2. stageStatus \in [Stages -> StageStatuses] /\ inputHashes \in [Stages -> [Stages -> Nat]]
      /\ StagesTyped /\ deps[s] \subseteq Stages
  BY DEF TypeOK, StagesTyped
<1>3. /\ \A q \in Stages \ {s} : inputHashes'[q] = inputHashes[q]
      /\ \A d \in deps[s] : inputHashes'[s][d] = artifact[d]
  BY <1>2 DEF StartStage
<1>4. InputsApproved'
  BY <1>1, <1>2, <1>3, InputsStep DEF Control
<1>5. ApprovalsExact'
  BY <1>1, <1>2, ApprovalsStep DEF Control
<1>6. \A q \in Stages : stageStatus'[q] = "running" => q = s
  BY <1>1, <1>2 DEF NoneRuns
<1>7. OneRunning'
  BY <1>1, <1>6 DEF OneRunning
<1>8. ResumeTarget' = "running" /\ stageStatus'[s] = "running" /\ gate'.type # "rollback"
  BY <1>1, <1>2 DEF ResumeTarget, NoGate
<1>9. Boundaries'
  BY <1>1, <1>8 DEF Boundaries
<1>10. QueryLeaseApproved'
  BY <1>1, QueryClosed DEF QueryLeaseApproved
<1> QED BY <1>4, <1>5, <1>7, <1>9, <1>10 DEF Control

(* What all the ways of recording a stage have in common: it was running,  *)
(* it alone, and no query was open.                                        *)
LEMMA RecordingAlone ==
    ASSUME TypeOK, Control, NEW s \in Stages, Recording(s)
    PROVE  /\ stageStatus[s] = "running" /\ query = NoQuery
           /\ \A q \in Stages \ {s} : stageStatus[q] # "running"
           /\ currentStage = s /\ s # NoStage
<1>1. s # NoStage /\ currentStage = s /\ status = "running"
  BY StagesAreNat DEF Recording
<1>2. stageStatus[s] = "running" /\ query = NoQuery
  BY <1>1 DEF Control, Boundaries, ResumeTarget
<1> QED BY <1>1, <1>2 DEF Control, OneRunning

LEMMA RecordInvalidKeepsControl ==
    ASSUME TypeOK, Control, NEW s \in Stages, RecordStageInvalid(s)
    PROVE  Control'
<1>1. /\ stageStatus[s] = "running" /\ query = NoQuery
      /\ \A q \in Stages \ {s} : stageStatus[q] # "running"
      /\ currentStage = s /\ s # NoStage
  BY RecordingAlone DEF RecordStageInvalid
<1>2. /\ stageStatus' = [stageStatus EXCEPT ![s] = "failed"] /\ status' = "failed"
      /\ UNCHANGED <<deps, artifact, verdict, inputHashes, approved, currentStage, gate,
                     query, lease>>
  BY DEF RecordStageInvalid, execVars
<1>3. StagesTyped /\ stageStatus \in [Stages -> StageStatuses]
  BY DEF TypeOK, StagesTyped
<1>4. InputsApproved'
  BY <1>1, <1>2, <1>3, InputsStep DEF Control, Live
<1>5. ApprovalsExact'
  BY <1>1, <1>2, <1>3, ApprovalsStep DEF Control
<1>6. NoneRuns' /\ stageStatus'[s] = "failed"
  BY <1>1, <1>2, <1>3 DEF NoneRuns
<1>7. OneRunning'
  BY <1>6 DEF OneRunning, NoneRuns
<1>8. ResumeTarget' = "failed" /\ Interrupted' = s
  BY <1>1, <1>2 DEF ResumeTarget, Interrupted
<1>9. Boundaries'
  BY <1>1, <1>2, <1>6, <1>8 DEF Boundaries, NoneRuns
<1>10. QueryLeaseApproved'
  BY <1>2, <1>6, LeaseStep DEF Control
<1> QED BY <1>4, <1>5, <1>7, <1>9, <1>10 DEF Control

LEMMA RecordPassKeepsControl ==
    ASSUME TypeOK, Control, NEW s \in Stages, NEW c \in Content, RecordStagePass(s, c)
    PROVE  Control'
<1>1. /\ stageStatus[s] = "running" /\ query = NoQuery
      /\ \A q \in Stages \ {s} : stageStatus[q] # "running"
      /\ currentStage = s /\ s # NoStage
  BY RecordingAlone DEF RecordStagePass, Recorded
<1>2. /\ stageStatus' = [stageStatus EXCEPT ![s] = "awaiting_user_confirmation"]
      /\ status' = "awaiting_user_confirmation" /\ gate'.type = "stage"
      /\ artifact' = [artifact EXCEPT ![s] = attempt[s]]
      /\ verdict' = [verdict EXCEPT ![s] = "PASS"]
      /\ UNCHANGED <<deps, inputHashes, approved, currentStage, query, lease>>
  BY DEF RecordStagePass, Recorded, execVars
<1>3. StagesTyped /\ stageStatus \in [Stages -> StageStatuses]
      /\ artifact \in [Stages -> Nat] /\ DOMAIN verdict = Stages
  BY DEF TypeOK, StagesTyped
<1>4. \A q \in Stages \ {s} : artifact'[q] = artifact[q] /\ verdict'[q] = verdict[q]
  BY <1>2, <1>3
<1>5. \A d \in deps[s] : stageStatus[d] = "approved" /\ inputHashes'[s][d] = artifact[d]
  BY <1>1, <1>2 DEF Control, InputsApproved, Live
<1>6. InputsApproved'
  BY <1>1, <1>2, <1>3, <1>4, <1>5, InputsStep DEF Control
<1>7. ApprovalsExact'
  BY <1>1, <1>2, <1>3, <1>4, ApprovalsStep DEF Control
<1>8. NoneRuns'
  BY <1>1, <1>2, <1>3 DEF NoneRuns
<1>9. OneRunning'
  BY <1>8 DEF OneRunning, NoneRuns
<1>10. ResumeTarget' = "awaiting_user_confirmation"
  BY <1>2 DEF ResumeTarget
<1>11. Boundaries'
  BY <1>1, <1>2, <1>8, <1>10 DEF Boundaries, NoneRuns
<1>12. QueryLeaseApproved'
  BY <1>2, <1>8, LeaseStep DEF Control
<1> QED BY <1>6, <1>7, <1>9, <1>11, <1>12 DEF Control

(* A stage recorded as blocked or failed leaves the turn and is the stage  *)
(* to go back to.                                                          *)
LEMMA GivenBackKeepsControl ==
    ASSUME TypeOK, Control, NEW s \in Stages, NEW x \in {"blocked", "failed"},
           NEW v, NEW c \in Content, Recorded(s, v, c),
           stageStatus' = [stageStatus EXCEPT ![s] = x],
           status' = x, currentStage' = NoStage, pendingStage' = s,
           x = "blocked" => gate' = NoGate
    PROVE  Control'
<1>1. /\ stageStatus[s] = "running" /\ query = NoQuery
      /\ \A q \in Stages \ {s} : stageStatus[q] # "running"
      /\ currentStage = s /\ s # NoStage
  BY RecordingAlone DEF Recorded
<1>2. /\ artifact' = [artifact EXCEPT ![s] = attempt[s]]
      /\ verdict' = [verdict EXCEPT ![s] = v]
      /\ UNCHANGED <<deps, inputHashes, approved, query, lease>>
  BY DEF Recorded, execVars
<1>3. StagesTyped /\ stageStatus \in [Stages -> StageStatuses]
      /\ artifact \in [Stages -> Nat] /\ DOMAIN verdict = Stages
  BY DEF TypeOK, StagesTyped
<1>4. \A q \in Stages \ {s} : artifact'[q] = artifact[q] /\ verdict'[q] = verdict[q]
  BY <1>2, <1>3
<1>5. x \notin Live /\ x # "approved"
  BY DEF Live
<1>6. InputsApproved'
  BY <1>1, <1>2, <1>3, <1>4, <1>5, InputsStep DEF Control
<1>7. ApprovalsExact'
  BY <1>1, <1>2, <1>3, <1>4, <1>5, ApprovalsStep DEF Control
<1>8. NoneRuns' /\ stageStatus'[s] = x
  BY <1>1, <1>3 DEF NoneRuns
<1>9. OneRunning'
  BY <1>8 DEF OneRunning, NoneRuns
<1>10. ResumeTarget' = x /\ Interrupted' = s
  BY DEF ResumeTarget, Interrupted
<1>11. Boundaries'
  BY <1>1, <1>2, <1>8, <1>10 DEF Boundaries, NoneRuns, NoGate
<1>12. QueryLeaseApproved'
  BY <1>2, <1>8, LeaseStep DEF Control
<1> QED BY <1>6, <1>7, <1>9, <1>11, <1>12 DEF Control

LEMMA ApproveStageKeepsControl ==
    ASSUME TypeOK, Control, NEW s \in Stages, ApproveStage(s)
    PROVE  Control'
<1>1. NoneRuns
  BY DEF ApproveStage, Control, Boundaries, ResumeTarget, NoneRuns, CanApproveStage
<1>2. /\ stageStatus[s] = "awaiting_user_confirmation"
      /\ stageStatus' = [stageStatus EXCEPT ![s] = "approved"]
      /\ approved' = approved \cup {Pair(s)} /\ artifact[s] # 0 /\ verdict[s] = "PASS"
      /\ UNCHANGED <<deps, artifact, verdict, inputHashes, query, lease>>
      /\ gate' = NoGate /\ currentStage' = NoStage /\ status' \in {"finalizing", "running"}
  BY ProceedType DEF ApproveStage, execVars, CanApproveStage
<1>3. StagesTyped /\ stageStatus \in [Stages -> StageStatuses]
  BY DEF TypeOK, StagesTyped
<1>4. InputsApproved'
  <2>1. \A d \in deps[s] : stageStatus[d] = "approved" /\ inputHashes'[s][d] = artifact[d]
    BY <1>2 DEF Control, InputsApproved, Live
  <2> QED BY <1>2, <1>3, <2>1, InputsStep DEF Control
<1>5. ApprovalsExact'
  <2>1. \A q \in Stages : stageStatus'[q] = "approved" <=> stageStatus[q] = "approved" \/ q = s
    BY <1>2, <1>3
  <2>2. \A q \in Stages : Pair(q)' = Pair(q)
    BY <1>2 DEF Pair
  <2>3. approved' = {Pair(q)' : q \in {t \in Stages : stageStatus'[t] = "approved"}}
    BY <1>2, <2>1, <2>2 DEF Control, ApprovalsExact
  <2>4. \A q \in Stages : stageStatus'[q] = "approved" => artifact'[q] # 0 /\ verdict'[q] = "PASS"
    BY <1>2, <2>1 DEF Control, ApprovalsExact
  <2> QED BY <2>3, <2>4 DEF ApprovalsExact
<1>6. NoneRuns'
  BY <1>1, <1>2, <1>3 DEF NoneRuns
<1>7. OneRunning' /\ Boundaries'
  BY <1>2, <1>6, IdleStep DEF NoGate
<1>8. QueryLeaseApproved'
  BY <1>2, <1>6, LeaseStep DEF Control
<1> QED BY <1>4, <1>5, <1>7, <1>8 DEF Control

LEMMA ApproveRollbackKeepsControl ==
    ASSUME TypeOK, Control, NEW t \in Stages, ApproveRollback(t)
    PROVE  Control'
<1>1. NoneRuns /\ query = NoQuery
  BY DEF ApproveRollback, Control, Boundaries, ResumeTarget, NoneRuns, CanApproveRollback
<1>2. InputsApproved' /\ ApprovalsExact' /\ NoneRuns'
  BY <1>1, SentBackStep DEF ApproveRollback, Control, TypeOK
<1>3. OneRunning' /\ Boundaries'
  BY <1>2, IdleStep DEF ApproveRollback, NoGate
<1>4. QueryLeaseApproved'
  BY <1>1, QueryClosed DEF ApproveRollback, QueryLeaseApproved
<1> QED BY <1>2, <1>3, <1>4 DEF Control

LEMMA ReviseKeepsControl ==
    ASSUME TypeOK, Control, NEW t \in Stages, Revise(t)
    PROVE  Control'
<1>1. NoneRuns
  BY DEF Revise, CanRevise, Control, Boundaries, ResumeTarget, NoneRuns
<1>2. InputsApproved' /\ ApprovalsExact' /\ NoneRuns'
  BY <1>1, SentBackStep DEF Revise, Control, TypeOK
<1>3. OneRunning' /\ Boundaries'
  BY <1>2, IdleStep DEF Revise, NoGate
<1>4. QueryLeaseApproved'
  BY NoLeaseStep DEF Revise
<1> QED BY <1>2, <1>3, <1>4 DEF Control

(* Commands that touch neither the stages nor the approvals.               *)
LEMMA StagesKeepControl ==
    ASSUME Control, UNCHANGED <<stageVars, approved>>
    PROVE  InputsApproved' /\ ApprovalsExact' /\ (NoneRuns => NoneRuns')
BY DEF Control, InputsApproved, ApprovalsExact, NoneRuns, Live, Pair, stageVars

LEMMA PrepareQueryKeepsControl ==
    ASSUME TypeOK, Control, PrepareQuery
    PROVE  Control'
<1>1. currentStage = NoStage /\ NoneRuns /\ query = NoQuery /\ gate.type # "rollback"
  BY NoCurrentNoneRuns DEF PrepareQuery, CanPrepareQuery, Control, Boundaries, ResumeTarget
<1>2. InputsApproved' /\ ApprovalsExact' /\ NoneRuns'
  BY <1>1, StagesKeepControl DEF PrepareQuery
<1>3. OneRunning' /\ Boundaries'
  BY <1>1, <1>2, IdleStep DEF PrepareQuery
<1>4. QueryLeaseApproved'
  BY <1>1, QueryClosed DEF PrepareQuery, execVars, QueryLeaseApproved
<1> QED BY <1>2, <1>3, <1>4 DEF Control

LEMMA ApproveQueryKeepsControl ==
    ASSUME TypeOK, Control, ApproveQuery
    PROVE  Control'
<1>1. query # NoQuery
  BY DEF ApproveQuery, NoQuery, CanApproveQuery
<1>2. currentStage = NoStage /\ NoneRuns /\ gate.type # "rollback"
  BY <1>1, QueryOpen
<1>3. InputsApproved' /\ ApprovalsExact' /\ NoneRuns'
  BY <1>2, StagesKeepControl DEF ApproveQuery
<1>4. OneRunning' /\ Boundaries'
  BY <1>2, <1>3, IdleStep DEF ApproveQuery
<1>5. QueryLeaseApproved'
  BY DEF ApproveQuery, execVars, Control, QueryLeaseApproved, CanApproveQuery
<1> QED BY <1>3, <1>4, <1>5 DEF Control

(* Builders change the lease and nothing the other invariants speak of.    *)
LEMMA LeaseKeepsControl ==
    ASSUME Control, UNCHANGED <<stageVars, runVars>>, QueryLeaseApproved'
    PROVE  Control'
<1>1. InputsApproved' /\ ApprovalsExact'
  BY StagesKeepControl DEF runVars
<1>2. OneRunning' /\ Boundaries'
  BY DEF Control, OneRunning, Boundaries, ResumeTarget, Interrupted, stageVars, runVars
<1> QED BY <1>1, <1>2 DEF Control

LEMMA BeginLeaseKeepsControl ==
    ASSUME TypeOK, Control, NEW ended \in BOOLEAN, NEW staged \in BOOLEAN,
           BeginLease(ended, staged)
    PROVE  Control'
<1>1. lease'.work = snapshot /\ UNCHANGED <<stageVars, runVars>>
      /\ (snapshot.kind = "query" => query.phase = "approved" /\ query.rev = snapshot.rev)
  BY DEF BeginLease, QueryStillApproved
<1>2. query.phase = "approved" => NoneRuns
  BY QueryOpen DEF NoQuery
<1>3. QueryLeaseApproved'
  BY <1>1, <1>2 DEF QueryLeaseApproved, NoneRuns, stageVars, runVars
<1> QED BY <1>1, <1>3, LeaseKeepsControl

LEMMA PublishCrashKeepsControl ==
    ASSUME TypeOK, Control, NEW moved \in BOOLEAN, PublishCrash(moved)
    PROVE  Control'
<1>1. lease'.work = lease.work /\ lease.phase # "none" /\ UNCHANGED <<stageVars, runVars>>
  BY DEF PublishCrash, LeaseValid, TypeOK, LeaseTyped
<1>2. QueryLeaseApproved'
  BY <1>1 DEF Control, QueryLeaseApproved, stageVars, runVars
<1> QED BY <1>1, <1>2, LeaseKeepsControl

(* A published query result closes the query it belongs to.                *)
LEMMA QueryDoneKeepsControl ==
    ASSUME TypeOK, Control, lease.phase # "none", lease.work.kind = "query",
           status' = "running", query' = NoQuery, lease' = NoLease,
           UNCHANGED <<stageVars, approved, currentStage, gate>>
    PROVE  Control'
<1>1. NoneRuns /\ currentStage = NoStage /\ gate.type # "rollback"
  BY LeaseOfQuery
<1>2. InputsApproved' /\ ApprovalsExact' /\ NoneRuns'
  BY <1>1, StagesKeepControl
<1>3. OneRunning' /\ Boundaries'
  BY <1>1, <1>2, IdleStep
<1> QED BY <1>2, <1>3, NoLeaseStep DEF Control

LEMMA RecoverExecutionsKeepsControl ==
    ASSUME TypeOK, Control, NEW breaks \in BOOLEAN, NEW warns \in BOOLEAN,
           RecoverExecutions(breaks, warns)
    PROVE  Control'
<1>1. lease' = NoLease /\ UNCHANGED stageVars
  BY DEF RecoverExecutions
<1>2. CASE UNCHANGED runVars
  BY <1>1, <1>2, NoLeaseStep, LeaseKeepsControl
<1>3. CASE ~ UNCHANGED runVars
  <2>1. /\ lease.phase = "publishing" /\ lease.work.kind = "query" /\ status' = "running"
        /\ query' = IF query.rev = lease.work.rev THEN NoQuery ELSE query
        /\ UNCHANGED <<approved, currentStage, gate>>
    BY <1>3 DEF RecoverExecutions, runVars
  <2>2. query' = NoQuery
    BY <2>1, LeaseOfQuery
  <2> QED BY <1>1, <2>1, <2>2, QueryDoneKeepsControl
<1> QED BY <1>2, <1>3

LEMMA StopKeepsControl ==
    ASSUME TypeOK, Control, Stop
    PROVE  Control'
<1>1. InputsApproved' /\ ApprovalsExact'
  BY StagesKeepControl DEF Stop
<1>2. OneRunning'
  BY DEF Stop, stageVars, Control, OneRunning
<1>3. ResumeTarget' = status
  BY DEF Stop, ResumeTarget
<1>4. Boundaries'
  <2>1. CASE status = "stopped"
    BY <1>3, <2>1 DEF Stop, stageVars, Control, Boundaries
  <2>2. CASE status # "stopped"
    <3>1. ResumeTarget' = ResumeTarget /\ Interrupted' = Interrupted
      BY <1>3, <2>2 DEF ResumeTarget, Interrupted, Stop
    <3> QED BY <3>1 DEF Stop, stageVars, Control, Boundaries
  <2> QED BY <2>1, <2>2
<1>5. QueryLeaseApproved'
  BY NoLeaseStep DEF Stop
<1> QED BY <1>1, <1>2, <1>4, <1>5 DEF Control

LEMMA ResumeKeepsControl ==
    ASSUME TypeOK, Control, Resume
    PROVE  Control'
<1>1. /\ UNCHANGED <<deps, artifact, verdict, inputHashes, approved, gate, query>>
      /\ lease' = NoLease /\ resumeStatus' = "none" /\ ResumeTarget # "none"
  BY DEF Resume, CanResume
<1>2. StagesTyped /\ stageStatus \in [Stages -> StageStatuses]
  BY DEF TypeOK, StagesTyped
<1>3. CASE GivesUp
  <2>1. /\ stageStatus' = [stageStatus EXCEPT ![Interrupted] = "revising"]
        /\ currentStage' = NoStage /\ status' = "revising"
    BY <1>3 DEF Resume, ResumedStatus, CanResume
  <2>2. Interrupted \in Stages
    BY <1>3 DEF GivesUp, Interrupted, TypeOK, RunTyped
  <2>3. stageStatus[Interrupted] \in {"running", "failed", "blocked"}
    BY <1>3 DEF GivesUp, Control, Boundaries
  <2>4. gate.type # "rollback"
    BY <1>3 DEF GivesUp, Control, Boundaries
  <2>5. NoneRuns'
    <3>1. \A q \in Stages : stageStatus[q] = "running" => q = Interrupted
      BY StagesAreNat DEF Control, OneRunning, Interrupted
    <3> QED BY <1>2, <2>1, <2>2, <3>1 DEF NoneRuns
  <2>6. InputsApproved'
    BY <1>1, <1>2, <2>1, <2>2, <2>3, InputsStep DEF Control, Live
  <2>7. ApprovalsExact'
    BY <1>1, <1>2, <2>1, <2>2, <2>3, ApprovalsStep DEF Control
  <2>8. OneRunning' /\ Boundaries'
    BY <1>1, <2>1, <2>4, <2>5, IdleStep
  <2> QED BY <1>1, <2>6, <2>7, <2>8, NoLeaseStep DEF Control
<1>4. CASE ~ GivesUp
  <2>1. UNCHANGED <<stageStatus, currentStage, pendingStage>>
    BY <1>4 DEF Resume
  <2>2. Interrupted' = Interrupted
    BY <2>1 DEF Interrupted
  <2>3. status' = IF Interrupted # NoStage /\ ResumeTarget = "blocked" THEN "failed"
                  ELSE IF ResumeTarget = "initialized" THEN "awaiting_route_confirmation"
                  ELSE ResumeTarget
    BY <1>4 DEF Resume, ResumedStatus, CanResume
  <2>4. InputsApproved' /\ ApprovalsExact'
    BY <1>1, <2>1 DEF Control, InputsApproved, ApprovalsExact, Live, Pair
  <2>5. OneRunning'
    BY <1>1, <2>1 DEF Control, OneRunning
  <2>6. Boundaries'
    <3>1. ResumeTarget' = IF status' = "stopped" THEN "none" ELSE status'
      BY <1>1 DEF ResumeTarget
    <3> HIDE DEF ResumeTarget, Interrupted
    <3>2. CASE ResumeTarget = "stopped"
      BY <1>1, <2>1, <2>3, <3>1, <3>2 DEF Control, Boundaries
    <3>3. CASE ResumeTarget = "blocked" /\ Interrupted # NoStage
      BY <1>1, <2>1, <2>2, <2>3, <3>1, <3>3 DEF Control, Boundaries
    <3>4. CASE ResumeTarget = "initialized"
      BY <1>1, <2>1, <2>2, <2>3, <3>1, <3>4 DEF Control, Boundaries
    <3>5. CASE ResumeTarget' = ResumeTarget
      BY <1>1, <2>1, <2>2, <3>5 DEF Control, Boundaries
    <3> QED BY <2>3, <3>1, <3>2, <3>3, <3>4, <3>5
  <2> QED BY <1>1, <2>4, <2>5, <2>6, NoLeaseStep DEF Control
<1> QED BY <1>3, <1>4

LEMMA FinalizeKeepsControl ==
    ASSUME TypeOK, Control, Finalize
    PROVE  Control'
<1>1. InputsApproved' /\ ApprovalsExact' /\ (NoneRuns => NoneRuns')
  BY StagesKeepControl DEF Finalize
<1>2. NoneRuns /\ gate.type # "rollback"
  BY DEF Finalize, CanFinalize, Control, Boundaries, ResumeTarget, NoneRuns
<1>3. OneRunning'
  BY <1>1, <1>2 DEF OneRunning, NoneRuns
<1>4. ResumeTarget' = "completed"
  BY DEF Finalize, ResumeTarget
<1>5. Boundaries'
  BY <1>1, <1>2, <1>4 DEF Finalize, Control, Boundaries, NoneRuns
<1>6. QueryLeaseApproved'
  BY <1>1, <1>2, LeaseStep DEF Finalize, execVars, Control
<1> QED BY <1>1, <1>3, <1>5, <1>6 DEF Control

LEMMA ControlStep == TypeOK /\ Control /\ [Next]_vars => Control'
<1> SUFFICES ASSUME TypeOK, Control, [Next]_vars PROVE Control'
  OBVIOUS
<1>1. CASE RouteSteps
  <2>1. ASSUME NEW r \in Routes, NEW reuse \in SUBSET Stages, SetRoute(r, reuse) PROVE Control'
    BY <2>1, SetRouteKeepsControl
  <2>2. ASSUME NEW r \in Routes, NEW reuse \in SUBSET Stages, SetRouteCrash(r, reuse) PROVE Control'
    BY <2>2, ControlKept DEF SetRouteCrash, stageVars, execVars
  <2> QED BY <1>1, <2>1, <2>2, ApproveRouteKeepsControl DEF RouteSteps
<1>2. CASE StageSteps
  <2> SUFFICES ASSUME NEW s \in Stages,
                      \/ \E bundled \in BOOLEAN : StartStage(s, bundled)
                      \/ StartStageCrash(s)
                      \/ RecordStageInvalid(s)
                      \/ \E c \in Content :
                           \/ RecordStagePass(s, c)
                           \/ RecordStageBlocked(s, c)
                           \/ \E t \in Stages : RecordStageFail(s, c, t)
                      \/ \E t \in Stages : RecordStageCrash(s, t)
                      \/ ApproveStage(s) \/ ApproveRollback(s) \/ Revise(s)
               PROVE  Control'
    BY <1>2, ContentOfOutput DEF StageSteps
  <2>1. ASSUME StartStageCrash(s) PROVE Control'
    BY <2>1, ControlKept DEF StartStageCrash, stageVars, execVars
  <2>2. ASSUME NEW c \in Content, RecordStageBlocked(s, c) PROVE Control'
    BY <2>2, GivenBackKeepsControl DEF RecordStageBlocked
  <2>3. ASSUME NEW c \in Content, NEW t \in Stages, RecordStageFail(s, c, t) PROVE Control'
    BY <2>3, GivenBackKeepsControl DEF RecordStageFail
  <2>4. ASSUME NEW t \in Stages, RecordStageCrash(s, t) PROVE Control'
    BY <2>4, ControlKept DEF RecordStageCrash, stageVars, execVars
  <2> QED BY <2>1, <2>2, <2>3, <2>4, StartStageKeepsControl, RecordInvalidKeepsControl,
             RecordPassKeepsControl, ApproveStageKeepsControl, ApproveRollbackKeepsControl,
             ReviseKeepsControl
<1>3. CASE RecordReceipt
  BY <1>3, ControlKept DEF RecordReceipt, execVars
<1>4. CASE QuerySteps
  <2>1. ASSUME PrepareQueryCrash PROVE Control'
    BY <2>1, ControlKept DEF PrepareQueryCrash, stageVars, execVars
  <2> QED BY <1>4, <2>1, PrepareQueryKeepsControl, ApproveQueryKeepsControl DEF QuerySteps
<1>5. CASE LeaseSteps
  <2>1. ASSUME Read \/ DropSnapshot PROVE Control'
    BY <2>1, ControlKept DEF Read, DropSnapshot, stageVars
  <2>2. ASSUME AbortLease PROVE Control'
    BY <2>2, LeaseKeepsControl, NoLeaseStep DEF AbortLease
  <2>3. ASSUME NEW ended \in BOOLEAN, NEW staged \in BOOLEAN, BeginLease(ended, staged) PROVE Control'
    BY <2>3, BeginLeaseKeepsControl
  <2>4. ASSUME NEW warns \in BOOLEAN, PublishQuery(warns) PROVE Control'
    BY <2>4, QueryDoneKeepsControl DEF PublishQuery, LeaseValid
  <2>5. ASSUME PublishReport PROVE Control'
    BY <2>5, LeaseKeepsControl, NoLeaseStep DEF PublishReport
  <2>6. ASSUME NEW breaks \in BOOLEAN, PublishLineage(breaks) PROVE Control'
    BY <2>6, LeaseKeepsControl, NoLeaseStep DEF PublishLineage
  <2>7. ASSUME NEW breaks \in BOOLEAN, NEW warns \in BOOLEAN,
           RecoverExecutions(breaks, warns) PROVE Control'
    BY <2>7, RecoverExecutionsKeepsControl
  <2>8. ASSUME NEW moved \in BOOLEAN, PublishCrash(moved) PROVE Control'
    BY <2>8, PublishCrashKeepsControl
  <2> QED BY <1>5, <2>1, <2>2, <2>3, <2>4, <2>5, <2>6, <2>7, <2>8 DEF LeaseSteps
<1>6. CASE Stop \/ Resume \/ Finalize
  BY <1>6, StopKeepsControl, ResumeKeepsControl, FinalizeKeepsControl
<1>7. CASE \E X \in AgentUpdates : UpdateAgents(X)
  BY <1>7, ControlKept DEF UpdateAgents, stageVars, execVars
<1>8. CASE UNCHANGED vars
  BY <1>8, ControlKept DEF vars, stageVars, execVars
<1> QED BY <1>1, <1>2, <1>3, <1>4, <1>5, <1>6, <1>7, <1>8 DEF Next

-----------------------------------------------------------------------------
(* Theorems of the specification.                                          *)

(* Every variable of a run holds a value of the kind announced for it.     *)
THEOREM TypeCorrect == Spec => []TypeOK
<1>1. Init => TypeOK
  BY TypeInit
<1>2. TypeOK /\ [Next]_vars => TypeOK'
  BY TypeStep
<1> QED BY <1>1, <1>2, PTL DEF Spec

LEMMA ControlAlways == Spec => []Control
<1>1. Init => Control
  BY ControlInit
<1>2. TypeOK /\ Control /\ [Next]_vars => Control'
  BY ControlStep
<1> QED BY <1>1, <1>2, TypeCorrect, PTL DEF Spec

(* A stage that runs, awaits the user or is approved always stands on      *)
(* approved dependencies whose artifacts are the ones it was given.        *)
THEOREM InputsAlwaysApproved == Spec => []InputsApproved
<1>1. Control => InputsApproved
  BY DEF Control
<1> QED BY <1>1, ControlAlways, PTL

(* The recorded approvals are always those of the approved stages' current *)
(* passing artifacts: no revision, rollback or route loses one or keeps    *)
(* one too many.                                                           *)
THEOREM ApprovalsAlwaysExact == Spec => []ApprovalsExact
<1>1. Control => ApprovalsExact
  BY DEF Control
<1> QED BY <1>1, ControlAlways, PTL

(* Two roles never run at once, and none runs beside an open gate or       *)
(* query.                                                                  *)
THEOREM OneRunsAtATime == Spec => []OneRunning
<1>1. Control => OneRunning
  BY DEF Control
<1> QED BY <1>1, ControlAlways, PTL

(* The boundary at which a run stands, or to which it would be resumed,    *)
(* always agrees with its stages, its gate and its query.                  *)
THEOREM BoundariesAgree == Spec => []Boundaries
<1>1. Control => Boundaries
  BY DEF Control
<1> QED BY <1>1, ControlAlways, PTL

(* A query executes only under its own, current approval, and while it     *)
(* does no agent runs.                                                     *)
THEOREM QueriesAreApproved == Spec => []QueryLeaseApproved
<1>1. Control => QueryLeaseApproved
  BY DEF Control
<1> QED BY <1>1, ControlAlways, PTL

(* A stage becomes approved only by the user's confirmation of the         *)
(* artifact the gate shows.                                                *)
THEOREM OnlyTheUserApproves == Spec => ApprovedByUser
<1> DEFINE Fresh(s) == stageStatus'[s] = "approved" /\ stageStatus[s] # "approved"
           Confirmed == \A s \in Stages : Fresh(s) =>
                           /\ gate = [type |-> "stage", stage |-> s, rev |-> artifact[s]]
                           /\ Pair(s)' = Pair(s)
<1>1. ASSUME TypeOK, [Next]_vars PROVE Confirmed
  <2>1. stageStatus \in [Stages -> StageStatuses]
    BY <1>1 DEF TypeOK, StagesTyped
  <2>2. ASSUME UNCHANGED stageStatus PROVE Confirmed
    BY <2>2
  <2>3. ASSUME NEW t \in Stages, stageStatus' = SentBack(t) PROVE Confirmed
    BY <2>3 DEF SentBack
  <2>4. ASSUME NEW t, NEW x, x # "approved", stageStatus' = [stageStatus EXCEPT ![t] = x]
        PROVE  Confirmed
    BY <2>1, <2>4
  <2>5. ASSUME NEW r \in Routes, NEW reuse \in SUBSET Stages, SetRoute(r, reuse) PROVE Confirmed
    BY <2>5, ConstantsOK DEF ConstantsOK, RoutePlan, SetRoute, CanSetRoute, CanReuse
  <2>6. ASSUME NEW r \in Routes, NEW reuse \in SUBSET Stages, SetRouteCrash(r, reuse) PROVE Confirmed
    BY <2>2, <2>6 DEF SetRouteCrash, stageVars
  <2>7. ASSUME RouteSteps PROVE Confirmed
    <3>1. ASSUME ApproveRoute PROVE Confirmed
      BY <2>2, <3>1 DEF ApproveRoute, stageVars
    <3> HIDE DEF Confirmed
    <3> QED BY <2>5, <2>6, <2>7, <3>1 DEF RouteSteps
  <2>8. ASSUME NEW s \in Stages, ApproveStage(s) PROVE Confirmed
    BY <2>1, <2>8 DEF ApproveStage, Pair, CanApproveStage
  <2>9. ASSUME StageSteps PROVE Confirmed
    <3>1. ASSUME NEW s \in Stages, NEW bundled \in BOOLEAN, StartStage(s, bundled) PROVE Confirmed
      BY <2>4, <3>1 DEF StartStage
    <3>2. ASSUME NEW s \in Stages, StartStageCrash(s) PROVE Confirmed
      BY <2>2, <3>2 DEF StartStageCrash, stageVars
    <3>3. ASSUME NEW s \in Stages, RecordStageInvalid(s) PROVE Confirmed
      BY <2>4, <3>3 DEF RecordStageInvalid
    <3>4. ASSUME NEW s \in Stages, NEW c \in Content, RecordStagePass(s, c) PROVE Confirmed
      BY <2>4, <3>4 DEF RecordStagePass
    <3>5. ASSUME NEW s \in Stages, NEW c \in Content, RecordStageBlocked(s, c) PROVE Confirmed
      BY <2>4, <3>5 DEF RecordStageBlocked
    <3>6. ASSUME NEW s \in Stages, NEW c \in Content, NEW t \in Stages,
                 RecordStageFail(s, c, t)
          PROVE  Confirmed
      BY <2>4, <3>6 DEF RecordStageFail
    <3>7. ASSUME NEW s \in Stages, NEW t \in Stages, RecordStageCrash(s, t) PROVE Confirmed
      BY <2>2, <3>7 DEF RecordStageCrash, stageVars
    <3>8. ASSUME NEW s \in Stages, ApproveRollback(s) \/ Revise(s) PROVE Confirmed
      BY <2>3, <3>8 DEF ApproveRollback, Revise
    <3> HIDE DEF Confirmed
    <3> QED BY <2>8, <2>9, <3>1, <3>2, <3>3, <3>4, <3>5, <3>6, <3>7, <3>8, ContentOfOutput
            DEF StageSteps
  <2>10. ASSUME Resume PROVE Confirmed
    <3>1. CASE GivesUp
      BY <2>4, <2>10, <3>1 DEF Resume
    <3>2. CASE ~ GivesUp
      BY <2>2, <2>10, <3>2 DEF Resume
    <3> QED BY <3>1, <3>2
  <2>11. ASSUME \/ RecordReceipt \/ QuerySteps \/ LeaseSteps \/ Stop \/ Finalize
                \/ \E X \in AgentUpdates : UpdateAgents(X)
                \/ UNCHANGED vars
         PROVE  Confirmed
    <3>1. UNCHANGED stageStatus
      BY <2>11 DEF RecordReceipt, QuerySteps, PrepareQuery, PrepareQueryCrash, ApproveQuery,
         LeaseSteps, Read, DropSnapshot, AbortLease, BeginLease, PublishQuery, PublishReport,
         PublishLineage, RecoverExecutions, PublishCrash, Stop, Finalize, UpdateAgents, vars,
         stageVars
    <3> QED BY <2>2, <3>1
  <2> HIDE DEF Confirmed
  <2> QED BY <1>1, <2>7, <2>9, <2>10, <2>11 DEF Next
<1>2. TypeOK /\ [Next]_vars => [Confirmed]_vars
  BY <1>1
<1> QED BY <1>2, TypeCorrect, PTL DEF Spec, ApprovedByUser

-----------------------------------------------------------------------------
(* Query results are those of SQL work that is still approved.             *)
(*                                                                         *)
(* The SQL artifacts travel from the request through the snapshot of the   *)
(* runner and its lease into the result; QueryBound follows them, and a    *)
(* request number that is never used twice keeps an old snapshot from      *)
(* taking a lease for a newer request.                                     *)

ApprovedSql(P) == P \subseteq {p \in approved : Role[p[1]] = "sql"}

ResultsBound == \A r \in results.query : ApprovedSql(r.pairs)

RequestBound ==
    /\ ApprovedSql(query.sql)
    /\ query # NoQuery => query.rev <= queryRev

SnapshotBound ==
    snapshot.kind = "query" =>
        /\ snapshot.rev <= queryRev
        /\ query # NoQuery /\ query.rev = snapshot.rev => snapshot.pairs = query.sql

LeaseBound == lease.phase # "none" /\ lease.work.kind = "query" => lease.work.pairs = query.sql

QueryBound == ResultsBound /\ RequestBound /\ SnapshotBound /\ LeaseBound

LEMMA QueryBoundInit == Init => QueryBound
BY DEF Init, QueryBound, ResultsBound, RequestBound, SnapshotBound, LeaseBound, ApprovedSql,
   NoResults, NoQuery, NoWork, NoLease

(* Commands that leave the request alone, grant approvals or none, and at  *)
(* most end a lease or forget a snapshot.                                  *)
LEMMA QueryBoundKept ==
    ASSUME QueryBound, approved \subseteq approved', results'.query = results.query,
           UNCHANGED <<query, queryRev>>,
           snapshot' \in {snapshot, NoWork}, lease' \in {lease, NoLease}
    PROVE  QueryBound'
<1>1. ResultsBound' /\ RequestBound'
  BY DEF QueryBound, ResultsBound, RequestBound, ApprovedSql
<1>2. SnapshotBound' /\ LeaseBound'
  BY DEF QueryBound, SnapshotBound, LeaseBound, NoWork, NoLease
<1> QED BY <1>1, <1>2 DEF QueryBound

(* When approvals of affected stages are withdrawn, either no SQL stage is *)
(* among them or the query results go too; the open request always goes.   *)
LEMMA QueryBoundWithdrawn ==
    ASSUME TypeOK, Control, QueryBound, NEW affected \in SUBSET Stages,
           results' = Without(affected),
           \A p \in approved : p[1] \notin affected => p \in approved',
           query' = NoQuery, UNCHANGED <<queryRev, snapshot>>,
           lease' \in {lease, NoLease}, lease' = NoLease \/ query = NoQuery
    PROVE  QueryBound'
<1>1. ResultsBound'
  <2>1. CASE \E s \in affected : Role[s] = "sql"
    <3>1. results'.query = {}
      BY <2>1 DEF Without, TypeOK, ResultsTyped
    <3> QED BY <3>1 DEF ResultsBound
  <2>2. CASE \A s \in affected : Role[s] # "sql"
    <3>1. results'.query \subseteq results.query
      BY DEF Without, TypeOK, ResultsTyped
    <3>2. \A p \in approved : Role[p[1]] = "sql" => p \in approved'
      BY <2>2
    <3> QED BY <3>1, <3>2 DEF QueryBound, ResultsBound, ApprovedSql
  <2> QED BY <2>1, <2>2
<1>2. RequestBound' /\ SnapshotBound'
  BY DEF QueryBound, RequestBound, SnapshotBound, ApprovedSql, NoQuery
<1>3. LeaseBound'
  BY QueryClosed DEF LeaseBound, NoLease
<1> QED BY <1>1, <1>2, <1>3 DEF QueryBound

LEMMA SetRouteKeepsQueryBound ==
    ASSUME TypeOK, Control, QueryBound, NEW r \in Routes, NEW reuse \in SUBSET Stages,
           SetRoute(r, reuse)
    PROVE  QueryBound'
<1>1. \A p \in approved : p[1] \in InRoute
  BY DEF Control, ApprovalsExact, InRoute, Pair
<1>2. \A p \in approved : p[1] \notin InRoute \ reuse => p \in approved'
  BY <1>1 DEF SetRoute
<1>3. results' = (IF InRoute \ reuse = {} THEN results ELSE Without(InRoute \ reuse))
      /\ query' = NoQuery /\ UNCHANGED <<queryRev, snapshot>> /\ lease' = NoLease
  BY DEF SetRoute
<1>4. CASE InRoute \ reuse # {}
  <2>1. InRoute \ reuse \in SUBSET Stages
    BY DEF InRoute
  <2>2. results' = Without(InRoute \ reuse)
    BY <1>3, <1>4
  <2> QED BY <1>2, <1>3, <2>1, <2>2, QueryBoundWithdrawn
<1>5. CASE InRoute \ reuse = {}
  <2>1. ResultsBound'
    BY <1>2, <1>3, <1>5 DEF QueryBound, ResultsBound, ApprovedSql
  <2>2. RequestBound' /\ SnapshotBound' /\ LeaseBound'
    BY <1>3 DEF QueryBound, RequestBound, SnapshotBound, LeaseBound, ApprovedSql, NoQuery, NoLease
  <2> QED BY <2>1, <2>2 DEF QueryBound
<1> QED BY <1>4, <1>5

LEMMA SentBackKeepsQueryBound ==
    ASSUME TypeOK, Control, QueryBound, NEW t \in Stages, ApproveRollback(t) \/ Revise(t)
    PROVE  QueryBound'
<1>1. Descendants(t) \in SUBSET Stages
  BY DEF Descendants, DescendantsIn
<1>2. /\ results' = Without(Descendants(t)) /\ approved' = ApprovalsWithout(Descendants(t))
      /\ query' = NoQuery /\ UNCHANGED <<queryRev, snapshot>> /\ lease' \in {lease, NoLease}
  BY DEF ApproveRollback, Revise
<1>3. lease' = NoLease \/ query = NoQuery
  BY DEF ApproveRollback, Revise, Control, Boundaries, CanApproveRollback
<1> QED BY <1>1, <1>2, <1>3, QueryBoundWithdrawn DEF ApprovalsWithout

LEMMA PrepareQueryKeepsQueryBound ==
    ASSUME TypeOK, Control, QueryBound, PrepareQuery
    PROVE  QueryBound'
<1>1. /\ query = NoQuery /\ queryRev' = queryRev + 1 /\ queryRev \in Nat
      /\ query' = [phase |-> "prepared", rev |-> queryRev + 1,
                   sql |-> {Pair(s) : s \in ApprovedOf("sql")}]
      /\ UNCHANGED <<approved, results, snapshot, lease>>
  BY DEF PrepareQuery, CanPrepareQuery, execVars, TypeOK, RunTyped
<1>2. {Pair(s) : s \in ApprovedOf("sql")} \subseteq {p \in approved : Role[p[1]] = "sql"}
  BY DEF Control, ApprovalsExact, ApprovedOf, Pair
<1>3. RequestBound' /\ ResultsBound'
  BY <1>1, <1>2 DEF QueryBound, RequestBound, ResultsBound, ApprovedSql
<1>4. SnapshotBound'
  <2>1. snapshot.rev \in Nat
    BY DEF TypeOK, LeaseTyped, Works
  <2> QED BY <1>1, <2>1 DEF QueryBound, SnapshotBound
<1>5. LeaseBound'
  BY <1>1, QueryClosed DEF LeaseBound
<1> QED BY <1>3, <1>4, <1>5 DEF QueryBound

LEMMA ApproveQueryKeepsQueryBound ==
    ASSUME TypeOK, Control, QueryBound, ApproveQuery
    PROVE  QueryBound'
<1>1. query # NoQuery /\ query'.sql = query.sql /\ query'.rev = query.rev
      /\ UNCHANGED <<approved, queryRev, results, snapshot, lease>>
  BY DEF ApproveQuery, execVars, NoQuery, TypeOK, RunTyped, CanApproveQuery
<1> QED BY <1>1 DEF QueryBound, RequestBound, ResultsBound, SnapshotBound, LeaseBound, ApprovedSql

LEMMA ReadKeepsQueryBound ==
    ASSUME TypeOK, QueryBound, Read
    PROVE  QueryBound'
<1>1. UNCHANGED <<approved, query, queryRev, results, lease>>
  BY DEF Read, runVars
<1>2. SnapshotBound'
  <2>1. CASE ReadForQuery
    <3>1. query # NoQuery /\ snapshot'.rev = query.rev /\ snapshot'.pairs = query.sql
      BY <2>1 DEF ReadForQuery, NoQuery, NoWork
    <3> QED BY <1>1, <3>1 DEF QueryBound, RequestBound, SnapshotBound
  <2>2. CASE ReadForLineage \/ ReadForReport
    BY <2>2 DEF ReadForLineage, ReadForReport, NoWork, SnapshotBound
  <2> QED BY <2>1, <2>2 DEF Read
<1>3. ResultsBound' /\ RequestBound' /\ LeaseBound'
  BY <1>1 DEF QueryBound, ResultsBound, RequestBound, LeaseBound, ApprovedSql
<1> QED BY <1>2, <1>3 DEF QueryBound

LEMMA BeginLeaseKeepsQueryBound ==
    ASSUME QueryBound, NEW ended \in BOOLEAN, NEW staged \in BOOLEAN, BeginLease(ended, staged)
    PROVE  QueryBound'
<1>1. /\ UNCHANGED <<approved, query, queryRev, results>>
      /\ lease'.work = snapshot /\ snapshot' = NoWork /\ QueryStillApproved(snapshot)
  BY DEF BeginLease, runVars
<1>2. LeaseBound'
  BY <1>1 DEF QueryBound, SnapshotBound, LeaseBound, QueryStillApproved, NoQuery
<1>3. ResultsBound' /\ RequestBound' /\ SnapshotBound'
  BY <1>1 DEF QueryBound, ResultsBound, RequestBound, SnapshotBound, ApprovedSql, NoWork
<1> QED BY <1>2, <1>3 DEF QueryBound

(* A published or recovered result carries the SQL of the open request.    *)
LEMMA QueryDoneKeepsQueryBound ==
    ASSUME Control, QueryBound, lease.phase # "none", lease.work.kind = "query",
           NEW warns \in BOOLEAN, results'.query = results.query \cup {QueryRecord(warns)},
           query' = NoQuery, lease' = NoLease, UNCHANGED <<approved, queryRev, snapshot>>
    PROVE  QueryBound'
<1>1. QueryRecord(warns).pairs = query.sql
  BY DEF QueryBound, LeaseBound, QueryRecord
<1>2. ResultsBound'
  BY <1>1 DEF QueryBound, ResultsBound, RequestBound, ApprovedSql
<1>3. RequestBound' /\ SnapshotBound' /\ LeaseBound'
  BY DEF QueryBound, RequestBound, SnapshotBound, LeaseBound, ApprovedSql, NoQuery, NoLease
<1> QED BY <1>2, <1>3 DEF QueryBound

LEMMA RecoverExecutionsKeepsQueryBound ==
    ASSUME TypeOK, Control, QueryBound, NEW breaks \in BOOLEAN, NEW warns \in BOOLEAN,
           RecoverExecutions(breaks, warns)
    PROVE  QueryBound'
<1>1. lease' = NoLease /\ UNCHANGED snapshot
  BY DEF RecoverExecutions
<1>2. CASE ~(lease.phase = "publishing" /\ lease.moved) \/ lease.work.kind # "query"
  <2>1. results'.query = results.query /\ UNCHANGED <<approved, query, queryRev>>
    BY <1>2 DEF RecoverExecutions, runVars, TypeOK, ResultsTyped
  <2> QED BY <1>1, <2>1, QueryBoundKept
<1>3. CASE lease.phase = "publishing" /\ lease.moved /\ lease.work.kind = "query"
  <2>1. /\ results'.query = results.query \cup {QueryRecord(warns)}
        /\ query' = IF query.rev = lease.work.rev THEN NoQuery ELSE query
        /\ UNCHANGED <<approved, queryRev>>
    BY <1>3 DEF RecoverExecutions, TypeOK, ResultsTyped
  <2>2. query' = NoQuery
    BY <1>3, <2>1, LeaseOfQuery
  <2> QED BY <1>1, <1>3, <2>1, <2>2, QueryDoneKeepsQueryBound
<1> QED BY <1>2, <1>3

LEMMA PublishCrashKeepsQueryBound ==
    ASSUME TypeOK, QueryBound, NEW moved \in BOOLEAN, PublishCrash(moved)
    PROVE  QueryBound'
<1>1. lease'.work = lease.work /\ lease.phase # "none"
      /\ UNCHANGED <<approved, query, queryRev, results, snapshot>>
  BY DEF PublishCrash, LeaseValid, runVars, TypeOK, LeaseTyped
<1> QED BY <1>1 DEF QueryBound, RequestBound, ResultsBound, SnapshotBound, LeaseBound, ApprovedSql

LEMMA QueryBoundStep == TypeOK /\ Control /\ QueryBound /\ [Next]_vars => QueryBound'
<1> SUFFICES ASSUME TypeOK, Control, QueryBound, [Next]_vars PROVE QueryBound'
  OBVIOUS
<1>1. CASE RouteSteps
  <2>1. ASSUME NEW r \in Routes, NEW reuse \in SUBSET Stages, SetRouteCrash(r, reuse)
        PROVE  QueryBound'
    BY <2>1, QueryBoundKept DEF SetRouteCrash, runVars, execVars
  <2>2. ASSUME ApproveRoute PROVE QueryBound'
    BY <2>2, QueryBoundKept DEF ApproveRoute, execVars
  <2> QED BY <1>1, <2>1, <2>2, SetRouteKeepsQueryBound DEF RouteSteps
<1>2. CASE StageSteps
  <2>1. ASSUME NEW s \in Stages, ApproveStage(s) PROVE QueryBound'
    BY <2>1, QueryBoundKept DEF ApproveStage, execVars
  <2>2. ASSUME NEW s \in Stages,
               \/ \E bundled \in BOOLEAN : StartStage(s, bundled)
               \/ StartStageCrash(s) \/ RecordStageInvalid(s)
               \/ \E t \in Stages : RecordStageCrash(s, t)
        PROVE  QueryBound'
    BY <2>2, QueryBoundKept DEF StartStage, StartStageCrash, RecordStageInvalid, RecordStageCrash,
       runVars, execVars
  <2>3. ASSUME NEW s \in Stages, NEW c \in Content,
               \/ RecordStagePass(s, c) \/ RecordStageBlocked(s, c)
               \/ \E t \in Stages : RecordStageFail(s, c, t)
        PROVE  QueryBound'
    <3>1. UNCHANGED <<approved, query, queryRev, execVars>>
      BY <2>3 DEF RecordStagePass, RecordStageBlocked, RecordStageFail, Recorded
    <3> QED BY <3>1, QueryBoundKept DEF execVars
  <2> QED BY <1>2, <2>1, <2>2, <2>3, SentBackKeepsQueryBound, ContentOfOutput DEF StageSteps
<1>3. CASE RecordReceipt
  BY <1>3, QueryBoundKept DEF RecordReceipt, runVars, execVars
<1>4. CASE QuerySteps
  <2>1. ASSUME PrepareQueryCrash PROVE QueryBound'
    BY <2>1, QueryBoundKept DEF PrepareQueryCrash, runVars, execVars
  <2> QED BY <1>4, <2>1, PrepareQueryKeepsQueryBound, ApproveQueryKeepsQueryBound DEF QuerySteps
<1>5. CASE LeaseSteps
  <2>1. ASSUME DropSnapshot \/ AbortLease PROVE QueryBound'
    BY <2>1, QueryBoundKept DEF DropSnapshot, AbortLease, runVars
  <2>2. ASSUME PublishReport \/ \E breaks \in BOOLEAN : PublishLineage(breaks) PROVE QueryBound'
    <3>1. results'.query = results.query
      BY <2>2 DEF PublishReport, PublishLineage, TypeOK, ResultsTyped
    <3> QED BY <2>2, <3>1, QueryBoundKept DEF PublishReport, PublishLineage, runVars
  <2>3. ASSUME NEW warns \in BOOLEAN, PublishQuery(warns) PROVE QueryBound'
    <3>1. results'.query = results.query \cup {QueryRecord(warns)}
      BY <2>3 DEF PublishQuery, TypeOK, ResultsTyped
    <3> QED BY <2>3, <3>1, QueryDoneKeepsQueryBound DEF PublishQuery, LeaseValid
  <2>4. ASSUME NEW breaks \in BOOLEAN, NEW warns \in BOOLEAN,
           RecoverExecutions(breaks, warns) PROVE QueryBound'
    BY <2>4, RecoverExecutionsKeepsQueryBound
  <2> QED BY <1>5, <2>1, <2>2, <2>3, <2>4, ReadKeepsQueryBound, BeginLeaseKeepsQueryBound,
             PublishCrashKeepsQueryBound DEF LeaseSteps
<1>6. CASE Stop \/ Resume \/ Finalize
  BY <1>6, QueryBoundKept DEF Stop, Resume, Finalize, execVars
<1>7. CASE \E X \in AgentUpdates : UpdateAgents(X)
  BY <1>7, QueryBoundKept DEF UpdateAgents, runVars, execVars
<1>8. CASE UNCHANGED vars
  BY <1>8, QueryBoundKept DEF vars, runVars, execVars
<1> QED BY <1>1, <1>2, <1>3, <1>4, <1>5, <1>6, <1>7, <1>8 DEF Next

(* An active query result was computed from SQL work that is still         *)
(* approved, whatever was revised, rolled back, rerouted or recovered.     *)
THEOREM QueryResultsAlwaysCurrent == Spec => []QueryResultsCurrent
<1>1. Init => QueryBound
  BY QueryBoundInit
<1>2. TypeOK /\ Control /\ QueryBound /\ [Next]_vars => QueryBound'
  BY QueryBoundStep
<1>3. QueryBound => QueryResultsCurrent
  BY DEF QueryBound, ResultsBound, ApprovedSql, QueryResultsCurrent
<1> QED BY <1>1, <1>2, <1>3, TypeCorrect, ControlAlways, PTL DEF Spec

=============================================================================
