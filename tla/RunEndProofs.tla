---------------------------- MODULE RunEndProofs ----------------------------
(***************************************************************************)
(* Theorems about how a run of RunControl goes on and ends: the Review     *)
(* behind a Report, the consistency of a completed run, the final report   *)
(* of a finalizing one, and that a run never stands still unnoticed.       *)
(***************************************************************************)
EXTENDS RunControlProofs, FiniteSetTheorems

-----------------------------------------------------------------------------
(* Descendants and ancestors.                                              *)

LEMMA DescendsThrough ==
    ASSUME NEW g, NEW t \in Stages, NEW b \in DescendantsIn(g, t), NEW v \in DescendantsIn(g, b)
    PROVE  v \in DescendantsIn(g, t)
BY DEF DescendantsIn

LEMMA AncestorsAre ==
    ASSUME NEW v, NEW b
    PROVE  b \in Ancestors(v) <=> b \in Stages /\ b # v /\ v \in Descendants(b)
BY DEF Ancestors, AncestorsIn, Descendants

(* Everything a live stage descends from is approved.                      *)
LEMMA AncestorsApproved ==
    ASSUME StagesTyped, InputsApproved, NEW v \in Stages, stageStatus[v] \in Live,
           NEW a \in Ancestors(v)
    PROVE  a \in Stages /\ a # v /\ stageStatus[a] = "approved"
<1> DEFINE X == {a} \cup {s \in Stages : stageStatus[s] \notin Live}
<1>1. a \in Stages /\ a # v /\ v \in Descendants(a)
  BY AncestorsAre
<1>2. SUFFICES ASSUME stageStatus[a] # "approved" PROVE FALSE
  BY <1>1
<1>3. Closed(deps, X)
  <2> SUFFICES ASSUME NEW s \in Stages, NEW d \in deps[s], d \in X, stageStatus[s] \in Live
               PROVE  FALSE
    BY DEF Closed
  <2>1. stageStatus[d] = "approved"
    BY DEF InputsApproved
  <2> QED BY <1>2, <2>1 DEF Live
<1>4. v \in X
  BY <1>1, <1>3 DEF Descendants, DescendantsIn
<1> QED BY <1>1, <1>4

(* Two graphs that agree on a set of stages, which depend on each other    *)
(* only, give those stages the same ancestors.                             *)
LEMMA AncestorsShared ==
    ASSUME NEW g, NEW h, NEW R \in SUBSET Stages,
           \A s \in R : g[s] = h[s] /\ g[s] \subseteq R,
           NEW v \in R, NEW a \in AncestorsIn(g, v)
    PROVE  a \in R /\ a \in AncestorsIn(h, v)
<1>1. a \in Stages \ {v} /\ v \in DescendantsIn(g, a)
  BY DEF AncestorsIn
<1>2. a \in R
  <2> DEFINE X == Stages \ R
  <2>1. Closed(g, X)
    BY DEF Closed
  <2>2. SUFFICES ASSUME a \in X PROVE FALSE
    BY <1>1
  <2>3. v \in X
    BY <1>1, <2>1, <2>2 DEF DescendantsIn
  <2> QED BY <2>3
<1>3. v \in DescendantsIn(h, a)
  <2> SUFFICES ASSUME NEW X \in SUBSET Stages, a \in X, Closed(h, X) PROVE v \in X
    BY DEF DescendantsIn
  <2> DEFINE Y == X \cup (Stages \ R)
  <2>1. Closed(g, Y)
    BY DEF Closed
  <2>2. v \in Y
    BY <1>1, <2>1 DEF DescendantsIn
  <2> QED BY <2>2
<1> QED BY <1>1, <1>2, <1>3 DEF AncestorsIn

LEMMA ApprovedAncestorsKept ==
    ASSUME NEW v, Ancestors(v)' = Ancestors(v),
           \A b \in Ancestors(v) : stageStatus'[b] = stageStatus[b] /\ artifact'[b] = artifact[b]
    PROVE  ApprovedAncestors(v)' = ApprovedAncestors(v)
<1>1. {b \in Ancestors(v)' : stageStatus'[b] = "approved" /\ artifact'[b] # 0}
        = {b \in Ancestors(v) : stageStatus[b] = "approved" /\ artifact[b] # 0}
  OBVIOUS
<1>2. \A b \in Ancestors(v) : Pair(b)' = Pair(b)
  BY DEF Pair
<1> QED BY <1>1, <1>2 DEF ApprovedAncestors

LEMMA AncestorsOfDeps == ASSUME NEW v, deps' = deps PROVE Ancestors(v)' = Ancestors(v)
BY DEF Ancestors, AncestorsIn, DescendantsIn, Closed

-----------------------------------------------------------------------------
(* The Review behind a Report.                                             *)
(*                                                                         *)
(* ReportBehindReview is not inductive: that a Report has a passing Review *)
(* among its ancestors lasts because everything behind a live stage is     *)
(* approved, and that the newest bundle is that Review's because no two    *)
(* stages of a route have one role.                                        *)

OneOfARole ==
    /\ \A s, t \in InRoute : Role[s] = Role[t] => s = t
    /\ gate.type = "rollback" => gate.stage \in InRoute

Shown == {"awaiting_user_confirmation", "approved"}

BundledFor(v) ==
    bundle.stage = v /\ bundle.attempt = attempt[v] /\ bundle.inputs = ApprovedAncestors(v)

ReviewBundled ==
    \A v \in Stages : Role[v] = "review" /\ stageStatus[v] \in Shown => BundledFor(v)

ReportBacked ==
    \A s \in Stages : Role[s] = "report" /\ stageStatus[s] \in Live =>
        Ancestors(s) \cap PassingReviews # {}

ReviewRouted ==
    \A s \in Stages : Role[s] = "report" /\ stageStatus[s] # "absent" =>
        \E v \in Ancestors(s) : Role[v] = "review" /\ stageStatus[v] \notin {"absent", "skipped"}

ReviewInv == OneOfARole /\ ReviewBundled /\ ReportBacked /\ ReviewRouted

LEMMA PassingReviewsAre ==
    ASSUME NEW v
    PROVE  v \in PassingReviews <=> /\ v \in Stages /\ Role[v] = "review"
                                    /\ stageStatus[v] = "approved" /\ artifact[v] # 0
                                    /\ verdict[v] = "PASS" /\ Pair(v) \in approved
BY DEF PassingReviews, ApprovedOf

LEMMA ReviewInit == Init => ReviewInv
BY DEF Init, ReviewInv, OneOfARole, ReviewBundled, ReportBacked, ReviewRouted, InRoute, Shown,
   Live, NoGate

(* A step that leaves a live stage, what is behind it, and the bundle      *)
(* alone.                                                                  *)
LEMMA BundleStays ==
    ASSUME ReviewBundled, NEW v \in Stages, Role[v] = "review", stageStatus[v] \in Shown,
           Ancestors(v)' = Ancestors(v), bundle' = bundle, attempt'[v] = attempt[v],
           \A b \in Ancestors(v) : stageStatus'[b] = stageStatus[b] /\ artifact'[b] = artifact[b]
    PROVE  BundledFor(v)'
BY ApprovedAncestorsKept DEF ReviewBundled, BundledFor

LEMMA BackingStays ==
    ASSUME ReportBacked, NEW s \in Stages, Role[s] = "report", stageStatus[s] \in Live,
           Ancestors(s) \subseteq Ancestors(s)',
           \A b \in Ancestors(s) : stageStatus'[b] = stageStatus[b] /\ artifact'[b] = artifact[b]
                                   /\ verdict'[b] = verdict[b]
                                   /\ (Pair(b) \in approved => Pair(b) \in approved')
    PROVE  Ancestors(s)' \cap PassingReviews' # {}
<1>1. PICK v \in Ancestors(s) : v \in PassingReviews
  BY DEF ReportBacked
<1>2. Pair(v)' = Pair(v)
  BY DEF Pair
<1>3. v \in PassingReviews'
  BY <1>1, <1>2, PassingReviewsAre DEF PassingReviews, ApprovedOf
<1> QED BY <1>1, <1>3

(* A command that changes the status of one stage, and what it must leave  *)
(* alone or have checked.                                                  *)
OneStage(s, x) ==
    /\ stageStatus[s] \notin {"approved", "absent"} /\ x \notin {"absent", "skipped"}
    /\ stageStatus' = [stageStatus EXCEPT ![s] = x] /\ deps' = deps
    /\ \A q \in Stages \ {s} : /\ attempt'[q] = attempt[q]
                               /\ artifact'[q] = artifact[q] /\ verdict'[q] = verdict[q]
    /\ approved \subseteq approved'
    /\ bundle' = bundle \/ (Role[s] = "review" /\ x = "running")
    /\ Role[s] = "review" /\ x \in Shown => BundledFor(s) /\ attempt'[s] = attempt[s]
    /\ Role[s] = "report" /\ x \in Live =>
          \/ stageStatus[s] \in Live
          \/ Ancestors(s) \cap PassingReviews # {}
    /\ gate'.type = "rollback" => gate' = gate \/ gate'.stage \in InRoute

LEMMA OneStageKeeps ==
    ASSUME TypeOK, Control, ReviewInv, NEW s \in Stages, NEW x, OneStage(s, x)
    PROVE  ReviewInv'
<1>1. StagesTyped /\ InputsApproved /\ stageStatus \in [Stages -> StageStatuses]
  BY DEF TypeOK, StagesTyped, Control
<1>2. /\ stageStatus'[s] = x /\ \A q \in Stages \ {s} : stageStatus'[q] = stageStatus[q]
      /\ stageStatus[s] # "approved" /\ InRoute' = InRoute
  BY <1>1 DEF OneStage, InRoute
<1>3. \A q \in Stages : Ancestors(q)' = Ancestors(q)
  BY AncestorsOfDeps DEF OneStage
<1>4. OneOfARole'
  BY <1>2 DEF ReviewInv, OneOfARole, OneStage
<1>5. ASSUME NEW q \in Stages, stageStatus[q] \in Live
      PROVE  \A b \in Ancestors(q) : /\ b \in Stages /\ b # s /\ stageStatus'[b] = stageStatus[b]
                                     /\ artifact'[b] = artifact[b] /\ verdict'[b] = verdict[b]
  BY <1>1, <1>2, <1>5, AncestorsApproved DEF OneStage
<1>6. ReviewBundled'
  <2> SUFFICES ASSUME NEW v \in Stages, Role[v] = "review", stageStatus'[v] \in Shown
               PROVE  BundledFor(v)'
    BY DEF ReviewBundled, Shown
  <2>1. CASE v = s
    <3>1. bundle' = bundle /\ BundledFor(s) /\ attempt'[s] = attempt[s]
      BY <1>2, <2>1 DEF OneStage, Shown
    <3>2. \A b \in Ancestors(s) : b # s
      BY AncestorsAre
    <3>3. ApprovedAncestors(s)' = ApprovedAncestors(s)
      <4>1. \A b \in Ancestors(s) : b \in Stages \ {s}
        BY AncestorsAre
      <4> QED BY <1>2, <1>3, <4>1, ApprovedAncestorsKept DEF OneStage
    <3> QED BY <2>1, <3>1, <3>3 DEF BundledFor
  <2>2. CASE v # s
    <3>1. stageStatus[v] \in Shown /\ stageStatus[v] \in Live /\ v \in InRoute
      BY <1>2, <2>2 DEF Shown, Live, InRoute
    <3>2. Role[s] # "review"
      <4>1. s \in InRoute
        BY DEF OneStage, InRoute
      <4> QED BY <2>2, <3>1, <4>1 DEF ReviewInv, OneOfARole
    <3>3. bundle' = bundle /\ attempt'[v] = attempt[v]
      BY <2>2, <3>2 DEF OneStage
    <3> QED BY <1>3, <1>5, <3>1, <3>3, BundleStays DEF ReviewInv
  <2> QED BY <2>1, <2>2
<1>7. ReportBacked'
  <2> SUFFICES ASSUME NEW q \in Stages, Role[q] = "report", stageStatus'[q] \in Live
               PROVE  Ancestors(q)' \cap PassingReviews' # {}
    BY DEF ReportBacked, Live
  <2>1. CASE stageStatus[q] \in Live
    <3>1. approved \subseteq approved'
      BY DEF OneStage
    <3> QED BY <1>3, <1>5, <2>1, <3>1, BackingStays DEF ReviewInv
  <2>2. CASE stageStatus[q] \notin Live
    <3>1. q = s
      BY <1>2, <2>2
    <3>2. PICK v \in Ancestors(s) : v \in PassingReviews
      BY <1>2, <2>2, <3>1 DEF OneStage
    <3>3. v # s /\ v \in Stages
      BY AncestorsAre
    <3>4. Pair(v)' = Pair(v)
      BY <3>3 DEF Pair, OneStage
    <3>5. v \in PassingReviews'
      BY <1>2, <3>2, <3>3, <3>4, PassingReviewsAre DEF OneStage, PassingReviews, ApprovedOf
    <3> QED BY <1>3, <3>1, <3>2, <3>5
  <2> QED BY <2>1, <2>2
<1>8. ReviewRouted'
  BY <1>2, <1>3, AncestorsAre DEF ReviewInv, ReviewRouted, OneStage
<1> QED BY <1>4, <1>6, <1>7, <1>8 DEF ReviewInv

LEMMA QuietKeeps ==
    ASSUME ReviewInv,
           UNCHANGED <<deps, stageStatus, attempt, artifact, verdict, approved, bundle>>,
           gate'.type = "rollback" => gate' = gate
    PROVE  ReviewInv'
<1>1. \A q \in Stages : Ancestors(q)' = Ancestors(q)
  BY AncestorsOfDeps
<1>2. OneOfARole'
  BY DEF ReviewInv, OneOfARole, InRoute
<1>3. ReviewBundled'
  <2> SUFFICES ASSUME NEW v \in Stages, Role[v] = "review", stageStatus'[v] \in Shown
               PROVE  BundledFor(v)'
    BY DEF ReviewBundled, Shown
  <2> QED BY <1>1, BundleStays DEF ReviewInv
<1>4. ReportBacked'
  <2> SUFFICES ASSUME NEW q \in Stages, Role[q] = "report", stageStatus'[q] \in Live
               PROVE  Ancestors(q)' \cap PassingReviews' # {}
    BY DEF ReportBacked, Live
  <2> QED BY <1>1, BackingStays DEF ReviewInv
<1>5. ReviewRouted'
  BY <1>1 DEF ReviewInv, ReviewRouted
<1> QED BY <1>2, <1>3, <1>4, <1>5 DEF ReviewInv

(* What does not descend from the stage that is sent back keeps all its    *)
(* ancestors.                                                              *)
LEMMA SentBackKeepsReviewInv ==
    ASSUME TypeOK, Control, ReviewInv, NEW t \in InRoute,
           stageStatus' = SentBack(t), approved' = ApprovalsWithout(Descendants(t)),
           UNCHANGED <<deps, attempt, artifact, verdict, bundle>>, gate' = NoGate
    PROVE  ReviewInv'
<1>1. t \in Stages
  BY DEF InRoute
<1>2. \A q \in Stages : Ancestors(q)' = Ancestors(q)
  BY AncestorsOfDeps
<1>3. ASSUME NEW q \in Stages, stageStatus'[q] \in Live \cup Shown
      PROVE  q \notin Descendants(t) /\ stageStatus'[q] = stageStatus[q]
  BY <1>1, <1>3, DescendsFromItself DEF SentBack, Live, Shown
<1>4. ASSUME NEW q \in Stages, q \notin Descendants(t)
      PROVE  \A b \in Ancestors(q) : /\ stageStatus'[b] = stageStatus[b]
                                     /\ (Pair(b) \in approved => Pair(b) \in approved')
  <2> SUFFICES ASSUME NEW b \in Ancestors(q)
               PROVE  /\ stageStatus'[b] = stageStatus[b]
                      /\ (Pair(b) \in approved => Pair(b) \in approved')
    OBVIOUS
  <2>1. b \in Stages /\ q \in Descendants(b)
    BY AncestorsAre
  <2>2. b \notin Descendants(t)
    BY <1>1, <1>4, <2>1, DescendsThrough DEF Descendants
  <2>3. stageStatus'[b] = stageStatus[b]
    BY <1>1, <2>1, <2>2, DescendsFromItself DEF SentBack
  <2> QED BY <2>2, <2>3 DEF ApprovalsWithout, Pair
<1>8. ASSUME NEW q \in Stages
      PROVE  /\ stageStatus'[q] = "absent" <=> stageStatus[q] = "absent"
             /\ stageStatus'[q] = "skipped" => stageStatus[q] = "skipped"
  <2>1. stageStatus[t] # "absent"
    BY DEF InRoute
  <2> QED BY <2>1 DEF SentBack
<1>5. OneOfARole'
  <2>1. InRoute' = InRoute
    BY <1>8 DEF InRoute
  <2> QED BY <2>1 DEF ReviewInv, OneOfARole, NoGate
<1>6. ReviewBundled'
  <2> SUFFICES ASSUME NEW v \in Stages, Role[v] = "review", stageStatus'[v] \in Shown
               PROVE  BundledFor(v)'
    BY DEF ReviewBundled, Shown
  <2> QED BY <1>2, <1>3, <1>4, BundleStays DEF ReviewInv
<1>7. ReportBacked'
  <2> SUFFICES ASSUME NEW q \in Stages, Role[q] = "report", stageStatus'[q] \in Live
               PROVE  Ancestors(q)' \cap PassingReviews' # {}
    BY DEF ReportBacked, Live
  <2>1. stageStatus[q] \in Live /\ q \notin Descendants(t)
    BY <1>3
  <2> QED BY <1>2, <1>4, <2>1, BackingStays DEF ReviewInv
<1>9. ReviewRouted'
  BY <1>2, <1>8, AncestorsAre DEF ReviewInv, ReviewRouted
<1> QED BY <1>5, <1>6, <1>7, <1>9 DEF ReviewInv

(* A stage that is carried over into a new route is carried over with all  *)
(* its ancestors.                                                          *)
LEMMA SetRouteKeepsReviewInv ==
    ASSUME TypeOK, Control, ReviewInv, NEW r \in Routes, NEW reuse \in SUBSET Stages,
           SetRoute(r, reuse)
    PROVE  ReviewInv'
<1>1. /\ deps' = r.deps /\ bundle' = bundle
      /\ stageStatus' = [s \in Stages |-> IF s \in reuse THEN "approved" ELSE r.status[s]]
      /\ \A s \in reuse : artifact'[s] = artifact[s] /\ verdict'[s] = verdict[s]
      /\ attempt' = [s \in Stages |-> IF r.status[s] = "absent" THEN 0 ELSE attempt[s]]
      /\ approved' = {p \in approved : p[1] \in reuse}
      /\ gate'.type = "route"
      /\ \A s \in reuse : CanReuse(r, reuse, s) /\ r.status[s] # "absent"
      /\ ValidRoute(r)
  BY DEF SetRoute, CanSetRoute, reviewVars
<1>2. \A s \in Stages : r.status[s] \in {"absent", "pending", "skipped", "stale"}
  BY ConstantsOK DEF ConstantsOK, RoutePlan
<1>3. \A s \in Stages : stageStatus'[s] \in Live \cup Shown
          => s \in reuse /\ stageStatus'[s] = "approved" /\ stageStatus[s] = "approved"
  BY <1>1, <1>2 DEF Live, Shown, CanReuse
<1>4. \A s \in reuse : deps[s] = r.deps[s] /\ deps[s] \subseteq reuse
  BY <1>1 DEF CanReuse
<1>5. ASSUME NEW v \in reuse
      PROVE  /\ Ancestors(v)' = Ancestors(v)
             /\ \A b \in Ancestors(v) : b \in reuse
  <2>1. ASSUME NEW a \in Ancestors(v) PROVE a \in reuse /\ a \in AncestorsIn(r.deps, v)
    BY <1>4, <2>1, AncestorsShared DEF Ancestors
  <2>2. ASSUME NEW a \in AncestorsIn(r.deps, v) PROVE a \in Ancestors(v)
    BY <1>4, <2>2, AncestorsShared DEF Ancestors
  <2>3. Ancestors(v)' = AncestorsIn(r.deps, v)
    BY <1>1 DEF Ancestors, AncestorsIn, DescendantsIn, Closed
  <2> QED BY <2>1, <2>2, <2>3
<1>6. ASSUME NEW b \in reuse
      PROVE  /\ stageStatus'[b] = stageStatus[b] /\ artifact'[b] = artifact[b]
             /\ verdict'[b] = verdict[b] /\ (Pair(b) \in approved => Pair(b) \in approved')
  <2>1. stageStatus'[b] = "approved" /\ stageStatus[b] = "approved"
    BY <1>1 DEF CanReuse
  <2>2. Pair(b)[1] = b
    BY DEF Pair
  <2> QED BY <1>1, <2>1, <2>2
<1>7. OneOfARole'
  <2>1. InRoute' = {s \in Stages : r.status[s] # "absent"}
    BY <1>1 DEF InRoute
  <2> QED BY <1>1, <2>1 DEF ValidRoute, OneOfARole
<1>8. ReviewBundled'
  <2> SUFFICES ASSUME NEW v \in Stages, Role[v] = "review", stageStatus'[v] \in Shown
               PROVE  BundledFor(v)'
    BY DEF ReviewBundled, Shown
  <2>1. v \in reuse /\ stageStatus[v] \in Shown
    BY <1>3 DEF Shown
  <2>2. attempt'[v] = attempt[v]
    BY <1>1, <2>1
  <2> QED BY <1>1, <1>5, <1>6, <2>1, <2>2, BundleStays DEF ReviewInv
<1>9. ReportBacked'
  <2> SUFFICES ASSUME NEW q \in Stages, Role[q] = "report", stageStatus'[q] \in Live
               PROVE  Ancestors(q)' \cap PassingReviews' # {}
    BY DEF ReportBacked, Live
  <2>1. q \in reuse /\ stageStatus[q] \in Live
    BY <1>3 DEF Live
  <2>2. Ancestors(q) \subseteq Ancestors(q)'
    BY <1>5, <2>1
  <2> QED BY <1>5, <1>6, <2>1, <2>2, BackingStays DEF ReviewInv
<1>10. ReviewRouted'
  <2> SUFFICES ASSUME NEW s \in Stages, Role[s] = "report", stageStatus'[s] # "absent"
               PROVE  \E v \in Ancestors(s)' : /\ Role[v] = "review"
                                               /\ stageStatus'[v] \notin {"absent", "skipped"}
    BY DEF ReviewRouted
  <2> DEFINE P == {q \in Stages : r.status[q] # "absent"}
  <2>1. s \in P
    BY <1>1
  <2>2. PICK v \in AncestorsIn(r.deps, s) : Role[v] = "review" /\ r.status[v] # "skipped"
    BY <1>1, <2>1 DEF ValidRoute
  <2>3. \A q \in P : r.deps[q] \subseteq P
    BY <1>1 DEF ValidRoute
  <2>4. v \in P
    <3>1. P \in SUBSET Stages
      OBVIOUS
    <3> HIDE DEF P
    <3> QED BY <2>1, <2>2, <2>3, <3>1, AncestorsShared
  <2>5. Ancestors(s)' = AncestorsIn(r.deps, s)
    BY <1>1 DEF Ancestors, AncestorsIn, DescendantsIn, Closed
  <2> QED BY <1>1, <2>2, <2>4, <2>5
<1> QED BY <1>7, <1>8, <1>9, <1>10 DEF ReviewInv

-----------------------------------------------------------------------------
(* Each command preserves it.                                              *)

LEMMA StartStageKeepsReviewInv ==
    ASSUME TypeOK, Control, ReviewInv, NEW s \in Stages, NEW bundled \in BOOLEAN,
           StartStage(s, bundled)
    PROVE  ReviewInv'
<1>1. \A q \in Stages \ {s} : attempt'[q] = attempt[q]
  BY DEF StartStage, TypeOK, StagesTyped
<1>2. OneStage(s, "running")
  BY <1>1 DEF StartStage, CanStart, Startable, OneStage, Shown, reviewVars, runVars
<1> QED BY <1>2, OneStageKeeps

LEMMA RecordInvalidKeepsReviewInv ==
    ASSUME TypeOK, Control, ReviewInv, NEW s \in Stages, RecordStageInvalid(s)
    PROVE  ReviewInv'
<1>1. stageStatus[s] = "running"
  BY RecordingAlone DEF RecordStageInvalid
<1>2. OneStage(s, "failed")
  BY <1>1 DEF RecordStageInvalid, OneStage, Shown, Live, reviewVars
<1> QED BY <1>2, OneStageKeeps

LEMMA RecordedLeaves ==
    ASSUME TypeOK, Control, NEW s \in Stages, NEW v, NEW c \in Content,
           Recorded(s, v, c)
    PROVE  /\ stageStatus[s] = "running" /\ deps' = deps /\ approved' = approved
           /\ \A q \in Stages \ {s} : artifact'[q] = artifact[q] /\ verdict'[q] = verdict[q]
           /\ bundle' = bundle /\ attempt' = attempt
           /\ Role[s] = "review" => BundledFor(s)
<1>1. stageStatus[s] = "running"
  BY RecordingAlone DEF Recorded
<1>2. artifact \in [Stages -> Nat] /\ verdict \in [Stages -> {"none", "PASS", "BLOCKED", "FAIL"}]
  BY DEF TypeOK, StagesTyped
<1>3. Role[s] = "review" => BundledFor(s)
  BY DEF Recorded, ContextOK, ReviewBound, BundledFor
<1> QED BY <1>1, <1>2, <1>3 DEF Recorded

LEMMA RecordPassKeepsReviewInv ==
    ASSUME TypeOK, Control, ReviewInv, NEW s \in Stages, NEW c \in Content,
           RecordStagePass(s, c)
    PROVE  ReviewInv'
<1>1. OneStage(s, "awaiting_user_confirmation")
  BY RecordedLeaves DEF RecordStagePass, OneStage, Live
<1> QED BY <1>1, OneStageKeeps

LEMMA RecordBlockedKeepsReviewInv ==
    ASSUME TypeOK, Control, ReviewInv, NEW s \in Stages, NEW c \in Content,
           RecordStageBlocked(s, c)
    PROVE  ReviewInv'
<1>1. OneStage(s, "blocked")
  BY RecordedLeaves DEF RecordStageBlocked, OneStage, Live, Shown, NoGate
<1> QED BY <1>1, OneStageKeeps

LEMMA RecordFailKeepsReviewInv ==
    ASSUME TypeOK, Control, ReviewInv, NEW s \in Stages, NEW c \in Content,
           NEW t \in Stages, RecordStageFail(s, c, t)
    PROVE  ReviewInv'
<1>1. gate'.type = "rollback" => gate'.stage \in InRoute
  BY DEF RecordStageFail, NoGate, InRoute
<1>2. OneStage(s, "failed")
  BY <1>1, RecordedLeaves DEF RecordStageFail, OneStage, Live, Shown
<1> QED BY <1>2, OneStageKeeps

LEMMA ApproveStageKeepsReviewInv ==
    ASSUME TypeOK, Control, ReviewInv, NEW s \in Stages, ApproveStage(s)
    PROVE  ReviewInv'
<1>1. OneStage(s, "approved")
  BY DEF ApproveStage, OneStage, Live, Shown, NoGate, reviewVars, ReviewInv, ReviewBundled,
     CanApproveStage
<1> QED BY <1>1, OneStageKeeps

LEMMA ResumeKeepsReviewInv ==
    ASSUME TypeOK, Control, ReviewInv, Resume
    PROVE  ReviewInv'
<1>1. CASE GivesUp
  <2>1. Interrupted \in Stages
    BY <1>1 DEF GivesUp, Interrupted, TypeOK, RunTyped
  <2>2. stageStatus[Interrupted] \in {"running", "failed", "blocked"}
    BY <1>1 DEF GivesUp, Control, Boundaries
  <2>3. OneStage(Interrupted, "revising")
    BY <1>1, <2>2 DEF Resume, OneStage, Live, Shown, reviewVars
  <2> QED BY <2>1, <2>3, OneStageKeeps
<1>2. CASE ~GivesUp
  BY <1>2, QuietKeeps DEF Resume, reviewVars
<1> QED BY <1>1, <1>2

LEMMA ReviewStep == TypeOK /\ Control /\ ReviewInv /\ [Next]_vars => ReviewInv'
<1> SUFFICES ASSUME TypeOK, Control, ReviewInv, [Next]_vars PROVE ReviewInv'
  OBVIOUS
<1>1. CASE RouteSteps
  <2>1. ASSUME NEW r \in Routes, NEW reuse \in SUBSET Stages, SetRouteCrash(r, reuse)
        PROVE  ReviewInv'
    BY <2>1, QuietKeeps DEF SetRouteCrash, stageVars, runVars, reviewVars
  <2>2. ASSUME ApproveRoute PROVE ReviewInv'
    BY <2>2, QuietKeeps DEF ApproveRoute, stageVars, reviewVars, NoGate
  <2> QED BY <1>1, <2>1, <2>2, SetRouteKeepsReviewInv DEF RouteSteps
<1>2. CASE StageSteps
  <2> SUFFICES ASSUME NEW s \in Stages,
                      \/ \E bundled \in BOOLEAN : StartStage(s, bundled)
                      \/ StartStageCrash(s)
                      \/ RecordStageInvalid(s)
                      \/ \E c \in Content :
                           \/ RecordStagePass(s, c)
                           \/ RecordStageBlocked(s, c)
                           \/ \E t \in Stages : RecordStageFail(s, c, t)
                      \/ \E t \in Stages : RecordStageCrash(s, t)
                      \/ ApproveStage(s) \/ ApproveRollback(s) \/ Revise(s)
               PROVE  ReviewInv'
    BY <1>2, ContentOfOutput DEF StageSteps
  <2>1. ASSUME StartStageCrash(s) PROVE ReviewInv'
    BY <2>1, QuietKeeps DEF StartStageCrash, stageVars, runVars, reviewVars
  <2>2. ASSUME NEW t \in Stages, RecordStageCrash(s, t) PROVE ReviewInv'
    BY <2>2, QuietKeeps DEF RecordStageCrash, stageVars, runVars
  <2>3. ASSUME ApproveRollback(s) PROVE ReviewInv'
    <3>1. s \in InRoute
      BY <2>3 DEF ApproveRollback, ReviewInv, OneOfARole, CanApproveRollback
    <3> QED BY <2>3, <3>1, SentBackKeepsReviewInv DEF ApproveRollback, reviewVars
  <2>4. ASSUME Revise(s) PROVE ReviewInv'
    BY <2>4, SentBackKeepsReviewInv DEF Revise, CanRevise, reviewVars
  <2> QED BY <2>1, <2>2, <2>3, <2>4, StartStageKeepsReviewInv, RecordInvalidKeepsReviewInv,
             RecordPassKeepsReviewInv, RecordBlockedKeepsReviewInv, RecordFailKeepsReviewInv,
             ApproveStageKeepsReviewInv
<1>3. CASE RecordReceipt
  BY <1>3, QuietKeeps DEF RecordReceipt, runVars, reviewVars
<1>4. CASE QuerySteps
  BY <1>4, QuietKeeps DEF QuerySteps, PrepareQuery, PrepareQueryCrash, ApproveQuery,
     stageVars, runVars, reviewVars
<1>5. CASE LeaseSteps
  <2>1. UNCHANGED <<stageVars, reviewVars, approved, gate>>
    BY <1>5 DEF LeaseSteps, Read, DropSnapshot, AbortLease, BeginLease, PublishQuery,
       PublishReport, PublishLineage, RecoverExecutions, PublishCrash, runVars
  <2> QED BY <2>1, QuietKeeps DEF stageVars, reviewVars
<1>6. CASE Stop \/ Finalize
  BY <1>6, QuietKeeps DEF Stop, Finalize, stageVars, reviewVars
<1>7. CASE UNCHANGED vars
  BY <1>7, QuietKeeps DEF vars, stageVars, runVars, reviewVars
<1>8. CASE \E X \in AgentUpdates : UpdateAgents(X)
  BY <1>8, QuietKeeps DEF UpdateAgents, stageVars, runVars, reviewVars
<1> QED BY <1>1, <1>2, <1>3, <1>4, <1>5, <1>6, <1>7, <1>8, ResumeKeepsReviewInv DEF Next

LEMMA ReviewAlways == Spec => []ReviewInv
BY ReviewInit, ReviewStep, TypeCorrect, ControlAlways, PTL DEF Spec

(* A Report is written, shown and approved only behind a passing Review    *)
(* among its ancestors, and that Review read exactly the artifacts its     *)
(* ancestors carry now.                                                    *)
THEOREM ReportsAreReviewed == Spec => []ReportBehindReview
<1>1. ReviewInv => ReportBehindReview
  BY PassingReviewsAre DEF ReviewInv, ReviewBundled, BundledFor, ReportBacked,
     ReportBehindReview, Shown
<1> QED BY <1>1, ReviewAlways, PTL

-----------------------------------------------------------------------------
(* A completed run.                                                        *)
(*                                                                         *)
(* That a completed run is consistent lasts because no command can change  *)
(* it any more; a publication still under way could, and no lease outlives *)
(* a stopped or completed run.                                             *)

Halted == status \in {"stopped", "completed"} => lease = NoLease

LEMMA HaltedInit == Init => Halted
BY DEF Init, Halted

LEMMA LeaseStepsEnd ==
    ASSUME Halted, LeaseSteps
    PROVE  Halted' /\ (status = "completed" => status' = status)
<1>1. ASSUME Read \/ DropSnapshot \/ AbortLease \/ PublishReport
             \/ \E breaks \in BOOLEAN : PublishLineage(breaks)
      PROVE  Halted' /\ status' = status
  BY <1>1 DEF Read, DropSnapshot, AbortLease, PublishReport, PublishLineage, Halted, runVars
<1>2. ASSUME NEW ended \in BOOLEAN, NEW staged \in BOOLEAN, BeginLease(ended, staged)
      PROVE  Halted' /\ status' = status
  BY <1>2 DEF BeginLease, Halted, runVars
<1>3. ASSUME NEW moved \in BOOLEAN, PublishCrash(moved) PROVE Halted' /\ status' = status
  BY <1>3 DEF PublishCrash, LeaseValid, Halted, runVars
<1>4. ASSUME NEW warns \in BOOLEAN, PublishQuery(warns) PROVE Halted' /\ status # "completed"
  BY <1>4 DEF PublishQuery, LeaseValid, Halted
<1>5. ASSUME NEW breaks \in BOOLEAN, NEW warns \in BOOLEAN,
             RecoverExecutions(breaks, warns)
      PROVE  Halted' /\ status # "completed"
  BY <1>5 DEF RecoverExecutions, Halted
<1> QED BY <1>1, <1>2, <1>3, <1>4, <1>5 DEF LeaseSteps

LEMMA HaltedStep == TypeOK /\ Halted /\ [Next]_vars => Halted'
<1> SUFFICES ASSUME TypeOK, Halted, [Next]_vars PROVE Halted'
  OBVIOUS
<1>1. CASE RouteSteps
  BY <1>1 DEF RouteSteps, SetRoute, SetRouteCrash, ApproveRoute, Proceed, Halted, runVars, execVars,
     CanApproveRoute, NextStatus
<1>2. CASE StageSteps
  <2> SUFFICES ASSUME NEW s \in Stages,
                      \/ \E bundled \in BOOLEAN : StartStage(s, bundled)
                      \/ StartStageCrash(s)
                      \/ RecordStageInvalid(s)
                      \/ \E c \in Content :
                           \/ RecordStagePass(s, c)
                           \/ RecordStageBlocked(s, c)
                           \/ \E t \in Stages : RecordStageFail(s, c, t)
                      \/ \E t \in Stages : RecordStageCrash(s, t)
                      \/ ApproveStage(s) \/ ApproveRollback(s) \/ Revise(s)
               PROVE  Halted'
    BY <1>2, ContentOfOutput DEF StageSteps
  <2>1. status' \notin {"stopped", "completed"} \/ UNCHANGED <<status, lease>>
    BY DEF StartStage, StartStageCrash, RecordStageInvalid, RecordStagePass, RecordStageBlocked,
       RecordStageFail, RecordStageCrash, ApproveStage, ApproveRollback, Revise, Proceed,
       runVars, execVars, CanApproveStage, CanApproveRollback, NextStatus
  <2> QED BY <2>1 DEF Halted
<1>3. CASE \/ RecordReceipt \/ QuerySteps \/ Finalize \/ UNCHANGED vars
           \/ \E X \in AgentUpdates : UpdateAgents(X)
  BY <1>3 DEF RecordReceipt, QuerySteps, PrepareQuery, PrepareQueryCrash, ApproveQuery, Finalize,
     CanFinalize, UpdateAgents, Halted, vars, runVars, execVars
<1>4. CASE Stop \/ Resume
  BY <1>4 DEF Stop, Resume, Halted
<1> QED BY <1>1, <1>2, <1>3, <1>4, LeaseStepsEnd DEF Next

(* What the consistency of a completed run depends on.                     *)
endVars == <<deps, stageStatus, artifact, verdict, approved, bundle, results, status>>

LEMMA CompletedRests ==
    ASSUME Halted, CompletedIsConsistent, status = "completed", [Next]_vars
    PROVE  UNCHANGED endVars
<1>1. lease = NoLease /\ lease.phase = "none"
  BY DEF Halted, NoLease
<1>2. ~RouteSteps
  BY DEF RouteSteps, SetRoute, SetRouteCrash, CanSetRoute, ApproveRoute, CanApproveRoute
<1>3. ~StageSteps
  BY DEF StageSteps, StartStage, StartStageCrash, CanStart, RecordStageInvalid, RecordStagePass,
     RecordStageBlocked, RecordStageFail, Recorded, RecordStageCrash, Recording, ApproveStage,
     ApproveRollback, Revise, CanRevise, CanApproveStage, CanApproveRollback
<1>4. ~QuerySteps
  BY DEF QuerySteps, PrepareQuery, PrepareQueryCrash, CanPrepareQuery, ApproveQuery,
     CanApproveQuery
<1>5. LeaseSteps => Read \/ DropSnapshot
  BY <1>1 DEF LeaseSteps, AbortLease, BeginLease, PublishQuery, PublishReport, PublishLineage,
     RecoverExecutions, PublishCrash, LeaseValid
<1>6. ~(Stop \/ Resume \/ Finalize)
  BY DEF Stop, Resume, CanResume, Finalize, CanFinalize
<1>7. CASE \/ Read \/ DropSnapshot \/ RecordReceipt \/ UNCHANGED vars
           \/ \E X \in AgentUpdates : UpdateAgents(X)
  BY <1>7 DEF Read, DropSnapshot, RecordReceipt, UpdateAgents, endVars, vars, stageVars, runVars, reviewVars,
     execVars
<1> QED BY <1>2, <1>3, <1>4, <1>5, <1>6, <1>7 DEF Next

(* Only finalize_run completes a run.                                      *)
LEMMA OnlyFinalizeCompletes ==
    ASSUME status # "completed", [Next]_vars, status' = "completed"
    PROVE  Finalize
<1>1. ~RouteSteps
  BY DEF RouteSteps, SetRoute, SetRouteCrash, ApproveRoute, Proceed, runVars, CanApproveRoute,
     NextStatus
<1>2. ~StageSteps
  BY DEF StageSteps, StartStage, StartStageCrash, RecordStageInvalid, RecordStagePass,
     RecordStageBlocked, RecordStageFail, RecordStageCrash, ApproveStage, ApproveRollback, Revise,
     Proceed, runVars, CanApproveStage, CanApproveRollback, NextStatus
<1>3. ~(RecordReceipt \/ QuerySteps \/ Stop \/ UNCHANGED vars)
  BY DEF RecordReceipt, QuerySteps, PrepareQuery, PrepareQueryCrash, ApproveQuery, Stop, vars, runVars
<1>6. ~(\E X \in AgentUpdates : UpdateAgents(X))
  BY DEF UpdateAgents, runVars
<1>4. ~LeaseSteps
  BY DEF LeaseSteps, Read, DropSnapshot, AbortLease, BeginLease, PublishQuery, PublishReport,
     PublishLineage, RecoverExecutions, PublishCrash, runVars
<1>5. ~Resume
  <2> SUFFICES ASSUME Resume PROVE FALSE
    OBVIOUS
  <2>1. CanMoveTo("completed") /\ (status = "stopped" \/ ResumeTarget = status)
    BY DEF Resume, ResumeTarget, ResumedStatus, CanResume
  <2> QED BY <2>1 DEF Resume, CanResume, CanMoveTo, AllowedTransitions, ResumeTarget,
     ResumedStatus
<1> QED BY <1>1, <1>2, <1>3, <1>4, <1>5, <1>6 DEF Next

(* What a final report is of is all that is approved of Report and Review. *)
ApprovedEnd == {p \in approved : Role[p[1]] \in {"report", "review"}}

LEMMA BoundIsApproved ==
    ASSUME Control
    PROVE  {Pair(s) : s \in ApprovedOf("report") \cup PassingReviews} = ApprovedEnd
<1> DEFINE B == {Pair(s) : s \in ApprovedOf("report") \cup PassingReviews}
<1>1. \A s \in Stages : stageStatus[s] = "approved" =>
         artifact[s] # 0 /\ verdict[s] = "PASS" /\ Pair(s) \in approved
  BY DEF Control, ApprovalsExact
<1>2. \A s : Pair(s)[1] = s
  BY DEF Pair
<1>3. B \subseteq ApprovedEnd
  BY <1>1, <1>2, PassingReviewsAre DEF ApprovedOf, ApprovedEnd
<1>4. ASSUME NEW p \in ApprovedEnd PROVE p \in B
  <2>1. PICK s \in Stages : stageStatus[s] = "approved" /\ p = Pair(s)
    BY DEF ApprovedEnd, Control, ApprovalsExact
  <2>2. Role[s] \in {"report", "review"}
    BY <1>2, <2>1 DEF ApprovedEnd
  <2>3. s \in ApprovedOf("report") \cup PassingReviews
    BY <1>1, <2>1, <2>2, PassingReviewsAre DEF ApprovedOf
  <2> QED BY <2>1, <2>3
<1> QED BY <1>3, <1>4

LEMMA FinalizeCompletes ==
    ASSUME Control, ReviewInv, Finalize
    PROVE  CompletedIsConsistent'
<1>1. UNCHANGED <<deps, stageStatus, artifact, verdict, approved, bundle, results>>
  BY DEF Finalize, stageVars, reviewVars, execVars
<1>2. \A s \in InRoute : stageStatus[s] \in {"approved", "skipped"}
  BY DEF Finalize, CanFinalize
<1>3. PICK v \in PassingReviews : bundle.inputs = ApprovedAncestors(v)
  <2>1. PassingReviews # {}
    BY FS_EmptySet DEF Finalize, CanFinalize
  <2> QED BY <2>1, PassingReviewsAre DEF ReviewInv, ReviewBundled, BundledFor, Shown
<1>4. (\E s \in InRoute : Role[s] = "report" /\ stageStatus[s] # "skipped")
         <=> ApprovedOf("report") # {}
  <2>1. ASSUME NEW s \in InRoute, Role[s] = "report", stageStatus[s] # "skipped"
        PROVE  s \in ApprovedOf("report")
    BY <1>2, <2>1 DEF InRoute, ApprovedOf, Control, ApprovalsExact
  <2>2. ASSUME NEW s \in ApprovedOf("report")
        PROVE  s \in InRoute /\ Role[s] = "report" /\ stageStatus[s] # "skipped"
    BY DEF ApprovedOf, InRoute
  <2> QED BY <2>1, <2>2
<1>5. ApprovedAncestors(v)' = ApprovedAncestors(v)
  BY <1>1, AncestorsOfDeps, ApprovedAncestorsKept
<1>6. PassingReviews' = PassingReviews /\ InRoute' = InRoute /\ LastLineage' = LastLineage
  BY <1>1 DEF PassingReviews, ApprovedOf, Pair, InRoute, LastLineage
<1>7. ReportReady
  BY DEF Finalize, CanFinalize
<1>8. IF \E s \in InRoute : Role[s] = "report" /\ stageStatus[s] # "skipped"
      THEN \E f \in results.final :
             /\ results.final = {f}
             /\ f.pairs = ApprovedEnd
             /\ f.lineage = IF results.lineage = <<>> THEN 0 ELSE LastLineage.id
      ELSE results.final = {}
  BY <1>4, <1>7, BoundIsApproved DEF ReportReady
<1> QED BY <1>1, <1>2, <1>3, <1>5, <1>6, <1>8 DEF CompletedIsConsistent, ApprovedEnd

LEMMA CompletedStep ==
    TypeOK /\ Control /\ ReviewInv /\ Halted /\ CompletedIsConsistent /\ [Next]_vars
        => CompletedIsConsistent'
<1> SUFFICES ASSUME TypeOK, Control, ReviewInv, Halted, CompletedIsConsistent, [Next]_vars,
                    status' = "completed"
             PROVE  CompletedIsConsistent'
  BY DEF CompletedIsConsistent
<1>1. CASE status = "completed"
  <2>1. UNCHANGED <<deps, stageStatus, artifact, verdict, approved, bundle, results, status>>
    BY <1>1, CompletedRests DEF endVars
  <2>2. PassingReviews' = PassingReviews /\ InRoute' = InRoute /\ LastLineage' = LastLineage
    BY <2>1 DEF PassingReviews, ApprovedOf, Pair, InRoute, LastLineage
  <2>3. \A v \in PassingReviews : ApprovedAncestors(v)' = ApprovedAncestors(v)
    BY <2>1, AncestorsOfDeps, ApprovedAncestorsKept
  <2> QED BY <2>1, <2>2, <2>3 DEF CompletedIsConsistent
<1>2. CASE status # "completed"
  BY <1>2, OnlyFinalizeCompletes, FinalizeCompletes
<1> QED BY <1>1, <1>2

LEMMA HaltedAlways == Spec => []Halted
BY HaltedInit, HaltedStep, TypeCorrect, PTL DEF Spec

(* A completed run has a passing Review of the current artifacts and every *)
(* stage approved or skipped.  If the route has a Report, it has exactly   *)
(* one final report, of exactly the approved Report and Review, and bound  *)
(* to the lineage the run ends with; otherwise it has none.  No later      *)
(* command of any process can spoil it (publish_final_report,              *)
(* finalize_run).                                                          *)
THEOREM CompletedRunsAreConsistent == Spec => []CompletedIsConsistent
<1>1. Init => CompletedIsConsistent
  BY DEF Init, CompletedIsConsistent
<1> QED BY <1>1, CompletedStep, TypeCorrect, ControlAlways, ReviewAlways, HaltedAlways, PTL DEF Spec

-----------------------------------------------------------------------------
(* The final report of a finalizing run.                                   *)
(*                                                                         *)
(* The Report and the Review that a builder reads travel through its       *)
(* snapshot and its lease into the final report.  Under the first route    *)
(* they stay the approved ones, because nothing leaves the end of a run    *)
(* but another route; and a directory of the Report's that is taken is the *)
(* one of the active final report, or of a publisher that died.            *)

FinalWork ==
    {w.pairs : w \in {x \in {snapshot, lease.work} : x.kind = "final_report"}}
        \cup {f.pairs : f \in results.final}

EndPairs == {Pair(s) : s \in ApprovedOf("report") \cup ApprovedOf("review")}
OfReport(P) == {p \in P : Role[p[1]] = "report"}

(* The run stands at its end, or would be resumed to it if at all.         *)
AtEnd == ResumeTarget \in {"finalizing", "completed", "stopped", "none"}

BeforeRoute ==
    routeRevision = 0 =>
        /\ gate = NoGate /\ query = NoQuery
        /\ ResumeTarget \in {"initialized", "awaiting_route_confirmation", "stopped", "none"}

OneReport == \A P \in FinalWork : OfReport(P) # {}

FirstRoute ==
    routeRevision <= 1 => \A P \in FinalWork : routeRevision = 1 /\ AtEnd /\ P = EndPairs

(* A publisher died with the directory of a final report in place.         *)
Landed == lease.phase = "publishing" /\ lease.moved /\ lease.work.kind = "final_report"

OutputsTaken ==
    /\ \A p \in disk.outputs : p[1] # NoStage /\ crashes = 0 => results.final # {}
    /\ \A f \in results.final : OfReport(f.pairs) \subseteq disk.outputs
    /\ \A f, g \in results.final : OfReport(f.pairs) \cap OfReport(g.pairs) # {} => f = g
    /\ Landed => /\ OfReport(lease.work.pairs) \subseteq disk.outputs
                 /\ \A f \in results.final : OfReport(f.pairs) \cap OfReport(lease.work.pairs) = {}

EndInv == BeforeRoute /\ OneReport /\ FirstRoute /\ OutputsTaken

LEMMA EndInit == Init => EndInv
BY DEF Init, EndInv, BeforeRoute, OneReport, FirstRoute, OutputsTaken, FinalWork, Landed,
   ResumeTarget, NoWork, NoLease, NoResults

(* Only set_route takes the run to another route.                          *)
LEMMA OnlySetRoute ==
    ASSUME [Next]_vars
    PROVE  routeRevision' = routeRevision \/ \E r \in Routes, reuse \in SUBSET Stages : SetRoute(r, reuse)
<1>1. CASE RouteSteps
  BY <1>1 DEF RouteSteps, SetRouteCrash, ApproveRoute, runVars
<1>2. CASE StageSteps
  BY <1>2 DEF StageSteps, StartStage, StartStageCrash, RecordStageInvalid, RecordStagePass,
     RecordStageBlocked, RecordStageFail, Recorded, RecordStageCrash, ApproveStage,
     ApproveRollback, Revise, runVars
<1>3. CASE \/ RecordReceipt \/ QuerySteps \/ Stop \/ Resume \/ Finalize \/ UNCHANGED vars
           \/ \E X \in AgentUpdates : UpdateAgents(X)
  BY <1>3 DEF RecordReceipt, QuerySteps, PrepareQuery, PrepareQueryCrash, ApproveQuery, Stop,
     Resume, Finalize, UpdateAgents, vars, runVars
<1>4. CASE LeaseSteps
  BY <1>4 DEF LeaseSteps, Read, DropSnapshot, AbortLease, BeginLease, PublishQuery, PublishReport,
     PublishLineage, RecoverExecutions, PublishCrash, runVars
<1> QED BY <1>1, <1>2, <1>3, <1>4 DEF Next

(* Until the first route the run is at its start.                          *)
LEMMA BeforeRouteStep == TypeOK /\ Control /\ BeforeRoute /\ [Next]_vars => BeforeRoute'
<1> SUFFICES ASSUME TypeOK, Control, BeforeRoute, [Next]_vars, routeRevision' = 0
             PROVE  /\ gate' = NoGate /\ query' = NoQuery
                    /\ ResumeTarget' \in {"initialized", "awaiting_route_confirmation", "stopped", "none"}
  BY DEF BeforeRoute
<1>1. routeRevision \in Nat
  BY DEF TypeOK, RunTyped
<1>2. ASSUME NEW r \in Routes, NEW reuse \in SUBSET Stages, SetRoute(r, reuse) PROVE FALSE
  BY <1>1, <1>2 DEF SetRoute
<1>3. routeRevision = 0
  BY <1>2, OnlySetRoute
<1>4. /\ gate = NoGate /\ query = NoQuery
      /\ ResumeTarget \in {"initialized", "awaiting_route_confirmation", "stopped", "none"}
      /\ status \in {"initialized", "awaiting_route_confirmation", "stopped"}
  BY <1>3 DEF BeforeRoute, ResumeTarget, TypeOK, RunTyped, Statuses
<1>5. ~(lease.phase # "none" /\ lease.work.kind = "query")
  BY <1>4, QueryClosed
<1>6. ASSUME UNCHANGED <<status, resumeStatus, gate, query>>
      PROVE  /\ gate' = NoGate /\ query' = NoQuery
             /\ ResumeTarget' \in {"initialized", "awaiting_route_confirmation", "stopped", "none"}
  BY <1>4, <1>6 DEF ResumeTarget
<1>7. CASE RouteSteps
  BY <1>2, <1>4, <1>6, <1>7 DEF RouteSteps, SetRouteCrash, ApproveRoute, NoGate, runVars,
     CanApproveRoute
<1>8. CASE StageSteps
  BY <1>4, <1>8 DEF StageSteps, StartStage, StartStageCrash, CanStart, RecordStageInvalid,
     RecordStagePass, RecordStageBlocked, RecordStageFail, Recorded, RecordStageCrash, Recording,
     ApproveStage, ApproveRollback, Revise, CanRevise, CanApproveStage, CanApproveRollback
<1>9. CASE \/ RecordReceipt \/ QuerySteps \/ Finalize \/ UNCHANGED vars
           \/ \E X \in AgentUpdates : UpdateAgents(X)
  BY <1>4, <1>6, <1>9 DEF RecordReceipt, QuerySteps, PrepareQuery, PrepareQueryCrash,
     CanPrepareQuery, ApproveQuery, Finalize, CanFinalize, UpdateAgents, vars, runVars,
     CanApproveQuery
<1>10. CASE LeaseSteps
  <2>1. UNCHANGED <<status, resumeStatus, gate, query>>
    <3>1. \A warns \in BOOLEAN : ~PublishQuery(warns)
      BY <1>4 DEF PublishQuery, LeaseValid
    <3>2. ASSUME NEW breaks \in BOOLEAN, NEW warns \in BOOLEAN,
             RecoverExecutions(breaks, warns)
          PROVE  UNCHANGED <<status, resumeStatus, gate, query>>
      BY <1>5, <3>2 DEF RecoverExecutions, runVars
    <3> QED BY <1>10, <3>1, <3>2 DEF LeaseSteps, Read, DropSnapshot, AbortLease, BeginLease,
           PublishReport, PublishLineage, PublishCrash, runVars
  <2> QED BY <1>6, <2>1
<1>11. CASE Stop
  BY <1>4, <1>11 DEF Stop, ResumeTarget
<1>12. CASE Resume
  <2>1. ~GivesUp
    BY <1>4 DEF GivesUp
  <2>2. UNCHANGED <<gate, query>> /\ resumeStatus' = "none"
        /\ status' \in {"awaiting_route_confirmation", "stopped"}
    BY <1>4, <1>12, <2>1 DEF Resume, CanResume, ResumedStatus
  <2> QED BY <1>4, <2>2 DEF ResumeTarget
<1> QED BY <1>7, <1>8, <1>9, <1>10, <1>11, <1>12 DEF Next

(* Nothing but another route leaves the end of a run.                      *)
LEMMA EndRests ==
    ASSUME TypeOK, Halted, AtEnd, [Next]_vars, routeRevision' = routeRevision
    PROVE  AtEnd' /\ UNCHANGED <<stageStatus, artifact>>
<1>1. status \in {"finalizing", "completed", "stopped"} /\ routeRevision \in Nat
  BY DEF AtEnd, ResumeTarget, TypeOK, RunTyped, Statuses
<1>2. ASSUME UNCHANGED <<status, resumeStatus, stageStatus, artifact>>
      PROVE  AtEnd' /\ UNCHANGED <<stageStatus, artifact>>
  BY <1>2 DEF AtEnd, ResumeTarget
<1>3. CASE RouteSteps
  <2>1. ASSUME NEW r \in Routes, NEW reuse \in SUBSET Stages, SetRoute(r, reuse) PROVE FALSE
    BY <1>1, <2>1 DEF SetRoute
  <2>2. ~ApproveRoute
    BY <1>1 DEF ApproveRoute, CanApproveRoute
  <2> QED BY <1>2, <1>3, <2>1, <2>2 DEF RouteSteps, SetRouteCrash, stageVars, runVars
<1>4. CASE StageSteps
  BY <1>1, <1>4 DEF StageSteps, StartStage, StartStageCrash, CanStart, RecordStageInvalid,
     RecordStagePass, RecordStageBlocked, RecordStageFail, Recorded, RecordStageCrash, Recording,
     ApproveStage, ApproveRollback, Revise, CanRevise, CanApproveStage, CanApproveRollback
<1>5. CASE \/ RecordReceipt \/ QuerySteps \/ UNCHANGED vars
           \/ \E X \in AgentUpdates : UpdateAgents(X)
  BY <1>1, <1>2, <1>5 DEF RecordReceipt, QuerySteps, PrepareQuery, PrepareQueryCrash,
     CanPrepareQuery, ApproveQuery, UpdateAgents, vars, stageVars, runVars, CanApproveQuery
<1>6. CASE LeaseSteps
  <2>1. \A warns \in BOOLEAN : ~PublishQuery(warns)
    BY <1>1 DEF PublishQuery, LeaseValid, CanMoveTo, AllowedTransitions
  <2>2. ASSUME NEW breaks \in BOOLEAN, NEW warns \in BOOLEAN,
             RecoverExecutions(breaks, warns)
        PROVE  UNCHANGED <<status, resumeStatus, stageStatus, artifact>>
    <3>1. status = "finalizing"
      BY <1>1, <2>2 DEF RecoverExecutions, Halted
    <3>2. ~CanMoveTo("running")
      BY <3>1 DEF CanMoveTo, AllowedTransitions
    <3> QED BY <2>2, <3>2 DEF RecoverExecutions, stageVars, runVars
  <2> QED BY <1>2, <1>6, <2>1, <2>2 DEF LeaseSteps, Read, DropSnapshot, AbortLease, BeginLease,
         PublishReport, PublishLineage, PublishCrash, stageVars, runVars
<1>7. CASE Stop
  BY <1>1, <1>7 DEF Stop, AtEnd, ResumeTarget, stageVars
<1>8. CASE Finalize
  BY <1>8 DEF Finalize, AtEnd, ResumeTarget, stageVars
<1>9. CASE Resume
  <2>1. ~GivesUp
    BY DEF GivesUp, AtEnd
  <2>2. ResumeTarget \in {"finalizing", "completed", "stopped"}
    BY <1>9 DEF AtEnd, Resume, CanResume
  <2> QED BY <1>9, <2>1, <2>2 DEF Resume, AtEnd, ResumeTarget, ResumedStatus, CanResume
<1> QED BY <1>3, <1>4, <1>5, <1>6, <1>7, <1>8, <1>9 DEF Next

LEMMA WithoutKeepsFinal ==
    ASSUME TypeOK, NEW affected PROVE Without(affected).final = results.final
BY DEF Without, TypeOK, ResultsTyped

(* Commands that are neither a builder's nor a recovery leave the final    *)
(* reports, the directories and the leases of the run as they are, or end  *)
(* the lease.                                                              *)
Apart ==
    /\ snapshot' = snapshot /\ (lease' = lease \/ lease' = NoLease)
    /\ results'.final = results.final /\ disk'.outputs = disk.outputs
    /\ crashes' \in {crashes, crashes + 1}

LEMMA CommandsApart ==
    ASSUME TypeOK, [Next]_vars, ~LeaseSteps
    PROVE  Apart
<1>1. disk \in [routeFile : BOOLEAN,
                inputs : [missing : BOOLEAN, query : SUBSET Nat, lineage : SUBSET Nat],
                attemptDir : [Stages -> Nat], queryDir : Nat,
                outputs : SUBSET ((Stages \cup {NoStage}) \X Nat), agents : SUBSET Roles]
  BY DEF TypeOK, DiskTyped
<1>2. CASE RouteSteps
  BY <1>1, <1>2, WithoutKeepsFinal DEF RouteSteps, SetRoute, SetRouteCrash, ApproveRoute, Dies,
     Apart, execVars, diskVars
<1>3. CASE StageSteps
  <2> SUFFICES ASSUME NEW s \in Stages,
                      \/ \E bundled \in BOOLEAN : StartStage(s, bundled)
                      \/ StartStageCrash(s)
                      \/ RecordStageInvalid(s)
                      \/ \E c \in Content :
                           \/ RecordStagePass(s, c)
                           \/ RecordStageBlocked(s, c)
                           \/ \E t \in Stages : RecordStageFail(s, c, t)
                      \/ \E t \in Stages : RecordStageCrash(s, t)
                      \/ ApproveStage(s) \/ ApproveRollback(s) \/ Revise(s)
               PROVE  Apart
    BY <1>3, ContentOfOutput DEF StageSteps
  <2>1. CASE (\E bundled \in BOOLEAN : StartStage(s, bundled)) \/ StartStageCrash(s)
    BY <1>1, <2>1 DEF StartStage, StartStageCrash, Dies, Apart, execVars
  <2>2. CASE \/ RecordStageInvalid(s)
             \/ \E c \in Content :
                  \/ RecordStagePass(s, c)
                  \/ RecordStageBlocked(s, c)
                  \/ \E t \in Stages : RecordStageFail(s, c, t)
             \/ \E t \in Stages : RecordStageCrash(s, t)
             \/ ApproveStage(s)
    BY <2>2 DEF RecordStageInvalid, RecordStagePass, RecordStageBlocked, RecordStageFail, Recorded,
       RecordStageCrash, ApproveStage, Dies, Apart, execVars, diskVars
  <2>3. CASE ApproveRollback(s) \/ Revise(s)
    BY <2>3, WithoutKeepsFinal DEF ApproveRollback, Revise, Apart, diskVars
  <2> QED BY <2>1, <2>2, <2>3
<1>4. CASE \/ RecordReceipt \/ QuerySteps \/ Stop \/ Resume \/ Finalize \/ UNCHANGED vars
           \/ \E X \in AgentUpdates : UpdateAgents(X)
  BY <1>1, <1>4 DEF RecordReceipt, QuerySteps, PrepareQuery, PrepareQueryCrash, ApproveQuery,
     Stop, Resume, Finalize, UpdateAgents, Dies, Apart, vars, execVars, diskVars
<1> QED BY <1>2, <1>3, <1>4 DEF Next

(* Final report work only moves on, from the snapshot to the lease to the  *)
(* result.                                                                 *)
LEMMA WorkMovesOn ==
    ASSUME snapshot' \in {snapshot, NoWork}, lease'.work \in {lease.work, snapshot, NoWork},
           \A f \in results'.final :
               \/ f \in results.final
               \/ lease.work.kind = "final_report" /\ f.pairs = lease.work.pairs,
           NEW P, P \in FinalWork'
    PROVE  P \in FinalWork
<1>1. CASE \E f \in results'.final : P = f.pairs
  BY <1>1 DEF FinalWork
<1>2. CASE \E w \in {snapshot', lease'.work} : w.kind = "final_report" /\ P = w.pairs
  BY <1>2 DEF FinalWork, NoWork
<1> QED BY <1>1, <1>2 DEF FinalWork

(* New work is that of a builder that read a finalizing run.               *)
LEMMA FinalWorkFrom ==
    ASSUME TypeOK, [Next]_vars, NEW P, P \in FinalWork'
    PROVE  \/ P \in FinalWork
           \/ ReadForReport /\ P = EndPairs /\ routeRevision' = routeRevision
<1>1. results \in [query : SUBSET QueryRecords, lineage : Seq(LineageRecords),
                   final : SUBSET FinalRecords]
  BY DEF TypeOK, ResultsTyped
<1>2. NoLease.work = NoWork
  BY DEF NoLease
<1>3. CASE ~LeaseSteps
  BY <1>2, <1>3, CommandsApart, WorkMovesOn DEF Apart
<1>4. ASSUME Read PROVE \/ P \in FinalWork
                        \/ ReadForReport /\ P = EndPairs /\ routeRevision' = routeRevision
  <2>1. UNCHANGED <<results, lease, routeRevision>>
    BY <1>4 DEF Read, runVars
  <2>2. CASE snapshot'.kind # "final_report"
    BY <2>1, <2>2 DEF FinalWork
  <2>3. CASE snapshot'.kind = "final_report"
    <3>1. ReadForReport
      BY <1>4, <2>3 DEF Read, ReadForQuery, ReadForLineage, NoWork
    <3>2. snapshot'.pairs = EndPairs
      BY <3>1 DEF ReadForReport, EndPairs, NoWork
    <3> QED BY <2>1, <3>1, <3>2 DEF FinalWork
  <2> QED BY <2>2, <2>3
<1>5. ASSUME DropSnapshot \/ AbortLease PROVE P \in FinalWork
  BY <1>2, <1>5, WorkMovesOn DEF DropSnapshot, AbortLease
<1>6. ASSUME NEW ended \in BOOLEAN, NEW staged \in BOOLEAN, BeginLease(ended, staged)
      PROVE  P \in FinalWork
  BY <1>6, WorkMovesOn DEF BeginLease
<1>7. ASSUME \/ \E warns \in BOOLEAN : PublishQuery(warns)
             \/ \E breaks \in BOOLEAN : PublishLineage(breaks)
      PROVE  P \in FinalWork
  <2>1. results'.final = results.final
    BY <1>1, <1>7 DEF PublishQuery, PublishLineage
  <2> QED BY <1>2, <1>7, <2>1, WorkMovesOn DEF PublishQuery, PublishLineage
<1>8. ASSUME PublishReport PROVE P \in FinalWork
  <2>1. results'.final = results.final \cup {FinalRecord} /\ lease.work.kind = "final_report"
    BY <1>1, <1>8 DEF PublishReport
  <2> QED BY <1>2, <1>8, <2>1, WorkMovesOn DEF PublishReport, FinalRecord
<1>9. ASSUME NEW breaks \in BOOLEAN, NEW warns \in BOOLEAN,
             RecoverExecutions(breaks, warns) PROVE P \in FinalWork
  <2>1. \/ results'.final = results.final
        \/ results'.final = results.final \cup {FinalRecord} /\ lease.work.kind = "final_report"
    BY <1>1, <1>9 DEF RecoverExecutions
  <2> QED BY <1>2, <1>9, <2>1, WorkMovesOn DEF RecoverExecutions, FinalRecord
<1>10. ASSUME NEW moved \in BOOLEAN, PublishCrash(moved) PROVE P \in FinalWork
  <2>1. lease'.work = lease.work
    BY <1>10 DEF PublishCrash, TypeOK, LeaseTyped
  <2> QED BY <1>10, <2>1, WorkMovesOn DEF PublishCrash
<1> QED BY <1>3, <1>4, <1>5, <1>6, <1>7, <1>8, <1>9, <1>10 DEF LeaseSteps

LEMMA OneReportStep == TypeOK /\ OneReport /\ [Next]_vars => OneReport'
<1> SUFFICES ASSUME TypeOK, OneReport, [Next]_vars, NEW P, P \in FinalWork'
             PROVE  OfReport(P) # {}
  BY DEF OneReport, OfReport
<1>1. CASE P \in FinalWork
  BY <1>1 DEF OneReport
<1>2. CASE ReadForReport /\ P = EndPairs
  <2>1. PICK s : s \in ApprovedOf("report")
    BY <1>2, FS_EmptySet DEF ReadForReport
  <2>2. Pair(s) \in P /\ Role[Pair(s)[1]] = "report"
    BY <1>2, <2>1 DEF EndPairs, Pair, ApprovedOf
  <2> QED BY <2>2 DEF OfReport
<1> QED BY <1>1, <1>2, FinalWorkFrom

LEMMA FirstRouteStep ==
    TypeOK /\ Control /\ Halted /\ BeforeRoute /\ FirstRoute /\ [Next]_vars => FirstRoute'
<1> SUFFICES ASSUME TypeOK, Halted, BeforeRoute, FirstRoute, [Next]_vars,
                    routeRevision' <= 1, NEW P, P \in FinalWork'
             PROVE  routeRevision' = 1 /\ AtEnd' /\ P = EndPairs'
  BY DEF FirstRoute
<1>1. routeRevision \in Nat
  BY DEF TypeOK, RunTyped
<1>2. routeRevision' = routeRevision
  <2> SUFFICES ASSUME NEW r \in Routes, NEW reuse \in SUBSET Stages, SetRoute(r, reuse) PROVE FALSE
    BY OnlySetRoute
  <2>1. routeRevision' = routeRevision + 1
    BY DEF SetRoute
  <2>2. P \in FinalWork
    BY <1>1, <2>1, FinalWorkFrom
  <2> QED BY <1>1, <2>1, <2>2 DEF FirstRoute
<1>3. routeRevision = 1 /\ AtEnd /\ P = EndPairs
  <2>1. CASE P \in FinalWork
    BY <1>2, <2>1 DEF FirstRoute
  <2>2. CASE ReadForReport /\ P = EndPairs
    <3>1. AtEnd /\ ResumeTarget = "finalizing"
      BY <2>2 DEF ReadForReport, AtEnd, ResumeTarget
    <3>2. routeRevision # 0
      BY <3>1 DEF BeforeRoute
    <3> QED BY <1>1, <1>2, <2>2, <3>1, <3>2
  <2> QED BY <2>1, <2>2, FinalWorkFrom
<1>4. AtEnd' /\ UNCHANGED <<stageStatus, artifact>>
  BY <1>2, <1>3, EndRests
<1> QED BY <1>2, <1>3, <1>4 DEF EndPairs, ApprovedOf, Pair

LEMMA OutputsKept ==
    ASSUME OutputsTaken, crashes \in Nat, results'.final = results.final,
           disk.outputs \subseteq disk'.outputs, crashes' \in {crashes, crashes + 1},
           \A p \in disk'.outputs \ disk.outputs : p[1] = NoStage \/ crashes' = crashes + 1,
           lease' = lease \/ lease'.phase # "publishing"
    PROVE  OutputsTaken'
<1>1. Landed' => Landed /\ lease' = lease
  BY DEF Landed
<1>2. \A p \in disk'.outputs : p[1] # NoStage /\ crashes' = 0 => results'.final # {}
  BY DEF OutputsTaken
<1> QED BY <1>1, <1>2 DEF OutputsTaken, OfReport

(* A final report takes a directory that was free.                         *)
LEMMA OutputsStep == TypeOK /\ OutputsTaken /\ [Next]_vars => OutputsTaken'
<1> SUFFICES ASSUME TypeOK, OutputsTaken, [Next]_vars PROVE OutputsTaken'
  OBVIOUS
<1>1. crashes \in Nat
  BY DEF TypeOK, DiskTyped
<1>2. /\ disk \in [routeFile : BOOLEAN,
                   inputs : [missing : BOOLEAN, query : SUBSET Nat, lineage : SUBSET Nat],
                   attemptDir : [Stages -> Nat], queryDir : Nat,
                   outputs : SUBSET ((Stages \cup {NoStage}) \X Nat), agents : SUBSET Roles]
      /\ results \in [query : SUBSET QueryRecords, lineage : Seq(LineageRecords),
                      final : SUBSET FinalRecords]
      /\ NoLease.phase = "none"
  BY DEF TypeOK, DiskTyped, ResultsTyped, NoLease
<1>3. CASE ~LeaseSteps
  BY <1>1, <1>2, <1>3, CommandsApart, OutputsKept DEF Apart
<1>4. ASSUME \/ Read \/ DropSnapshot \/ AbortLease
             \/ \E breaks \in BOOLEAN : PublishLineage(breaks)
      PROVE  OutputsTaken'
  BY <1>1, <1>2, <1>4, OutputsKept DEF Read, DropSnapshot, AbortLease, PublishLineage, diskVars
<1>5. ASSUME NEW ended \in BOOLEAN, NEW staged \in BOOLEAN, BeginLease(ended, staged)
      PROVE  OutputsTaken'
  BY <1>1, <1>5, OutputsKept DEF BeginLease, Dies
<1>6. ASSUME NEW warns \in BOOLEAN, PublishQuery(warns) PROVE OutputsTaken'
  <2>1. Output = {<<NoStage, lease.work.rev>>}
    BY <1>6 DEF PublishQuery, Output
  <2>2. disk'.outputs = disk.outputs \cup Output /\ results'.final = results.final
        /\ lease'.phase # "publishing" /\ crashes' = crashes
    BY <1>2, <1>6 DEF PublishQuery
  <2> QED BY <1>1, <2>1, <2>2, OutputsKept
<1>7. ASSUME LeaseValid, OutputIsNew, lease.work.kind = "final_report"
      PROVE  /\ Output = OfReport(lease.work.pairs)
             /\ \A f \in results.final : OfReport(f.pairs) \cap Output = {}
  BY <1>7 DEF Output, OutputIsNew, OfReport, OutputsTaken
<1>8. ASSUME disk.outputs \subseteq disk'.outputs,
             OfReport(lease.work.pairs) \subseteq disk'.outputs, lease' = NoLease,
             results'.final = results.final \cup {FinalRecord},
             \A f \in results.final : OfReport(f.pairs) \cap OfReport(lease.work.pairs) = {}
      PROVE  OutputsTaken'
  <2>1. ~Landed' /\ FinalRecord.pairs = lease.work.pairs /\ FinalRecord \in results'.final
    BY <1>2, <1>8 DEF Landed, FinalRecord
  <2>2. \A f \in results'.final : f \in results.final \/ f = FinalRecord
    BY <1>8
  <2>3. \A f \in results'.final : OfReport(f.pairs) \subseteq disk'.outputs
    BY <1>8, <2>1, <2>2 DEF OutputsTaken
  <2>4. \A f, g \in results'.final : OfReport(f.pairs) \cap OfReport(g.pairs) # {} => f = g
    BY <1>8, <2>1, <2>2 DEF OutputsTaken
  <2> QED BY <2>1, <2>3, <2>4 DEF OutputsTaken, OfReport
<1>9. ASSUME PublishReport PROVE OutputsTaken'
  <2>1. results'.final = results.final \cup {FinalRecord} /\ lease' = NoLease
        /\ disk'.outputs = disk.outputs \cup Output
    BY <1>2, <1>9 DEF PublishReport
  <2>2. LeaseValid /\ OutputIsNew /\ lease.work.kind = "final_report"
    BY <1>9 DEF PublishReport
  <2> QED BY <1>7, <1>8, <2>1, <2>2
<1>10. ASSUME NEW moved \in BOOLEAN, PublishCrash(moved) PROVE OutputsTaken'
  <2>1. /\ results' = results /\ crashes' = crashes + 1 /\ disk.outputs \subseteq disk'.outputs
        /\ lease' = [lease EXCEPT !.phase = "publishing", !.moved = moved]
        /\ moved => disk'.outputs = disk.outputs \cup Output
        /\ LeaseValid /\ OutputIsNew
    BY <1>2, <1>10 DEF PublishCrash, Dies
  <2>2. lease'.moved = moved /\ lease'.work = lease.work
    BY <2>1 DEF TypeOK, LeaseTyped
  <2>3. Landed' => /\ OfReport(lease'.work.pairs) \subseteq disk'.outputs
                   /\ \A f \in results.final : OfReport(f.pairs) \cap OfReport(lease'.work.pairs) = {}
    BY <1>7, <2>1, <2>2 DEF Landed
  <2> QED BY <1>1, <2>1, <2>3 DEF OutputsTaken, OfReport
<1>11. ASSUME NEW breaks \in BOOLEAN, NEW warns \in BOOLEAN,
             RecoverExecutions(breaks, warns) PROVE OutputsTaken'
  <2>1. UNCHANGED diskVars /\ lease' = NoLease
    BY <1>11 DEF RecoverExecutions
  <2>2. CASE results'.final = results.final
    BY <1>1, <1>2, <2>1, <2>2, OutputsKept DEF diskVars
  <2>3. CASE results'.final # results.final
    <3>1. Landed /\ results'.final = results.final \cup {FinalRecord}
      BY <1>2, <1>11, <2>3 DEF RecoverExecutions, Landed
    <3> QED BY <1>8, <2>1, <3>1 DEF OutputsTaken, diskVars
  <2> QED BY <2>2, <2>3
<1> QED BY <1>3, <1>4, <1>5, <1>6, <1>9, <1>10, <1>11 DEF LeaseSteps

LEMMA EndAlways == Spec => []EndInv
<1>1. TypeOK /\ Control /\ Halted /\ EndInv /\ [Next]_vars => EndInv'
  BY BeforeRouteStep, OneReportStep, FirstRouteStep, OutputsStep DEF EndInv
<1> QED BY <1>1, EndInit, TypeCorrect, ControlAlways, HaltedAlways, PTL DEF Spec

LEMMA FinalizingEnds == TypeOK /\ Control /\ EndInv => FinalizingCanEnd
<1>1. ASSUME TypeOK, Control, EndInv, status = "finalizing", ~EndHeld
      PROVE  \/ results.final = {} /\ Bound \cap disk.outputs = {}
             \/ \E f \in results.final : results.final = {f} /\ f.pairs = Bound
  <2>1. EndPairs = Bound
    <3>1. \A s : s \in ApprovedOf("review") <=> s \in PassingReviews
      BY <1>1 DEF PassingReviews, ApprovedOf, Control, ApprovalsExact
    <3> QED BY <3>1 DEF EndPairs, Bound
  <2>2. CASE results.final = {}
    <3>1. \A p \in Bound : p[1] # NoStage
      <4> SUFFICES ASSUME NEW s \in ApprovedOf("report") \cup PassingReviews
                   PROVE  Pair(s)[1] # NoStage
        BY DEF Bound
      <4>1. s \in Stages /\ Pair(s)[1] = s
        BY DEF ApprovedOf, PassingReviews, Pair
      <4> QED BY <4>1, StagesAreNat
    <3>2. crashes \in Nat
      BY <1>1 DEF TypeOK, DiskTyped
    <3>3. crashes = 0 => Bound \cap disk.outputs = {}
      BY <1>1, <2>2, <3>1 DEF EndInv, OutputsTaken
    <3>4. crashes > 0 => Bound \cap disk.outputs = {}
      BY <1>1, <2>2 DEF EndHeld
    <3> QED BY <2>2, <3>2, <3>3, <3>4
  <2>3. CASE results.final # {}
    <3>1. \A f \in results.final : f.pairs = Bound /\ OfReport(f.pairs) # {}
      <4>1. \A f \in results.final : f.pairs \in FinalWork
        BY DEF FinalWork
      <4>2. routeRevision \in Nat
        BY <1>1 DEF TypeOK, RunTyped
      <4> QED BY <1>1, <2>1, <4>1, <4>2 DEF EndHeld, EndInv, FirstRoute, OneReport
    <3>2. PICK f \in results.final : TRUE
      BY <2>3
    <3>3. \A g \in results.final : g = f
      BY <1>1, <3>1, <3>2 DEF EndInv, OutputsTaken
    <3> QED BY <3>1, <3>2, <3>3
  <2> QED BY <2>2, <2>3
<1> QED BY <1>1 DEF FinalizingCanEnd

(* A finalizing run, which no revision can leave, can get the final report *)
(* it has to end with but where it is held: the report is still to be      *)
(* published and its directory free, or the one there is is of the right   *)
(* Report and Review (publish_final_report, finalize_run).                 *)
THEOREM FinalizingRunsCanEnd == Spec => []FinalizingCanEnd
BY FinalizingEnds, TypeCorrect, ControlAlways, EndAlways, PTL


-----------------------------------------------------------------------------
(* Who has the turn.                                                       *)
(*                                                                         *)
(* At every boundary a run stands at, or would be resumed to, what the     *)
(* next command needs is there: the gate that the user is asked about, the *)
(* stage to start or to go back to, the query to approve or execute.  The  *)
(* parts support one another: a resumed run finds its gate because nothing *)
(* touches it while the run is stopped, and a rollback its plan because    *)
(* no output is recorded while the rollback waits.                         *)

StageDue(s) ==
    /\ gate = [type |-> "stage", stage |-> s, rev |-> artifact[s]]
    /\ stageStatus[s] = "awaiting_user_confirmation" /\ artifact[s] # 0 /\ verdict[s] = "PASS"

RollbackDue ==
    /\ gate = [type |-> "rollback", stage |-> plan.target, rev |-> plan.id[2]]
    /\ plan.target \in Ancestors(plan.id[1]) /\ artifact[plan.target] = plan.art
    /\ plans # <<>> /\ plans[Len(plans)] = plan.id

GateWhere ==
    /\ ResumeTarget = "initialized" => routeRevision = 0
    /\ ResumeTarget = "awaiting_route_confirmation" /\ routeRevision # 0
          => gate.type = "route" /\ gate.rev = routeRevision
    /\ ResumeTarget = "awaiting_user_confirmation" => \E s \in Stages : StageDue(s)
    /\ ResumeTarget \in {"blocked", "failed"} => gate = NoGate \/ gate.type = "rollback"
    /\ gate.type = "rollback" => RollbackDue

QueryWhere ==
    /\ query # NoQuery
          => ResumeTarget \in {"running", "awaiting_query_confirmation", "stopped", "none"}
    /\ ResumeTarget = "running" /\ query # NoQuery => query.phase = "approved"
    /\ ResumeTarget = "awaiting_query_confirmation" => query.phase = "prepared"

StageWhere ==
    /\ ResumeTarget \in {"running", "awaiting_query_confirmation", "revising"}
          /\ currentStage = NoStage
          => /\ pendingStage # NoStage /\ stageStatus[pendingStage] \in Startable
             /\ gate = NoGate
    /\ ResumeTarget = "revising" => currentStage = NoStage
    /\ ResumeTarget \in {"blocked", "failed"} => Interrupted # NoStage
    /\ ResumeTarget # "validating"
    /\ status = "stopped" => ResumeTarget # "completed"
    /\ \A s \in Stages : stageStatus[s] = "running" => attempt[s] # 0

Turn == GateWhere /\ QueryWhere /\ StageWhere

LEMMA TurnInit == Init => Turn
BY DEF Init, Turn, GateWhere, QueryWhere, StageWhere, ResumeTarget, NoGate, NoQuery

LEMMA TurnKept ==
    ASSUME Turn, UNCHANGED <<stageVars, runVars, plan, plans>>
    PROVE  Turn'
<1>1. Ancestors(plan.id[1])' = Ancestors(plan.id[1])
  BY AncestorsOfDeps DEF stageVars
<1>2. ResumeTarget' = ResumeTarget /\ Interrupted' = Interrupted
  BY DEF ResumeTarget, Interrupted, runVars
<1>3. GateWhere'
  BY <1>1, <1>2 DEF Turn, GateWhere, StageDue, RollbackDue, stageVars, runVars
<1>4. QueryWhere' /\ StageWhere'
  BY <1>2 DEF Turn, QueryWhere, StageWhere, stageVars, runVars
<1> QED BY <1>3, <1>4 DEF Turn

(* A stage is sent back, by a revision, a rollback or a resume.            *)
LEMMA TurnGoesBack ==
    ASSUME status' = "revising", currentStage' = NoStage, gate' = NoGate, query' = NoQuery,
           pendingStage' # NoStage, stageStatus'[pendingStage'] \in Startable,
           NoneRuns'
    PROVE  Turn'
<1>1. ResumeTarget' = "revising" /\ gate'.type = "none"
  BY DEF ResumeTarget, NoGate
<1> QED BY <1>1 DEF Turn, GateWhere, QueryWhere, StageWhere, NoneRuns

(* A gate was answered, and no query is open.                              *)
LEMMA TurnProceeds ==
    ASSUME NEW ss, ss = stageStatus', Proceed(ss), gate' = NoGate, query' = NoQuery,
           NoneRuns'
    PROVE  Turn'
<1>1. ResumeTarget' = status' /\ status' \in {"running", "finalizing"} /\ gate'.type = "none"
  BY DEF ResumeTarget, Proceed, NextStatus, NoGate
<1>2. status' = "running" => pendingStage' # NoStage /\ stageStatus'[pendingStage'] \in Startable
  BY NextPendingType DEF Proceed, NextStatus
<1> QED BY <1>1, <1>2 DEF Turn, GateWhere, QueryWhere, StageWhere, NoneRuns


LEMMA SetRouteKeepsTurn ==
    ASSUME TypeOK, NEW r \in Routes, NEW reuse \in SUBSET Stages, SetRoute(r, reuse)
    PROVE  Turn'
<1>1. /\ ResumeTarget' = "awaiting_route_confirmation" /\ query' = NoQuery
      /\ gate'.type = "route" /\ gate'.rev = routeRevision'
  BY DEF SetRoute, ResumeTarget
<1>2. \A s \in Stages : stageStatus'[s] # "running"
  BY ConstantsOK DEF ConstantsOK, SetRoute, RoutePlan
<1> QED BY <1>1, <1>2 DEF SetRoute, Turn, GateWhere, QueryWhere, StageWhere

LEMMA ApproveRouteKeepsTurn == ASSUME Control, Turn, ApproveRoute PROVE Turn'
<1>1. NoneRuns'
  BY NoCurrentNoneRuns DEF ApproveRoute, CanApproveRoute, Control, Boundaries, ResumeTarget, NoneRuns,
     stageVars
<1>2. query' = NoQuery
  BY DEF ApproveRoute, CanApproveRoute, Turn, QueryWhere, ResumeTarget
<1>3. stageStatus' = stageStatus
  BY DEF ApproveRoute, stageVars
<1> QED BY <1>1, <1>2, <1>3, TurnProceeds DEF ApproveRoute

LEMMA ApproveStageKeepsTurn ==
    ASSUME TypeOK, Control, Turn, NEW s \in Stages, ApproveStage(s)
    PROVE  Turn'
<1>1. status = "awaiting_user_confirmation" /\ stageStatus' = [stageStatus EXCEPT ![s] = "approved"]
  BY DEF ApproveStage, CanApproveStage
<1>2. NoneRuns
  BY <1>1 DEF Control, Boundaries, ResumeTarget, NoneRuns
<1>3. NoneRuns'
  BY <1>1, <1>2 DEF TypeOK, StagesTyped, NoneRuns
<1>4. query' = NoQuery
  BY <1>1 DEF ApproveStage, Turn, QueryWhere, ResumeTarget
<1> QED BY <1>3, <1>4, TurnProceeds DEF ApproveStage

LEMMA StartStageKeepsTurn ==
    ASSUME TypeOK, NEW s \in Stages, NEW bundled \in BOOLEAN, StartStage(s, bundled)
    PROVE  Turn'
<1>1. /\ ResumeTarget' = "running" /\ status' = "running" /\ currentStage' # NoStage
      /\ gate'.type = "none" /\ query' = NoQuery
  BY StagesAreNat DEF StartStage, CanStart, ResumeTarget, NoGate
<1>2. \A q \in Stages : stageStatus'[q] = "running" => attempt'[q] # 0
  <2>1. \A q \in Stages : stageStatus[q] # "running" /\ attempt[q] \in Nat
    BY DEF StartStage, CanStart, TypeOK, StagesTyped
  <2>2. /\ stageStatus' = [stageStatus EXCEPT ![s] = "running"]
        /\ attempt' = [attempt EXCEPT ![s] = attempt[s] + 1]
    BY DEF StartStage
  <2> QED BY <2>1, <2>2 DEF TypeOK, StagesTyped
<1> QED BY <1>1, <1>2 DEF Turn, GateWhere, QueryWhere, StageWhere

(* What a recorded stage leaves: nobody runs, and no query is open.        *)
LEMMA AfterRecording ==
    ASSUME TypeOK, Control, NEW s \in Stages, Recording(s), NEW x \in StageStatuses \ {"running"},
           stageStatus' = [stageStatus EXCEPT ![s] = x]
    PROVE  /\ NoneRuns' /\ query = NoQuery /\ gate = NoGate /\ s # NoStage
           /\ currentStage = s /\ stageStatus[s] = "running" /\ stageStatus'[s] = x
<1>1. /\ stageStatus[s] = "running" /\ query = NoQuery /\ currentStage = s /\ s # NoStage
      /\ \A q \in Stages \ {s} : stageStatus[q] # "running"
  BY RecordingAlone
<1> QED BY <1>1 DEF Control, OneRunning, TypeOK, StagesTyped, NoneRuns

LEMMA RecordInvalidKeepsTurn ==
    ASSUME TypeOK, Control, NEW s \in Stages, RecordStageInvalid(s)
    PROVE  Turn'
<1>1. /\ Recording(s) /\ stageStatus' = [stageStatus EXCEPT ![s] = "failed"]
      /\ ResumeTarget' = "failed" /\ status' = "failed" /\ UNCHANGED <<currentStage, gate, query>>
  BY DEF RecordStageInvalid, ResumeTarget
<1>2. NoneRuns' /\ query = NoQuery /\ gate = NoGate /\ s # NoStage /\ currentStage = s
  BY <1>1, AfterRecording DEF StageStatuses
<1>3. Interrupted' # NoStage
  BY <1>1, <1>2 DEF Interrupted
<1> QED BY <1>1, <1>2, <1>3 DEF Turn, GateWhere, QueryWhere, StageWhere, NoneRuns, NoGate

LEMMA RecordPassKeepsTurn ==
    ASSUME TypeOK, Control, Turn, NEW s \in Stages, NEW c \in Content, RecordStagePass(s, c)
    PROVE  Turn'
<1>1. /\ Recording(s) /\ stageStatus' = [stageStatus EXCEPT ![s] = "awaiting_user_confirmation"]
      /\ ResumeTarget' = "awaiting_user_confirmation" /\ status' = "awaiting_user_confirmation"
      /\ gate' = [type |-> "stage", stage |-> s, rev |-> attempt[s]] /\ query' = query
      /\ artifact' = [artifact EXCEPT ![s] = attempt[s]]
      /\ verdict' = [verdict EXCEPT ![s] = "PASS"]
  BY DEF RecordStagePass, Recorded, ResumeTarget
<1>2. /\ NoneRuns' /\ query = NoQuery /\ stageStatus[s] = "running"
      /\ stageStatus'[s] = "awaiting_user_confirmation"
  BY <1>1, AfterRecording DEF StageStatuses
<1>3. StageDue(s)'
  <2>1. attempt[s] # 0
    BY <1>2 DEF Turn, StageWhere
  <2>2. artifact'[s] = attempt[s] /\ verdict'[s] = "PASS"
    BY <1>1 DEF TypeOK, StagesTyped
  <2> QED BY <1>1, <1>2, <2>1, <2>2 DEF StageDue
<1>4. gate'.type = "stage"
  BY <1>1
<1> QED BY <1>1, <1>2, <1>3, <1>4 DEF Turn, GateWhere, QueryWhere, StageWhere, NoneRuns

LEMMA RecordBlockedKeepsTurn ==
    ASSUME TypeOK, Control, NEW s \in Stages, NEW c \in Content, RecordStageBlocked(s, c)
    PROVE  Turn'
<1>1. /\ Recording(s) /\ stageStatus' = [stageStatus EXCEPT ![s] = "blocked"]
      /\ ResumeTarget' = "blocked" /\ status' = "blocked" /\ gate' = NoGate /\ query' = query
      /\ currentStage' = NoStage /\ pendingStage' = s
  BY DEF RecordStageBlocked, Recorded, ResumeTarget
<1>2. NoneRuns' /\ query = NoQuery /\ s # NoStage
  BY <1>1, AfterRecording DEF StageStatuses
<1>3. Interrupted' # NoStage
  BY <1>1, <1>2 DEF Interrupted
<1> QED BY <1>1, <1>2, <1>3 DEF Turn, GateWhere, QueryWhere, StageWhere, NoneRuns, NoGate

LEMMA RecordFailKeepsTurn ==
    ASSUME TypeOK, Control, NEW s \in Stages, NEW c \in Content, NEW t \in Stages,
           RecordStageFail(s, c, t)
    PROVE  Turn'
<1>1. /\ Recording(s) /\ stageStatus' = [stageStatus EXCEPT ![s] = "failed"]
      /\ ResumeTarget' = "failed" /\ status' = "failed" /\ query' = query
      /\ currentStage' = NoStage /\ pendingStage' = s /\ deps' = deps
      /\ artifact' = [artifact EXCEPT ![s] = attempt[s]]
  BY DEF RecordStageFail, Recorded, ResumeTarget
<1>2. NoneRuns' /\ query = NoQuery /\ s # NoStage
  BY <1>1, AfterRecording DEF StageStatuses
<1>3. Interrupted' # NoStage
  BY <1>1, <1>2 DEF Interrupted
<1>4. gate' = NoGate \/ RollbackDue'
  <2>1. CASE Role[s] # "review"
    BY <2>1 DEF RecordStageFail
  <2>2. CASE Role[s] = "review"
    <3>1. /\ t \in Ancestors(s)
          /\ plan' = [id |-> <<s, attempt[s]>>, target |-> t, art |-> artifact[t]]
          /\ plans' = Append(plans, <<s, attempt[s]>>)
          /\ gate' = [type |-> "rollback", stage |-> t, rev |-> attempt[s]]
      BY <2>2 DEF RecordStageFail
    <3>2. artifact'[t] = artifact[t]
      <4>1. t # s
        BY <3>1, AncestorsAre
      <4> QED BY <1>1, <4>1 DEF TypeOK, StagesTyped
    <3>3. plans' # <<>> /\ plans'[Len(plans')] = <<s, attempt[s]>>
      <4>1. plans \in Seq(Stages \X Nat) /\ <<s, attempt[s]>> \in Stages \X Nat
        BY DEF TypeOK, ReviewTyped, StagesTyped
      <4> QED BY <3>1, <4>1
    <3>4. t \in Ancestors(s)'
      BY <1>1, <3>1, AncestorsOfDeps
    <3>5. /\ plan'.id = <<s, attempt[s]>> /\ plan'.target = t /\ plan'.art = artifact[t]
          /\ plan'.id[1] = s /\ plan'.id[2] = attempt[s]
      BY <3>1
    <3> QED BY <3>1, <3>2, <3>3, <3>4, <3>5 DEF RollbackDue
  <2> QED BY <2>1, <2>2
<1>5. gate' = NoGate \/ gate'.type = "rollback"
  BY <1>4 DEF RollbackDue
<1>6. gate'.type = "rollback" => RollbackDue'
  BY <1>4 DEF NoGate
<1> QED BY <1>1, <1>2, <1>3, <1>5, <1>6 DEF Turn, GateWhere, QueryWhere, StageWhere, NoneRuns


LEMMA SentBackKeepsTurn ==
    ASSUME TypeOK, Control, NEW t \in Stages, ApproveRollback(t) \/ Revise(t)
    PROVE  Turn'
<1>1. /\ stageStatus' = SentBack(t) /\ status' = "revising" /\ currentStage' = NoStage
      /\ pendingStage' = t /\ gate' = NoGate /\ query' = NoQuery
  BY DEF ApproveRollback, Revise
<1>2. NoneRuns
  <2>1. CASE ApproveRollback(t)
    BY <2>1 DEF ApproveRollback, CanApproveRollback, Control, Boundaries, ResumeTarget, NoneRuns
  <2>2. CASE Revise(t)
    <3>1. status \in {"awaiting_user_confirmation", "awaiting_query_confirmation", "blocked",
                      "failed"} => NoneRuns
      BY DEF Control, Boundaries, ResumeTarget, NoneRuns
    <3> QED BY <2>2, <3>1 DEF Revise, CanRevise, NoneRuns
  <2> QED BY <2>1, <2>2
<1>3. NoneRuns' /\ stageStatus'[t] = "revising" /\ t # NoStage
  BY <1>1, <1>2, StagesAreNat DEF SentBack, NoneRuns
<1> QED BY <1>1, <1>3, TurnGoesBack DEF Startable

LEMMA StopKeepsTurn == ASSUME Turn, Stop PROVE Turn'
<1>1. /\ ResumeTarget' = status /\ status \notin {"completed", "validating"}
      /\ UNCHANGED <<deps, stageStatus, attempt, artifact, verdict, routeRevision, currentStage,
                     pendingStage, gate, query, plan, plans>>
  BY DEF Stop, ResumeTarget, stageVars, reviewVars, Turn, StageWhere
<1>2. Interrupted' = Interrupted /\ Ancestors(plan.id[1])' = Ancestors(plan.id[1])
  BY <1>1, AncestorsOfDeps DEF Interrupted
<1>3. gate'.type = "rollback" => RollbackDue'
  BY <1>1, <1>2 DEF Turn, GateWhere, RollbackDue
<1>4. CASE status = "stopped"
  BY <1>1, <1>3, <1>4 DEF Turn, GateWhere, QueryWhere, StageWhere
<1>5. CASE status # "stopped"
  <2>1. ResumeTarget' = ResumeTarget
    BY <1>1, <1>5 DEF ResumeTarget
  <2> QED BY <1>1, <1>2, <1>3, <2>1 DEF Turn, GateWhere, QueryWhere, StageWhere, StageDue
<1> QED BY <1>4, <1>5

LEMMA ResumeKeepsTurn == ASSUME TypeOK, Control, Turn, Resume PROVE Turn'
<1>1. /\ UNCHANGED <<deps, attempt, artifact, verdict, routeRevision, gate, query, plan, plans>>
      /\ ResumeTarget # "none" /\ resumeStatus' = "none" /\ status' = ResumedStatus
  BY DEF Resume, CanResume, reviewVars
<1>2. CASE GivesUp
  <2>1. /\ stageStatus' = [stageStatus EXCEPT ![Interrupted] = "revising"]
        /\ currentStage' = NoStage /\ pendingStage' = Interrupted /\ status' = "revising"
        /\ Interrupted # NoStage
    BY <1>2 DEF Resume, ResumedStatus, GivesUp
  <2>2. Interrupted \in Stages
    BY <1>2 DEF GivesUp, Interrupted, TypeOK, RunTyped
  <2>3. NoneRuns' /\ stageStatus'[Interrupted] = "revising"
    <3>1. \A q \in Stages : stageStatus[q] = "running" => q = Interrupted
      BY StagesAreNat DEF Control, OneRunning, Interrupted
    <3> QED BY <2>1, <2>2, <3>1 DEF TypeOK, StagesTyped, NoneRuns
  <2>4. gate = NoGate /\ query = NoQuery
    <3>1. CASE ResumeTarget \in {"blocked", "failed"}
      BY <1>2, <3>1 DEF GivesUp, Turn, GateWhere, QueryWhere
    <3>2. CASE ResumeTarget = "running"
      <4>1. currentStage # NoStage
        BY <1>2, <3>2 DEF GivesUp, Turn, StageWhere, Interrupted, Startable
      <4>2. stageStatus[currentStage] = "running" /\ currentStage \in Stages
        BY <3>2, <4>1 DEF Control, Boundaries, TypeOK, RunTyped
      <4> QED BY <4>2 DEF Control, OneRunning
    <3> QED BY <1>2, <3>1, <3>2 DEF GivesUp, Turn, StageWhere
  <2> QED BY <1>1, <2>1, <2>3, <2>4, TurnGoesBack DEF Startable
<1>3. CASE ~GivesUp
  <2>1. UNCHANGED <<stageStatus, currentStage, pendingStage>>
    BY <1>3 DEF Resume
  <2>2. Interrupted' = Interrupted /\ Ancestors(plan.id[1])' = Ancestors(plan.id[1])
    BY <1>1, <2>1, AncestorsOfDeps DEF Interrupted
  <2>3. ResumeTarget' = IF status' = "stopped" THEN "none" ELSE status'
    BY <1>1 DEF ResumeTarget
  <2>4. status' = IF Interrupted # NoStage /\ ResumeTarget = "blocked" THEN "failed"
                  ELSE IF ResumeTarget = "initialized" THEN "awaiting_route_confirmation"
                  ELSE ResumeTarget
    BY <1>1, <1>3 DEF ResumedStatus
  <2>5. gate'.type = "rollback" => RollbackDue'
    BY <1>1, <2>2 DEF Turn, GateWhere, RollbackDue
  <2> HIDE DEF ResumeTarget, Interrupted
  <2>6. CASE ResumeTarget = "stopped"
    <3>1. ResumeTarget' = "none"
      BY <2>3, <2>4, <2>6
    <3> QED BY <1>1, <2>1, <2>5, <2>6, <3>1 DEF Turn, GateWhere, QueryWhere, StageWhere
  <2>7. CASE ResumeTarget = "blocked" /\ Interrupted # NoStage
    <3>1. gate.type # "rollback"
      BY <2>7 DEF Control, Boundaries
    <3>2. ~GivesUp => FALSE
      BY <2>7, <3>1 DEF GivesUp
    <3> QED BY <1>3, <3>2
  <2>8. CASE ResumeTarget = "initialized"
    <3>1. ResumeTarget' = "awaiting_route_confirmation" /\ status' = "awaiting_route_confirmation"
      BY <2>3, <2>4, <2>8
    <3>2. routeRevision' = 0
      BY <1>1, <2>8 DEF Turn, GateWhere
    <3> QED BY <1>1, <2>1, <2>5, <2>8, <3>1, <3>2 DEF Turn, GateWhere, QueryWhere, StageWhere
  <2>9. CASE ResumeTarget' = ResumeTarget /\ status' # "stopped"
    BY <1>1, <2>1, <2>2, <2>5, <2>9 DEF Turn, GateWhere, QueryWhere, StageWhere, StageDue
  <2> QED BY <1>1, <2>3, <2>4, <2>6, <2>7, <2>8, <2>9
<1> QED BY <1>2, <1>3

(* A query is prepared, approved or done; the turn stays where it is.      *)
LEMMA QueryStepKeepsTurn ==
    ASSUME Turn, UNCHANGED <<stageVars, routeRevision, currentStage, pendingStage, gate, plan, plans>>,
           currentStage = NoStage, status \in {"running", "awaiting_query_confirmation"},
           \/ status' = "running" /\ query' = NoQuery
           \/ status' = "running" /\ query'.phase = "approved"
           \/ status' = "awaiting_query_confirmation" /\ query'.phase = "prepared"
    PROVE  Turn'
<1>1. ResumeTarget' = status' /\ ResumeTarget = status
  BY DEF ResumeTarget
<1>2. Ancestors(plan.id[1])' = Ancestors(plan.id[1])
  BY AncestorsOfDeps DEF stageVars
<1>3. GateWhere'
  BY <1>1, <1>2 DEF Turn, GateWhere, RollbackDue, stageVars
<1>4. QueryWhere'
  BY <1>1 DEF QueryWhere, NoQuery
<1>5. StageWhere'
  BY <1>1 DEF Turn, StageWhere, stageVars
<1> QED BY <1>3, <1>4, <1>5 DEF Turn

LEMMA QueryStepsKeepTurn ==
    ASSUME TypeOK, Control, Turn, PrepareQuery \/ ApproveQuery
    PROVE  Turn'
<1>1. CASE PrepareQuery
  <2>1. query'.phase = "prepared" /\ status' = "awaiting_query_confirmation"
    BY <1>1 DEF PrepareQuery
  <2> QED BY <1>1, <2>1, QueryStepKeepsTurn DEF PrepareQuery, CanPrepareQuery, reviewVars
<1>2. CASE ApproveQuery
  <2>1. query'.phase = "approved" /\ status' = "running"
    BY <1>2 DEF ApproveQuery, TypeOK, RunTyped
  <2>2. currentStage = NoStage
    BY <1>2, QueryOpen DEF ApproveQuery, CanApproveQuery, NoQuery
  <2> QED BY <1>2, <2>1, <2>2, QueryStepKeepsTurn DEF ApproveQuery, CanApproveQuery, reviewVars
<1> QED BY <1>1, <1>2

(* The result of a query is recorded while the run is where the query was  *)
(* approved.                                                               *)
LEMMA QueryDoneKeepsTurn ==
    ASSUME TypeOK, Control, Halted, Turn, lease.phase # "none", lease.work.kind = "query",
           CanMoveTo("running"), status' = "running", query' = NoQuery,
           UNCHANGED <<stageVars, routeRevision, currentStage, pendingStage, gate, plan, plans>>
    PROVE  Turn'
<1>1. query # NoQuery /\ query.phase = "approved" /\ currentStage = NoStage
  BY LeaseOfQuery
<1>2. lease # NoLease
  BY DEF NoLease
<1>3. status \notin {"stopped", "completed"}
  BY <1>2 DEF Halted
<1>4. ResumeTarget = status
  BY <1>3 DEF ResumeTarget
<1>5. status = "running"
  BY <1>1, <1>3, <1>4 DEF Turn, QueryWhere, TypeOK, RunTyped, Statuses
<1> QED BY <1>1, <1>5, QueryStepKeepsTurn

LEMMA LeaseStepsKeepTurn == ASSUME TypeOK, Control, Halted, Turn, LeaseSteps PROVE Turn'
<1>1. CASE Read \/ DropSnapshot \/ AbortLease \/ PublishReport
           \/ \E breaks \in BOOLEAN : PublishLineage(breaks)
  BY <1>1, TurnKept DEF Read, DropSnapshot, AbortLease, PublishReport, PublishLineage, reviewVars
<1>2. ASSUME NEW ended \in BOOLEAN, NEW staged \in BOOLEAN, BeginLease(ended, staged) PROVE Turn'
  BY <1>2, TurnKept DEF BeginLease, reviewVars
<1>3. ASSUME NEW moved \in BOOLEAN, PublishCrash(moved) PROVE Turn'
  BY <1>3, TurnKept DEF PublishCrash, reviewVars
<1>4. ASSUME NEW warns \in BOOLEAN, PublishQuery(warns) PROVE Turn'
  BY <1>4, QueryDoneKeepsTurn DEF PublishQuery, LeaseValid, reviewVars
<1>5. ASSUME NEW breaks \in BOOLEAN, NEW warns \in BOOLEAN,
             RecoverExecutions(breaks, warns) PROVE Turn'
  <2>1. CASE UNCHANGED runVars
    BY <1>5, <2>1, TurnKept DEF RecoverExecutions, reviewVars
  <2>2. CASE ~UNCHANGED runVars
    <3>1. /\ lease.phase = "publishing" /\ lease.work.kind = "query" /\ CanMoveTo("running")
          /\ status' = "running" /\ query' = IF query.rev = lease.work.rev THEN NoQuery ELSE query
          /\ UNCHANGED <<stageVars, routeRevision, currentStage, pendingStage, gate, plan, plans>>
      BY <1>5, <2>2 DEF RecoverExecutions, reviewVars, runVars
    <3>2. query' = NoQuery
      BY <3>1, LeaseOfQuery
    <3> QED BY <3>1, <3>2, QueryDoneKeepsTurn
  <2> QED BY <2>1, <2>2
<1> QED BY <1>1, <1>2, <1>3, <1>4, <1>5 DEF LeaseSteps


LEMMA TurnStep == TypeOK /\ Control /\ Halted /\ Turn /\ [Next]_vars => Turn'
<1> SUFFICES ASSUME TypeOK, Control, Halted, Turn, [Next]_vars PROVE Turn'
  OBVIOUS
<1>1. CASE RouteSteps
  <2>1. ASSUME NEW r \in Routes, NEW reuse \in SUBSET Stages, SetRouteCrash(r, reuse) PROVE Turn'
    BY <2>1, TurnKept DEF SetRouteCrash, reviewVars
  <2> QED BY <1>1, <2>1, SetRouteKeepsTurn, ApproveRouteKeepsTurn DEF RouteSteps
<1>2. CASE StageSteps
  <2> SUFFICES ASSUME NEW s \in Stages,
                      \/ \E bundled \in BOOLEAN : StartStage(s, bundled)
                      \/ StartStageCrash(s)
                      \/ RecordStageInvalid(s)
                      \/ \E c \in Content :
                           \/ RecordStagePass(s, c)
                           \/ RecordStageBlocked(s, c)
                           \/ \E t \in Stages : RecordStageFail(s, c, t)
                      \/ \E t \in Stages : RecordStageCrash(s, t)
                      \/ ApproveStage(s) \/ ApproveRollback(s) \/ Revise(s)
               PROVE  Turn'
    BY <1>2, ContentOfOutput DEF StageSteps
  <2>1. CASE StartStageCrash(s)
    BY <2>1, TurnKept DEF StartStageCrash, reviewVars
  <2>2. ASSUME NEW t \in Stages, RecordStageCrash(s, t) PROVE Turn'
    <3>1. gate = NoGate /\ UNCHANGED <<stageVars, runVars, plans>>
      BY <2>2, RecordingAlone DEF RecordStageCrash, Control, OneRunning
    <3>2. ResumeTarget' = ResumeTarget /\ Interrupted' = Interrupted
      BY <3>1 DEF ResumeTarget, Interrupted, runVars
    <3> QED BY <3>1, <3>2 DEF Turn, GateWhere, QueryWhere, StageWhere, StageDue, NoGate, stageVars,
            runVars
  <2> QED BY <2>1, <2>2, StartStageKeepsTurn, RecordInvalidKeepsTurn, RecordPassKeepsTurn,
          RecordBlockedKeepsTurn, RecordFailKeepsTurn, ApproveStageKeepsTurn, SentBackKeepsTurn
<1>3. CASE RecordReceipt
  <2>1. ResumeTarget' = ResumeTarget /\ Interrupted' = Interrupted
        /\ Ancestors(plan.id[1])' = Ancestors(plan.id[1])
        /\ UNCHANGED <<stageStatus, attempt, artifact, verdict, runVars, plan, plans>>
    BY <1>3, AncestorsOfDeps DEF RecordReceipt, ResumeTarget, Interrupted, runVars, reviewVars
  <2> QED BY <2>1 DEF Turn, GateWhere, QueryWhere, StageWhere, StageDue, RollbackDue, runVars
<1>4. CASE QuerySteps
  <2>1. CASE PrepareQueryCrash
    BY <2>1, TurnKept DEF PrepareQueryCrash, reviewVars
  <2> QED BY <1>4, <2>1, QueryStepsKeepTurn DEF QuerySteps
<1>5. CASE Finalize
  <2>1. ResumeTarget' = "completed" /\ status' = "completed" /\ ResumeTarget = "finalizing"
    BY <1>5 DEF Finalize, CanFinalize, ResumeTarget
  <2>2. UNCHANGED <<stageStatus, attempt, gate, query>> /\ query = NoQuery /\ gate.type # "rollback"
    BY <1>5, <2>1 DEF Finalize, stageVars, Turn, QueryWhere, Control, Boundaries
  <2> QED BY <2>1, <2>2 DEF Turn, GateWhere, QueryWhere, StageWhere
<1>6. CASE UNCHANGED vars \/ \E X \in AgentUpdates : UpdateAgents(X)
  BY <1>6, TurnKept DEF vars, UpdateAgents, reviewVars
<1> QED BY <1>1, <1>2, <1>3, <1>4, <1>5, <1>6, LeaseStepsKeepTurn, StopKeepsTurn, ResumeKeepsTurn
        DEF Next

LEMMA TurnAlways == Spec => []Turn
BY TurnInit, TurnStep, TypeCorrect, ControlAlways, HaltedAlways, PTL DEF Spec

-----------------------------------------------------------------------------
(* What the audit of a run looks at.                                       *)
(*                                                                         *)
(* Most of what the audit demands of a recorded output holds whatever      *)
(* happened since: a stage was given inputs of its dependencies only, a    *)
(* lease executes in a directory of its own, and the directory of a query  *)
(* that was never executed is free unless a publisher died.                *)

InputsGiven == \A s, d \in Stages : inputHashes[s][d] # 0 => d \in deps[s]

LeaseStaged == lease.phase = "executing" => lease.staged

QueryDirs ==
    /\ \A n \in Nat : <<NoStage, n>> \in disk.outputs => n <= queryRev
    /\ crashes = 0 /\ query # NoQuery => <<NoStage, query.rev>> \notin disk.outputs

AuditInv == InputsGiven /\ LeaseStaged /\ QueryDirs

LEMMA AuditInit == Init => AuditInv
BY DEF Init, AuditInv, InputsGiven, LeaseStaged, QueryDirs, NoLease

LEMMA InputsGivenStep == TypeOK /\ InputsGiven /\ [Next]_vars => InputsGiven'
<1> SUFFICES ASSUME TypeOK, InputsGiven, [Next]_vars PROVE InputsGiven'
  OBVIOUS
<1>1. ASSUME UNCHANGED <<deps, inputHashes>> PROVE InputsGiven'
  BY <1>1 DEF InputsGiven
<1>2. ASSUME NEW r \in Routes, NEW reuse \in SUBSET Stages, SetRoute(r, reuse)
      PROVE  InputsGiven'
  <2>1. /\ deps' = r.deps /\ \A s \in reuse : deps[s] = r.deps[s]
        /\ inputHashes' = [s \in Stages |-> IF s \in reuse THEN inputHashes[s]
                                             ELSE [d \in Stages |-> 0]]
    BY <1>2 DEF SetRoute, CanSetRoute, CanReuse
  <2> QED BY <2>1 DEF InputsGiven
<1>3. ASSUME NEW s \in Stages, NEW bundled \in BOOLEAN, StartStage(s, bundled)
      PROVE  InputsGiven'
  <2>1. deps' = deps /\ inputHashes' = [inputHashes EXCEPT ![s] =
                           [d \in Stages |-> IF d \in deps[s] THEN artifact[d] ELSE 0]]
    BY <1>3 DEF StartStage
  <2> QED BY <2>1 DEF InputsGiven, TypeOK, StagesTyped
<1>4. CASE RouteSteps
  <2>1. ASSUME NEW r \in Routes, NEW reuse \in SUBSET Stages, SetRouteCrash(r, reuse)
        PROVE  InputsGiven'
    BY <1>1, <2>1 DEF SetRouteCrash, stageVars
  <2>2. ASSUME ApproveRoute PROVE InputsGiven'
    BY <1>1, <2>2 DEF ApproveRoute, stageVars
  <2> QED BY <1>2, <1>4, <2>1, <2>2 DEF RouteSteps
<1>5. CASE StageSteps
  <2> SUFFICES ASSUME NEW s \in Stages,
                      \/ StartStageCrash(s)
                      \/ RecordStageInvalid(s)
                      \/ \E c \in Content :
                           \/ RecordStagePass(s, c)
                           \/ RecordStageBlocked(s, c)
                           \/ \E t \in Stages : RecordStageFail(s, c, t)
                      \/ \E t \in Stages : RecordStageCrash(s, t)
                      \/ ApproveStage(s) \/ ApproveRollback(s) \/ Revise(s)
               PROVE  InputsGiven'
    BY <1>3, <1>5, ContentOfOutput DEF StageSteps
  <2>1. UNCHANGED <<deps, inputHashes>>
    BY DEF StartStageCrash, RecordStageInvalid, RecordStagePass, RecordStageBlocked,
       RecordStageFail, Recorded, RecordStageCrash, ApproveStage, ApproveRollback, Revise,
       stageVars
  <2> QED BY <1>1, <2>1
<1>6. CASE \/ RecordReceipt \/ QuerySteps \/ Stop \/ Resume \/ Finalize \/ UNCHANGED vars
           \/ \E X \in AgentUpdates : UpdateAgents(X)
  BY <1>1, <1>6 DEF RecordReceipt, QuerySteps, PrepareQuery, PrepareQueryCrash, ApproveQuery,
     Stop, Resume, Finalize, UpdateAgents, vars, stageVars
<1>7. CASE LeaseSteps
  BY <1>1, <1>7 DEF LeaseSteps, Read, DropSnapshot, AbortLease, BeginLease, PublishQuery,
     PublishReport, PublishLineage, RecoverExecutions, PublishCrash, stageVars
<1> QED BY <1>4, <1>5, <1>6, <1>7 DEF Next

LEMMA LeaseStagedStep == TypeOK /\ LeaseStaged /\ [Next]_vars => LeaseStaged'
<1> SUFFICES ASSUME TypeOK, LeaseStaged, [Next]_vars PROVE LeaseStaged'
  OBVIOUS
<1>1. ASSUME lease' \in {lease, NoLease} PROVE LeaseStaged'
  BY <1>1 DEF LeaseStaged, NoLease
<1>2. CASE ~LeaseSteps
  BY <1>1, <1>2, CommandsApart DEF Apart
<1>3. ASSUME NEW ended \in BOOLEAN, NEW staged \in BOOLEAN, BeginLease(ended, staged)
      PROVE  LeaseStaged'
  BY <1>3 DEF BeginLease, LeaseStaged
<1>4. ASSUME NEW moved \in BOOLEAN, PublishCrash(moved) PROVE LeaseStaged'
  BY <1>4 DEF PublishCrash, LeaseStaged, TypeOK, LeaseTyped
<1>5. ASSUME \/ Read \/ DropSnapshot \/ AbortLease \/ PublishReport
             \/ \E breaks \in BOOLEAN : PublishLineage(breaks)
             \/ \E warns \in BOOLEAN : PublishQuery(warns)
             \/ \E breaks, warns \in BOOLEAN : RecoverExecutions(breaks, warns)
      PROVE  LeaseStaged'
  BY <1>1, <1>5 DEF Read, DropSnapshot, AbortLease, PublishReport, PublishLineage, PublishQuery,
     RecoverExecutions
<1> QED BY <1>2, <1>3, <1>4, <1>5 DEF LeaseSteps

(* The request only changes where one is made, approved or withdrawn.      *)
LEMMA RequestKept ==
    ASSUME [Next]_vars, ~LeaseSteps, ~PrepareQuery, ~ApproveQuery
    PROVE  queryRev' = queryRev /\ query' \in {query, NoQuery}
<1>1. CASE RouteSteps
  BY <1>1 DEF RouteSteps, SetRoute, SetRouteCrash, ApproveRoute, runVars
<1>2. CASE StageSteps
  <2> SUFFICES ASSUME NEW s \in Stages,
                      \/ \E bundled \in BOOLEAN : StartStage(s, bundled)
                      \/ StartStageCrash(s)
                      \/ RecordStageInvalid(s)
                      \/ \E c \in Content :
                           \/ RecordStagePass(s, c)
                           \/ RecordStageBlocked(s, c)
                           \/ \E t \in Stages : RecordStageFail(s, c, t)
                      \/ \E t \in Stages : RecordStageCrash(s, t)
                      \/ ApproveStage(s) \/ ApproveRollback(s) \/ Revise(s)
               PROVE  queryRev' = queryRev /\ query' \in {query, NoQuery}
    BY <1>2, ContentOfOutput DEF StageSteps
  <2> QED BY DEF StartStage, StartStageCrash, RecordStageInvalid, RecordStagePass,
          RecordStageBlocked, RecordStageFail, Recorded, RecordStageCrash, ApproveStage,
          ApproveRollback, Revise, runVars
<1>3. CASE \/ RecordReceipt \/ QuerySteps \/ Stop \/ Resume \/ Finalize \/ UNCHANGED vars
           \/ \E X \in AgentUpdates : UpdateAgents(X)
  BY <1>3 DEF RecordReceipt, QuerySteps, PrepareQueryCrash, Stop, Resume, Finalize, UpdateAgents,
     vars, runVars
<1> QED BY <1>1, <1>2, <1>3 DEF Next

LEMMA QueryDirsKept ==
    ASSUME TypeOK, QueryDirs, crashes' \in {crashes, crashes + 1}, queryRev' = queryRev,
           query' # NoQuery => query # NoQuery /\ query'.rev = query.rev,
           \A n \in Nat : <<NoStage, n>> \in disk'.outputs => <<NoStage, n>> \in disk.outputs
    PROVE  QueryDirs'
<1>1. query.rev \in Nat /\ crashes \in Nat
  BY DEF TypeOK, RunTyped, DiskTyped
<1> QED BY <1>1 DEF QueryDirs

(* A query publishes into the directory of its request, and withdraws the  *)
(* request unless it dies.                                                 *)
LEMMA QueryDirsStep == TypeOK /\ QueryBound /\ QueryDirs /\ [Next]_vars => QueryDirs'
<1> SUFFICES ASSUME TypeOK, QueryBound, QueryDirs, [Next]_vars PROVE QueryDirs'
  OBVIOUS
<1>1. /\ crashes \in Nat /\ queryRev \in Nat /\ query.rev \in Nat
      /\ query \in [phase : {"none", "prepared", "approved"}, rev : Nat, sql : SUBSET Pairs]
      /\ query # NoQuery => query.rev <= queryRev
      /\ disk \in [routeFile : BOOLEAN,
                   inputs : [missing : BOOLEAN, query : SUBSET Nat, lineage : SUBSET Nat],
                   attemptDir : [Stages -> Nat], queryDir : Nat,
                   outputs : SUBSET ((Stages \cup {NoStage}) \X Nat), agents : SUBSET Roles]
  BY DEF TypeOK, DiskTyped, RunTyped, QueryBound, RequestBound
<1>2. ASSUME PrepareQuery PROVE QueryDirs'
  <2>1. /\ queryRev' = queryRev + 1 /\ query'.rev = queryRev + 1
        /\ disk'.outputs = disk.outputs /\ crashes' = crashes
    BY <1>1, <1>2 DEF PrepareQuery
  <2> QED BY <1>1, <2>1 DEF QueryDirs
<1>3. ASSUME ApproveQuery PROVE QueryDirs'
  <2>1. /\ query'.rev = query.rev /\ query # NoQuery /\ queryRev' = queryRev
        /\ disk' = disk /\ crashes' = crashes
    BY <1>1, <1>3 DEF ApproveQuery, CanApproveQuery, NoQuery, diskVars
  <2> QED BY <2>1, QueryDirsKept
<1>4. CASE ~LeaseSteps /\ ~PrepareQuery /\ ~ApproveQuery
  BY <1>4, CommandsApart, RequestKept, QueryDirsKept DEF Apart
<1>5. ASSUME \/ Read \/ DropSnapshot \/ AbortLease
             \/ \E ended, staged \in BOOLEAN : BeginLease(ended, staged)
             \/ \E breaks \in BOOLEAN : PublishLineage(breaks)
      PROVE  QueryDirs'
  BY <1>1, <1>5, QueryDirsKept DEF Read, DropSnapshot, AbortLease, BeginLease, PublishLineage,
     Dies, runVars, diskVars
<1>6. ASSUME \E breaks, warns \in BOOLEAN : RecoverExecutions(breaks, warns) PROVE QueryDirs'
  <2>1. query' \in {query, NoQuery} /\ queryRev' = queryRev /\ UNCHANGED diskVars
    BY <1>6 DEF RecoverExecutions, runVars
  <2> QED BY <2>1, QueryDirsKept DEF diskVars
<1>7. ASSUME LeaseValid
      PROVE  \A n \in Nat : <<NoStage, n>> \in Output => n <= queryRev
  <2> SUFFICES ASSUME NEW n \in Nat, <<NoStage, n>> \in Output PROVE n <= queryRev
    OBVIOUS
  <2>1. lease.work.pairs \subseteq Pairs
    BY DEF TypeOK, LeaseTyped, Works
  <2>2. lease.work.kind # "final_report"
    BY <2>1, StagesAreNat DEF Output, Pairs
  <2>3. lease.work.kind = "query" /\ n = lease.work.rev
    BY <2>2 DEF Output
  <2>4. query # NoQuery /\ query.rev = lease.work.rev
    BY <1>7, <2>3 DEF LeaseValid, QueryStillApproved, NoQuery
  <2> QED BY <1>1, <2>3, <2>4
<1>8. ASSUME PublishReport PROVE QueryDirs'
  <2>1. lease.work.pairs \subseteq Pairs
    BY DEF TypeOK, LeaseTyped, Works
  <2>2. \A n \in Nat : <<NoStage, n>> \notin Output
    BY <1>8, <2>1, StagesAreNat DEF PublishReport, Output, Pairs
  <2>3. disk'.outputs = disk.outputs \cup Output /\ crashes' = crashes /\ UNCHANGED runVars
    BY <1>1, <1>8 DEF PublishReport
  <2> QED BY <2>2, <2>3, QueryDirsKept DEF runVars
<1>9. ASSUME NEW warns \in BOOLEAN, PublishQuery(warns) PROVE QueryDirs'
  <2>1. disk'.outputs = disk.outputs \cup Output /\ query' = NoQuery /\ queryRev' = queryRev
        /\ LeaseValid
    BY <1>1, <1>9 DEF PublishQuery
  <2> QED BY <1>7, <2>1 DEF QueryDirs
<1>10. ASSUME NEW moved \in BOOLEAN, PublishCrash(moved) PROVE QueryDirs'
  <2>1. /\ disk'.outputs \subseteq disk.outputs \cup Output /\ queryRev' = queryRev
        /\ crashes' # 0 /\ LeaseValid
    BY <1>1, <1>10 DEF PublishCrash, Dies, runVars
  <2> QED BY <1>7, <2>1 DEF QueryDirs
<1> QED BY <1>2, <1>3, <1>4, <1>5, <1>6, <1>8, <1>9, <1>10 DEF LeaseSteps

LEMMA AuditAlways == Spec => []AuditInv
<1>1. TypeOK /\ QueryBound /\ AuditInv /\ [Next]_vars => AuditInv'
  BY InputsGivenStep, LeaseStagedStep, QueryDirsStep DEF AuditInv
<1> QED BY <1>1, AuditInit, QueryBoundInit, QueryBoundStep, TypeCorrect, ControlAlways, PTL DEF Spec

(* The audit fails only where the run is held for it.                      *)
LEMMA AuditPasses ==
    ASSUME TypeOK, Control, ReviewInv, AuditInv, disk.routeFile, ~AuditHeld
    PROVE  AuditClean
<1>1. \A i \in 1..Len(plans) : plans[i] = plan.id
  BY DEF AuditHeld
<1>2. lease.phase \in {"prepared", "executing"} => lease.staged
  BY DEF AuditHeld, AuditInv, LeaseStaged
<1>3. \A p \in approved : stageStatus[p[1]] # "absent" /\ p[2] = artifact[p[1]]
  BY DEF Control, ApprovalsExact, Pair
<1>4. ASSUME NEW s \in Stages, stageStatus[s] \in {"approved", "awaiting_user_confirmation"}
      PROVE  ContextOK(s, says[s])
  <2>1. InputsCurrent(s)
    BY <1>4 DEF InputsCurrent, AuditInv, InputsGiven, Control, InputsApproved, Live
  <2>2. MetricsKnown(s, says[s]) /\ WarningsRepeated(s, says[s])
    BY <1>4 DEF AuditHeld, WarningsRepeated
  <2>3. ResultsKnown(s, says[s])
    BY <1>4 DEF AuditHeld, ResultsKnown, ActiveQueries
  <2>4. Role[s] = "review" => ReviewBound(s) /\ LineageDeclared(says[s].breaks)
    <3>1. Role[s] = "review" => BundledFor(s) /\ bundle.route = routeRevision
      BY <1>4 DEF AuditHeld, ReviewInv, ReviewBundled, Shown
    <3>2. bundle \in [stage : Stages \cup {NoStage}, attempt : Nat, route : Nat,
                     inputs : SUBSET Pairs]
      BY DEF TypeOK, ReviewTyped
    <3> QED BY <1>4, <3>1, <3>2 DEF BundledFor, ReviewBound, AuditHeld
  <2>5. Role[s] = "report" => \E v \in ApprovedOf("review") : verdict[v] = "PASS"
    BY <1>4 DEF ReviewInv, ReportBacked, Live, PassingReviews
  <2> QED BY <2>1, <2>2, <2>3, <2>4, <2>5 DEF ContextOK
<1> QED BY <1>1, <1>2, <1>3, <1>4 DEF AuditClean

-----------------------------------------------------------------------------
(* The next command.                                                       *)

(* A route can be executed where it is not held.                           *)
LEMMA RouteReady == ASSUME ~RouteHeld PROVE RouteExecutable
BY DEF RouteHeld, RouteExecutable, ActiveQueries, LineageIds

(* A Report whose dependencies are approved has its Review.                *)
LEMMA ReviewReady ==
    ASSUME TypeOK, Control, ReviewInv, NEW s \in Stages, Role[s] = "report",
           stageStatus[s] # "absent", \A d \in deps[s] : stageStatus[d] = "approved"
    PROVE  Ancestors(s) \cap PassingReviews # {}
<1> DEFINE X == {q \in Stages \ {s} : stageStatus[q] # "approved"}
<1>1. PICK v \in Ancestors(s) : Role[v] = "review" /\ stageStatus[v] \notin {"absent", "skipped"}
  BY DEF ReviewInv, ReviewRouted
<1>2. v \in Stages \ {s} /\ s \in Descendants(v)
  BY AncestorsAre
<1>3. Closed(deps, X)
  <2> SUFFICES ASSUME NEW q \in Stages, NEW d \in deps[q], d \in X PROVE q \in X
    BY DEF Closed
  <2>1. stageStatus[q] # "approved"
    BY DEF Control, InputsApproved, Live
  <2> QED BY <2>1
<1>4. stageStatus[v] = "approved"
  <2> SUFFICES ASSUME v \in X PROVE FALSE
    BY <1>2
  <2>1. X \in SUBSET Stages
    OBVIOUS
  <2>2. s \in X
    BY <1>2, <1>3, <2>1 DEF Descendants, DescendantsIn
  <2> QED BY <2>2
<1>5. v \in PassingReviews
  BY <1>1, <1>2, <1>4, PassingReviewsAre DEF Control, ApprovalsExact
<1> QED BY <1>5

(* The stage that waits can be started.                                    *)
LEMMA StartDue ==
    ASSUME TypeOK, Control, ReviewInv, Turn, ~Held, status \in {"running", "revising"},
           currentStage = NoStage, query = NoQuery,
           pendingStage # NoStage => attempt[pendingStage] < MaxAttempt
    PROVE  Onward
<1>1. /\ pendingStage # NoStage /\ stageStatus[pendingStage] \in Startable /\ gate = NoGate
      /\ attempt[pendingStage] < MaxAttempt
  BY DEF Turn, StageWhere, ResumeTarget
<1>2. pendingStage \in Stages /\ deps[pendingStage] \subseteq Stages
  BY <1>1 DEF TypeOK, RunTyped, StagesTyped
<1>3. ~StageMayNotStart(pendingStage) /\ RouteExecutable
  BY <1>1, RouteReady DEF Held, StageMayNotStart
<1>4. \A d \in deps[pendingStage] : stageStatus[d] = "approved" /\ artifact[d] # 0 /\ Pair(d) \in approved
  BY <1>2, <1>3 DEF StageMayNotStart, Control, ApprovalsExact
<1>5. \A t \in Stages : stageStatus[t] # "running"
  BY NoCurrentNoneRuns DEF Control, NoneRuns
<1>7. Role[pendingStage] = "report" => Ancestors(pendingStage) \cap PassingReviews # {}
  BY <1>1, <1>2, <1>4, ReviewReady DEF Startable
<1>6. CanStart(pendingStage)
  BY <1>1, <1>3, <1>4, <1>5, <1>7 DEF CanStart, StageMayNotStart
<1> QED BY <1>2, <1>6 DEF Onward

(* A blocked or failed stage is gone back to, after a rollback if one is   *)
(* due.                                                                    *)
LEMMA ReturnDue ==
    ASSUME TypeOK, Control, ReviewInv, AuditInv, Turn, ~Held, status \in {"blocked", "failed"}
    PROVE  Onward
<1>1. /\ ResumeTarget = status /\ Interrupted # NoStage /\ AuditClean
      /\ gate = NoGate \/ gate.type = "rollback"
  BY AuditPasses DEF ResumeTarget, Turn, StageWhere, GateWhere, Held
<1>2. CASE gate.type # "rollback"
  <2>1. GivesUp /\ ResumedStatus = "revising"
    BY <1>1, <1>2 DEF GivesUp, ResumedStatus
  <2>2. CanMoveTo("revising")
    BY DEF CanMoveTo, AllowedTransitions
  <2> QED BY <1>1, <2>1, <2>2 DEF Onward, CanResume
<1>3. CASE gate.type = "rollback"
  <2>1. RollbackDue /\ status = "failed"
    BY <1>1, <1>3 DEF Turn, GateWhere, Control, Boundaries
  <2>2. plan.target \in Stages
    BY <2>1, AncestorsAre DEF RollbackDue
  <2> QED BY <2>1, <2>2 DEF Onward, CanApproveRollback, RollbackDue
<1> QED BY <1>2, <1>3

LEMMA ResumeDue ==
    ASSUME TypeOK, Control, ReviewInv, AuditInv, Turn, ~Held, status = "stopped"
    PROVE  Onward
<1>1. /\ ResumeTarget = resumeStatus /\ resumeStatus \notin {"stopped", "none", "validating", "completed"}
      /\ AuditClean /\ resumeStatus \in Statuses
  BY AuditPasses DEF ResumeTarget, Held, Turn, StageWhere, TypeOK, RunTyped
<1>2. ResumedStatus \in {"awaiting_route_confirmation", "awaiting_user_confirmation",
                         "awaiting_query_confirmation", "revising", "running", "blocked",
                         "failed", "finalizing"}
  BY <1>1 DEF ResumedStatus, Statuses
<1>3. CanMoveTo(ResumedStatus) /\ ResumedStatus # status
  BY <1>2 DEF CanMoveTo, AllowedTransitions
<1> QED BY <1>1, <1>3 DEF Onward, CanResume

(* A run at its end can be finalized when there is nothing left to build.  *)
LEMMA FinalizeDue ==
    ASSUME TypeOK, Control, ReviewInv, AuditInv, EndInv, ~Held, ~NoWayToEnd, ~EndHeld,
           ~BuildersTurn, status = "finalizing"
    PROVE  CanFinalize
<1>1. \A s \in InRoute : stageStatus[s] \in {"approved", "skipped"}
  BY DEF NoWayToEnd
<1>2. \A s \in Stages : stageStatus[s] = "approved" =>
         artifact[s] # 0 /\ verdict[s] = "PASS" /\ Pair(s) \in approved
  BY DEF Control, ApprovalsExact
<1>3. \A s, t \in InRoute : Role[s] = Role[t] => s = t
  BY DEF ReviewInv, OneOfARole
<1>4. Cardinality(PassingReviews) = 1
  <2>1. PICK v \in InRoute : Role[v] = "review" /\ stageStatus[v] # "skipped"
    BY DEF NoWayToEnd
  <2>2. v \in PassingReviews
    BY <1>1, <1>2, <2>1, PassingReviewsAre DEF InRoute
  <2>3. PassingReviews = {v}
    BY <1>3, <2>1, <2>2, PassingReviewsAre DEF InRoute
  <2> QED BY <2>3, FS_Singleton
<1>5. ASSUME NEW s \in Stages, Role[s] = "report", stageStatus[s] \notin {"absent", "skipped"}
      PROVE  Cardinality(ApprovedOf("report")) = 1
  <2>1. s \in ApprovedOf("report")
    BY <1>1, <1>2, <1>5 DEF InRoute, ApprovedOf
  <2>2. ApprovedOf("report") = {s}
    BY <1>3, <1>5, <2>1 DEF InRoute, ApprovedOf
  <2> QED BY <2>2, FS_Singleton
<1>6. LineageReady /\ lease = NoLease
      /\ (ApprovedOf("report") # {} => ~(results.final = {} /\ Bound \cap disk.outputs = {}))
  BY DEF BuildersTurn
<1>7. \/ results.final = {} /\ Bound \cap disk.outputs = {}
      \/ \E f \in results.final : results.final = {f} /\ f.pairs = Bound
  BY FinalizingEnds DEF FinalizingCanEnd
<1>8. ReportReady
  <2>1. CASE ApprovedOf("report") = {}
    <3>1. OfReport(Bound) = {}
      <4> SUFFICES ASSUME NEW s \in PassingReviews, Role[Pair(s)[1]] = "report" PROVE FALSE
        BY <2>1 DEF OfReport, Bound
      <4> QED BY PassingReviewsAre DEF Pair
    <3>2. \A f \in results.final : OfReport(f.pairs) # {}
      <4>1. \A f \in results.final : f.pairs \in FinalWork
        BY DEF FinalWork
      <4> QED BY <4>1 DEF EndInv, OneReport
    <3> QED BY <1>7, <2>1, <3>1, <3>2 DEF ReportReady
  <2>2. CASE ApprovedOf("report") # {}
    BY <1>6, <1>7, <2>2 DEF ReportReady, Bound, NoWayToEnd
  <2> QED BY <2>1, <2>2
<1>9. AuditClean
  BY AuditPasses DEF Held
<1> QED BY <1>1, <1>4, <1>5, <1>6, <1>8, <1>9 DEF CanFinalize

(* A run never stands still but where it is held: whatever was revised,    *)
(* rolled back, blocked, failed, stopped and resumed, and wherever a       *)
(* process died, there is a next command that is not another revision or   *)
(* route, or a builder has the turn, so that no sequence of legal commands *)
(* loses it (start_stage, approve, resume, finalize_run).                  *)
THEOREM RunsGoOn == Spec => []OnlyKnownStops
<1>1. ASSUME TypeOK, Control, ReviewInv, AuditInv, EndInv, Turn,
             status # "completed", routeRevision > 0,
             pendingStage # NoStage => attempt[pendingStage] < MaxAttempt,
             ~BuildersTurn, ~Held, ~(status = "finalizing" /\ (NoWayToEnd \/ EndHeld))
      PROVE  Onward
  <2>1. status \in Statuses /\ routeRevision # 0
    BY <1>1 DEF TypeOK, RunTyped
  <2>2. CASE status = "awaiting_route_confirmation"
    <3>1. gate.type = "route" /\ gate.rev = routeRevision /\ RouteExecutable
      BY <1>1, <2>1, <2>2, RouteReady DEF Turn, GateWhere, ResumeTarget, Held
    <3>2. CanMoveTo(NextStatus(stageStatus))
      BY <2>2 DEF CanMoveTo, AllowedTransitions, NextStatus
    <3> QED BY <2>2, <3>1, <3>2 DEF Onward, CanApproveRoute
  <2>3. CASE status = "awaiting_user_confirmation"
    <3>1. PICK s \in Stages : StageDue(s)
      BY <1>1, <2>3 DEF Turn, GateWhere, ResumeTarget
    <3>2. CanMoveTo(NextStatus([stageStatus EXCEPT ![s] = "approved"]))
      BY <2>3 DEF CanMoveTo, AllowedTransitions, NextStatus
    <3> QED BY <2>3, <3>1, <3>2 DEF Onward, CanApproveStage, StageDue
  <2>4. CASE status = "awaiting_query_confirmation"
    BY <1>1, <2>4 DEF Turn, QueryWhere, ResumeTarget, Onward, CanApproveQuery
  <2>5. CASE status = "running" /\ currentStage # NoStage
    <3>1. currentStage \in Stages
      BY <1>1, <2>5 DEF TypeOK, RunTyped
    <3>2. Recording(currentStage)
      BY <2>5 DEF Recording, CanMoveTo, AllowedTransitions
    <3> QED BY <3>1, <3>2 DEF Onward
  <2>6. CASE status \in {"running", "revising"} /\ currentStage = NoStage
    <3>1. query = NoQuery
      <4> SUFFICES ASSUME query # NoQuery PROVE FALSE
        OBVIOUS
      <4>1. status = "running" /\ query.phase = "approved"
        BY <1>1, <2>6 DEF Turn, QueryWhere, ResumeTarget
      <4>2. ~QueryTaken
        BY <1>1, <4>1 DEF Held
      <4>3. crashes \in Nat /\ <<NoStage, query.rev>> \in disk.outputs
        BY <1>1, <4>1 DEF BuildersTurn, TypeOK, DiskTyped
      <4>4. crashes # 0
        BY <1>1, <4>3 DEF AuditInv, QueryDirs
      <4> QED BY <1>1, <4>1, <4>2, <4>3, <4>4 DEF QueryTaken, BuildersTurn
    <3> QED BY <1>1, <2>6, <3>1, StartDue
  <2>7. CASE status = "revising" /\ currentStage # NoStage
    BY <1>1, <2>7 DEF Turn, StageWhere, ResumeTarget
  <2>8. CASE status = "finalizing"
    BY <1>1, <2>8, FinalizeDue DEF Onward
  <2>9. CASE status \in {"initialized", "validating"}
    BY <1>1, <2>1, <2>9 DEF Turn, GateWhere, StageWhere, ResumeTarget
  <2> QED BY <1>1, <2>1, <2>2, <2>3, <2>4, <2>5, <2>6, <2>7, <2>8, <2>9, ReturnDue, ResumeDue
          DEF Statuses
<1>2. TypeOK /\ Control /\ ReviewInv /\ AuditInv /\ EndInv /\ Turn => OnlyKnownStops
  BY <1>1 DEF OnlyKnownStops
<1> QED BY <1>2, TypeCorrect, ControlAlways, ReviewAlways, AuditAlways, EndAlways, TurnAlways, PTL
=============================================================================
