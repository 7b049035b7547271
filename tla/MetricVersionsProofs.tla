----------------------- MODULE MetricVersionsProofs -------------------------
(***************************************************************************)
(* Theorems about MetricVersions, for any metrics, fields and bounds.      *)
(***************************************************************************)
EXTENDS MetricVersions, OrderFacts

-----------------------------------------------------------------------------
(* What the operators return.                                              *)

LEMMA OutputFacts ==
    ASSUME NEW d \in Outputs, NEW id \in DOMAIN d
    PROVE  /\ id \in Ids
           /\ d[id].version \in Nat
           /\ d[id].content \in Content
<1>1. PICK D \in SUBSET Ids : d \in [D -> [version : 1..MaxVersion, content : Content]]
  BY DEF Outputs, ListsOf
<1>2. d[id] \in [version : 1..MaxVersion, content : Content]
  BY <1>1
<1> QED BY <1>1, <1>2, ConstantsOK DEF ConstantsOK

(* The last appearance of a metric is one, and the last.                   *)
LEMMA LastAppearanceFacts ==
    ASSUME TypeOK, NEW id, Appearances(id) # {}
    PROVE  /\ LastAppearance(id) \in 1..Len(history)
           /\ id \in DOMAIN history[LastAppearance(id)]
           /\ \A j \in 1..Len(history) : id \in DOMAIN history[j] => j <= LastAppearance(id)
<1>1. Len(history) \in Nat /\ Appearances(id) \in SUBSET (0..Len(history))
  BY DEF TypeOK, Appearances
<1>2. \E i \in Appearances(id) : \A j \in Appearances(id) : j <= i
  BY <1>1, NatMaximum
<1>3. /\ LastAppearance(id) \in Appearances(id)
      /\ \A j \in Appearances(id) : j <= LastAppearance(id)
  BY <1>2 DEF LastAppearance
<1> QED BY <1>3 DEF Appearances

(* A step that records nothing, and one that records d.                    *)
LEMMA HistoryStep ==
    ASSUME TypeOK, [Next]_vars
    PROVE  \/ history' = history
           \/ \E d \in Outputs : Fits(d) /\ history' = Append(history, d)
<1>1. CASE UNCHANGED vars
  BY <1>1 DEF vars
<1>2. ASSUME NEW d \in Outputs, NEW o \in {"PASS", "BLOCKED", "FAIL"}, RecordStage(d, o)
      PROVE  Fits(d) /\ history' = Append(history, d)
  BY <1>2 DEF RecordStage
<1>3. CASE \/ StartStage \/ Approve \/ Resume \/ Revise \/ ReviseOther \/ SetRoute
           \/ \E d \in Outputs : RecordInvalid(d)
           \/ \E f \in EditIds : EditCrash(f)
  BY <1>3 DEF StartStage, Approve, Resume, Revise, ReviseOther, SetRoute, RecordInvalid, EditCrash
<1>4. ASSUME NEW e, NEW f, Register(e, f)
      PROVE  history' = history
  BY <1>4 DEF Register
<1>5. CASE \E base \in 1..Len(history), f \in EditIds :
              \/ \E op \in {"add", "modify", "delete"}, m \in Ids, c \in Changes :
                    RequestEdit(base, op, m, c, f)
              \/ \E list \in Lists : ImportWorkbench(base, list, f)
  BY <1>4, <1>5 DEF RequestEdit, ImportWorkbench
<1> QED BY <1>1, <1>2, <1>3, <1>5 DEF Next

-----------------------------------------------------------------------------
(* Versions.                                                               *)

(* An output that fits agrees with every output before.                    *)
LEMMA FittingAgrees ==
    ASSUME TypeOK, VersionsIdentify, NEW d \in Outputs, Fits(d),
           NEW i \in 1..Len(history), NEW id \in DOMAIN history[i] \cap DOMAIN d
    PROVE  /\ history[i][id].version <= d[id].version
           /\ history[i][id].version = d[id].version => history[i][id].content = d[id].content
<1> DEFINE l == LastAppearance(id)
           old == history[l][id]
<1>1. Appearances(id) # {} /\ history # <<>>
  BY DEF Appearances
<1>2. /\ l \in 1..Len(history) /\ id \in DOMAIN history[l] /\ i <= l
  BY <1>1, LastAppearanceFacts
<1>3. d[id].version = ExpectedVersion(id, d[id].content)
  BY <1>1 DEF Fits, VersionsOK
<1>4. \/ d[id].version = old.version /\ d[id].content = old.content
      \/ d[id].version = old.version + 1
  BY <1>1, <1>3 DEF ExpectedVersion
<1>5. /\ history[i] \in Outputs /\ history[l] \in Outputs
      /\ Len(history) \in Nat
  BY <1>2 DEF TypeOK
<1>6. history[i][id].version \in Nat /\ old.version \in Nat
  BY <1>2, <1>5, OutputFacts
<1>7. /\ history[i][id].version <= old.version
      /\ history[i][id].version = old.version => history[i][id].content = old.content
  <2>1. CASE i = l
    BY <2>1, <1>6
  <2>2. CASE i < l
    BY <2>2, <1>2 DEF VersionsIdentify
  <2> QED BY <1>2, <2>1, <2>2
<1> QED BY <1>4, <1>6, <1>7

LEMMA VersionsIdentifyStep ==
    ASSUME TypeOK, VersionsIdentify, [Next]_vars
    PROVE  VersionsIdentify'
<1>1. CASE history' = history
  BY <1>1 DEF VersionsIdentify
<1>2. ASSUME NEW d \in Outputs, Fits(d), history' = Append(history, d)
      PROVE  VersionsIdentify'
  <2>1. /\ Len(history) \in Nat /\ Len(history') = Len(history) + 1
        /\ history'[Len(history) + 1] = d
        /\ \A i \in 1..Len(history) : history'[i] = history[i]
    BY <1>2 DEF TypeOK
  <2>2. SUFFICES ASSUME NEW i \in 1..Len(history'), NEW j \in 1..Len(history'), i < j,
                        NEW id \in DOMAIN history'[i] \cap DOMAIN history'[j]
                 PROVE  /\ history'[i][id].version <= history'[j][id].version
                        /\ history'[i][id].version = history'[j][id].version
                             => history'[i][id].content = history'[j][id].content
    BY DEF VersionsIdentify
  <2>3. i \in 1..Len(history) /\ history'[i] = history[i]
    BY <2>1, <2>2
  <2>4. CASE j \in 1..Len(history)
    BY <2>1, <2>2, <2>3, <2>4 DEF VersionsIdentify
  <2>5. CASE j = Len(history) + 1
    BY <1>2, <2>1, <2>3, <2>5, FittingAgrees
  <2> QED BY <2>1, <2>4, <2>5
<1> QED BY <1>1, <1>2, HistoryStep

LEMMA NoVersionSkippedStep ==
    ASSUME TypeOK, NoVersionSkipped, [Next]_vars
    PROVE  NoVersionSkipped'
<1>1. CASE history' = history
  BY <1>1 DEF NoVersionSkipped
<1>2. ASSUME NEW d \in Outputs, Fits(d), history' = Append(history, d)
      PROVE  NoVersionSkipped'
  <2>1. /\ Len(history) \in Nat /\ Len(history') = Len(history) + 1
        /\ history'[Len(history) + 1] = d
        /\ \A i \in 1..Len(history) : history'[i] = history[i]
    BY <1>2 DEF TypeOK
  <2> DEFINE Before(h, j, id) == {i \in 1..j-1 : id \in DOMAIN h[i]}
             Good(h, j, id) ==
               IF Before(h, j, id) = {}
               THEN h[j][id].version = 1
               ELSE \E i \in Before(h, j, id) :
                      h[j][id].version \in {h[i][id].version, h[i][id].version + 1}
  <2>2. SUFFICES ASSUME NEW j \in 2..Len(history'), NEW id \in DOMAIN history'[j]
                 PROVE  Good(history', j, id)
    BY DEF NoVersionSkipped
  <2>3. Before(history', j, id) = Before(history, j, id)
    BY <2>1, <2>2
  <2>4. CASE j \in 2..Len(history)
    <3>1. history'[j] = history[j]
      BY <2>1, <2>4
    <3>2. Good(history, j, id)
      BY <2>2, <2>4, <3>1 DEF NoVersionSkipped
    <3>3. \A i \in Before(history, j, id) : history'[i] = history[i]
      BY <2>1, <2>4
    <3> QED BY <2>3, <3>1, <3>2, <3>3
  <2>5. CASE j = Len(history) + 1
    <3>1. history # <<>> /\ history'[j] = d
      BY <2>1, <2>2, <2>5 DEF TypeOK
    <3>2. d[id].version = ExpectedVersion(id, d[id].content)
      BY <1>2, <2>2, <3>1 DEF Fits, VersionsOK
    <3>3. Before(history, j, id) = Appearances(id)
      BY <2>1, <2>5 DEF Appearances
    <3>4. CASE Appearances(id) = {}
      BY <2>3, <3>1, <3>2, <3>3, <3>4 DEF ExpectedVersion
    <3>5. CASE Appearances(id) # {}
      <4> DEFINE l == LastAppearance(id)
      <4>1. l \in Appearances(id) /\ l \in 1..Len(history)
        BY <3>5, LastAppearanceFacts DEF Appearances
      <4>2. d[id].version \in {history[l][id].version, history[l][id].version + 1}
        BY <3>2, <3>5 DEF ExpectedVersion
      <4>3. history'[l] = history[l]
        BY <2>1, <4>1
      <4> QED BY <2>3, <3>1, <3>3, <4>1, <4>2, <4>3
    <3> QED BY <3>4, <3>5
  <2> QED BY <2>1, <2>4, <2>5
<1> QED BY <1>1, <1>2, HistoryStep

-----------------------------------------------------------------------------
(* Type correctness.                                                       *)

LEMMA NormalizedType ==
    ASSUME Current \in Outputs, NEW list \in Lists
    PROVE  /\ Normalized(list) \in Imports
           /\ DOMAIN Normalized(list) = DOMAIN list
<1>1. PICK D \in (SUBSET Ids) \ {{}} : list \in [D -> Content]
  BY DEF Lists, ListsOf
<1>2. PICK C \in SUBSET Ids : Current \in [C -> [version : 1..MaxVersion, content : Content]]
  BY DEF Outputs, ListsOf
<1>3. MaxVersion \in Nat
  BY ConstantsOK DEF ConstantsOK
<1>4. \A m \in D : Normalized(list)[m] \in [version : 1..MaxVersion + 1, content : Content]
  <2>1. TAKE m \in D
  <2>2. list[m] \in Content
    BY <1>1
  <2>3. m \in DOMAIN Current => Current[m].version \in 1..MaxVersion
    BY <1>2
  <2>4. 1 \in 1..MaxVersion + 1
    BY <1>3
  <2> QED BY <1>1, <1>3, <2>2, <2>3, <2>4 DEF Normalized
<1>5. Normalized(list) \in [D -> [version : 1..MaxVersion + 1, content : Content]]
  BY <1>1, <1>4 DEF Normalized
<1> QED BY <1>1, <1>5 DEF Imports, ListsOf

LEMMA ListFacts ==
    ASSUME NEW E, NEW d \in ListsOf([version : E, content : Content]), NEW m \in DOMAIN d
    PROVE  m \in Ids /\ d[m].content \in Content
BY DEF ListsOf

LEMMA ContentIsChanges ==
    ASSUME NEW c \in Content
    PROVE  /\ c \in Changes
           /\ \A F \in SUBSET Fields : [f \in F |-> c[f]] \in Changes
BY DEF Content, Changes

LEMMA OperationsType ==
    ASSUME NEW old \in Outputs, NEW new \in Imports
    PROVE  Operations(old, new) \in SUBSET Operation
<1>1. \A m \in DOMAIN old : m \in Ids /\ old[m].content \in Content
  BY ListFacts DEF Outputs
<1>2. \A m \in DOMAIN new : m \in Ids /\ new[m].content \in Content
  BY ListFacts DEF Imports
<1>3. \A m \in DOMAIN old : [op |-> "delete", id |-> m, changes |-> <<>>] \in Operation
  <2>1. <<>> \in [{} -> Values]
    OBVIOUS
  <2>2. <<>> \in Changes
    BY <2>1 DEF Changes
  <2> QED BY <1>1, <2>2 DEF Operation
<1>4. \A m \in DOMAIN new : [op |-> "add", id |-> m, changes |-> new[m].content] \in Operation
  BY <1>2, ContentIsChanges DEF Operation
<1>5. \A m \in DOMAIN new :
        [op |-> "modify", id |-> m,
         changes |-> [f \in {g \in Fields : old[m].content[g] # new[m].content[g]}
                        |-> new[m].content[f]]] \in Operation
  BY <1>2, ContentIsChanges DEF Operation
<1> QED BY <1>3, <1>4, <1>5 DEF Operations

LEMMA TypeInit == Init => TypeOK
BY DEF Init, TypeOK, StageStates, Edit

LEMMA RegisterType ==
    ASSUME TypeOK, NEW e \in Edit, NEW f \in EditIds, Register(e, f)
    PROVE  TypeOK'
BY DEF TypeOK, Register, StageStates

LEMMA TypeStep ==
    ASSUME TypeOK, [Next]_vars
    PROVE  TypeOK'
<1>1. CASE UNCHANGED vars
  BY <1>1 DEF vars, TypeOK
<1>2. CASE StartStage \/ Approve \/ Resume \/ \E d \in Outputs : RecordInvalid(d)
  BY <1>2 DEF TypeOK, StageStates, StartStage, Approve, Resume, RecordInvalid
<1>3. CASE Revise \/ ReviseOther \/ SetRoute
  BY <1>3 DEF TypeOK, StageStates, Revise, ReviseOther, SetRoute, Edit
<1>4. ASSUME NEW d \in Outputs, NEW o \in {"PASS", "BLOCKED", "FAIL"}, RecordStage(d, o)
      PROVE  TypeOK'
  <2>1. /\ history' \in Seq(Outputs) /\ Len(history') = Len(history) + 1
        /\ Len(history) \in Nat
    BY <1>4 DEF RecordStage, TypeOK
  <2> QED BY <1>4, <2>1 DEF TypeOK, StageStates, RecordStage, Edit
<1>5. ASSUME NEW f \in EditIds, EditCrash(f)
      PROVE  TypeOK'
  BY <1>5 DEF TypeOK, EditCrash
<1>6. ASSUME NEW base \in 1..Len(history), NEW f \in EditIds,
             NEW op \in {"add", "modify", "delete"}, NEW m \in Ids, NEW c \in Changes,
             RequestEdit(base, op, m, c, f)
      PROVE  TypeOK'
  <2>1. base \in Nat /\ writes + 1 \in Nat
    BY DEF TypeOK
  <2>2. [op |-> op, id |-> m, changes |-> c,
         base |-> base, file |-> f, write |-> writes + 1] \in Edit
    BY <2>1 DEF Edit
  <2> QED BY <1>6, <2>2, RegisterType DEF RequestEdit
<1>7. ASSUME NEW base \in 1..Len(history), NEW f \in EditIds, NEW list \in Lists,
             ImportWorkbench(base, list, f)
      PROVE  TypeOK'
  <2>1. base \in Nat /\ writes + 1 \in Nat
    BY DEF TypeOK
  <2>2. Current \in Outputs
    BY <1>7 DEF ImportWorkbench, CanEdit, Current, TypeOK
  <2>3. Normalized(list) \in Imports
    BY <2>2, NormalizedType
  <2>4. Operations(Current, Normalized(list)) \in SUBSET Operation
    BY <2>2, <2>3, OperationsType
  <2>5. [op |-> "batch", metrics |-> Normalized(list),
         operations |-> Operations(Current, Normalized(list)),
         base |-> base, file |-> f, write |-> writes + 1] \in Edit
    BY <2>1, <2>3, <2>4 DEF Edit
  <2> QED BY <1>7, <2>5, RegisterType DEF ImportWorkbench
<1> QED BY <1>1, <1>2, <1>3, <1>4, <1>5, <1>6, <1>7 DEF Next

(* Every reachable state is well typed.                                    *)
THEOREM TypeCorrect == Spec => []TypeOK
BY TypeInit, TypeStep, PTL DEF Spec

(* A version of a metric never changes its meaning, whatever the edits,    *)
(* failures and routes: VersionsIdentify is inductive because an output is *)
(* compared with the last appearance of each metric, and that one with     *)
(* all before it.                                                          *)
THEOREM VersionsAlwaysIdentify == Spec => []VersionsIdentify
<1>1. Init => VersionsIdentify
  BY DEF Init, VersionsIdentify
<1> QED BY <1>1, TypeCorrect, VersionsIdentifyStep, PTL DEF Spec

(* Versions are counted without gaps.                                      *)
THEOREM VersionsNeverSkipped == Spec => []NoVersionSkipped
<1>1. Init => NoVersionSkipped
  BY DEF Init, NoVersionSkipped
<1> QED BY <1>1, TypeCorrect, NoVersionSkippedStep, PTL DEF Spec

-----------------------------------------------------------------------------
(* Edits.                                                                  *)

(* A pending edit stands on the newest output, its file is registered, and *)
(* a workbench was compared with that output.  While it is pending, the    *)
(* stage is on its way to the next output.                                 *)
Compared(e) ==
    e.op = "batch" => /\ \E list \in Lists : e.metrics = Normalized(list)
                      /\ e.operations = Operations(Current, e.metrics)

Pending ==
    edit # NoEdit =>
        /\ stage \in {"startable", "running", "rejected"}
        /\ artifact = Len(history) /\ artifact # 0
        /\ edit.base = artifact
        /\ <<edit.file, edit.write>> \in records
        /\ Compared(edit)

EditInv ==
    /\ TypeOK
    /\ EditsIntact
    /\ \A r \in records : r[2] # 0
    /\ stage = "awaiting" => artifact = Len(history)
    /\ Pending

LEMMA ComparedStays ==
    ASSUME UNCHANGED <<history, artifact>>, NEW e, Compared(e), edit' = e
    PROVE  Compared(edit)'
<1>1. Current' = Current
  BY DEF Current
<1>2. \A list : Normalized(list)' = Normalized(list)
  BY <1>1 DEF Normalized
<1>3. Operations(Current, edit.metrics)' = Operations(Current, e.metrics)
  BY <1>1
<1> QED BY <1>2, <1>3 DEF Compared

LEMMA EditInit == Init => EditInv
<1> SUFFICES ASSUME Init PROVE EditInv
  OBVIOUS
<1>1. TypeOK
  BY TypeInit
<1>2. edit = NoEdit /\ records = {} /\ stage # "awaiting"
  BY DEF Init
<1> QED BY <1>1, <1>2 DEF EditInv, EditsIntact, Pending

LEMMA RegisterKeepsEdits ==
    ASSUME EditInv, NEW e \in Edit, NEW f \in EditIds, Register(e, f),
           stage = "awaiting", artifact # 0,
           e.base = artifact, e.file = f, e.write = writes + 1,
           Compared(e)
    PROVE  EditInv'
<1>1. TypeOK'
  BY RegisterType DEF EditInv
<1>2. /\ files' = [files EXCEPT ![f] = writes + 1] /\ files[f] = 0
      /\ files \in [EditIds -> Nat]
      /\ records' = records \cup {<<f, writes + 1>>}
      /\ edit' = e /\ stage' = "startable"
      /\ history' = history /\ artifact' = artifact
  BY DEF Register, EditInv, TypeOK
<1>3. EditsIntact'
  BY <1>2 DEF EditInv, EditsIntact
<1>4. \A r \in records' : r[2] # 0
  BY <1>2 DEF EditInv, TypeOK
<1>5. Pending'
  BY <1>2, ComparedStays DEF EditInv, Pending
<1> QED BY <1>1, <1>2, <1>3, <1>4, <1>5 DEF EditInv

LEMMA EditStep ==
    ASSUME EditInv, [Next]_vars
    PROVE  EditInv'
<1>0. TypeOK'
  BY TypeStep DEF EditInv
<1>1. CASE UNCHANGED vars
  BY <1>0, <1>1, ComparedStays DEF vars, EditInv, EditsIntact, Pending
<1>2. CASE StartStage \/ Resume \/ \E d \in Outputs : RecordInvalid(d)
  BY <1>0, <1>2, ComparedStays
  DEF EditInv, EditsIntact, Pending, StartStage, Resume, RecordInvalid
<1>3. CASE Approve \/ Revise \/ ReviseOther \/ SetRoute
  BY <1>0, <1>3 DEF EditInv, EditsIntact, Pending, Approve, Revise, ReviseOther, SetRoute
<1>4. ASSUME NEW d \in Outputs, NEW o \in {"PASS", "BLOCKED", "FAIL"}, RecordStage(d, o)
      PROVE  EditInv'
  <2>1. Len(history') = Len(history) + 1 /\ artifact' = Len(history) + 1
    BY <1>4 DEF RecordStage, EditInv, TypeOK
  <2>2. edit' = NoEdit /\ UNCHANGED <<files, records>>
    BY <1>4 DEF RecordStage
  <2> QED BY <1>0, <2>1, <2>2 DEF EditInv, EditsIntact, Pending
<1>5. ASSUME NEW f \in EditIds, EditCrash(f)
      PROVE  EditInv'
  <2>1. /\ edit' = NoEdit /\ UNCHANGED <<records, stage, history, artifact>>
        /\ files' = [files EXCEPT ![f] = writes + 1] /\ files[f] = 0
    BY <1>5 DEF EditCrash, CanEdit, EditInv, Pending
  <2>2. \A r \in records : r[1] # f
    BY <2>1 DEF EditInv, EditsIntact
  <2>3. EditsIntact'
    BY <2>1, <2>2 DEF EditInv, EditsIntact, TypeOK
  <2> QED BY <1>0, <2>1, <2>3 DEF EditInv, Pending
<1>6. ASSUME NEW base \in 1..Len(history), NEW f \in EditIds,
             NEW op \in {"add", "modify", "delete"}, NEW m \in Ids, NEW c \in Changes,
             RequestEdit(base, op, m, c, f)
      PROVE  EditInv'
  <2> DEFINE e == [op |-> op, id |-> m, changes |-> c,
                   base |-> base, file |-> f, write |-> writes + 1]
  <2>1. e \in Edit
    BY DEF Edit, EditInv, TypeOK
  <2>2. /\ Register(e, f) /\ stage = "awaiting" /\ base = artifact
        /\ artifact # 0 /\ Compared(e)
    BY <1>6 DEF RequestEdit, CanEdit, Compared
  <2> QED BY <2>1, <2>2, RegisterKeepsEdits
<1>7. ASSUME NEW base \in 1..Len(history), NEW f \in EditIds, NEW list \in Lists,
             ImportWorkbench(base, list, f)
      PROVE  EditInv'
  <2> DEFINE e == [op |-> "batch", metrics |-> Normalized(list),
                   operations |-> Operations(Current, Normalized(list)),
                   base |-> base, file |-> f, write |-> writes + 1]
  <2>1. Current \in Outputs
    BY <1>7 DEF ImportWorkbench, CanEdit, Current, EditInv, TypeOK
  <2>2. Normalized(list) \in Imports
    BY <2>1, NormalizedType
  <2>3. Operations(Current, Normalized(list)) \in SUBSET Operation
    BY <2>1, <2>2, OperationsType
  <2>4. e \in Edit
    BY <2>2, <2>3 DEF Edit, EditInv, TypeOK
  <2>5. /\ Register(e, f) /\ stage = "awaiting" /\ base = artifact /\ artifact # 0
    BY <1>7 DEF ImportWorkbench, CanEdit
  <2>6. Compared(e)
    BY DEF Compared
  <2> QED BY <2>4, <2>5, <2>6, RegisterKeepsEdits
<1> QED BY <1>1, <1>2, <1>3, <1>4, <1>5, <1>6, <1>7 DEF Next

(* A metric of the newest output appeared there last.                      *)
LEMMA NewestIsLast ==
    ASSUME TypeOK, history # <<>>, NEW m \in DOMAIN history[Len(history)]
    PROVE  Appearances(m) # {} /\ LastAppearance(m) = Len(history)
<1>1. Len(history) \in Nat /\ Len(history) \in 1..Len(history)
  BY DEF TypeOK
<1>2. Appearances(m) # {}
  BY <1>1 DEF Appearances
<1>3. LastAppearance(m) \in 1..Len(history) /\ Len(history) <= LastAppearance(m)
  BY <1>1, <1>2, LastAppearanceFacts
<1> QED BY <1>1, <1>2, <1>3

(* An import that reintroduces nothing numbers as the validation expects.  *)
LEMMA NormalizedIsExpected ==
    ASSUME TypeOK, artifact = Len(history), artifact # 0, NEW list \in Lists,
           \A m \in DOMAIN list \ DOMAIN Current : Appearances(m) = {}
    PROVE  Numbered(list) = Normalized(list)
<1>1. SUFFICES ASSUME NEW m \in DOMAIN list
               PROVE  ExpectedVersion(m, list[m]) =
                        (IF m \notin DOMAIN Current THEN 1
                         ELSE IF Current[m].content # list[m]
                              THEN Current[m].version + 1
                              ELSE Current[m].version)
  BY DEF Numbered, Normalized
<1>2. CASE m \notin DOMAIN Current
  BY <1>2 DEF ExpectedVersion
<1>3. CASE m \in DOMAIN Current
  <2>1. history # <<>>
    BY DEF TypeOK
  <2>2. Appearances(m) # {} /\ LastAppearance(m) = Len(history)
    BY <1>3, <2>1, NewestIsLast DEF Current
  <2> QED BY <1>3, <2>2 DEF ExpectedVersion, Current
<1> QED BY <1>2, <1>3

(* A list of one metric.                                                   *)
LEMMA OneMetric ==
    ASSUME NEW m \in Ids, NEW c \in Content
    PROVE  /\ [n \in {m} |-> c] \in Lists
           /\ DOMAIN Numbered([n \in {m} |-> c]) = {m}
           /\ Numbered([n \in {m} |-> c])[m].content = c
<1>1. {m} \in (SUBSET Ids) \ {{}} /\ [n \in {m} |-> c] \in [{m} -> Content]
  OBVIOUS
<1>2. [n \in {m} |-> c] \in Lists
  BY <1>1 DEF Lists, ListsOf
<1> QED BY <1>2 DEF Numbered

LEMMA PendingIsSatisfiable ==
    ASSUME EditInv
    PROVE  StuckOnlyByReintroduction
<1>1. SUFFICES ASSUME edit # NoEdit,
                      edit.op = "batch" =>
                        \A m \in DOMAIN edit.metrics \ DOMAIN Current : Appearances(m) = {}
               PROVE  \E list \in Lists : Applied(edit, Numbered(list))
  BY DEF StuckOnlyByReintroduction, Satisfiable
<1>2. edit.base = artifact /\ files[edit.file] = edit.write
  BY <1>1 DEF EditInv, Pending, EditsIntact
<1>3. edit \in Edit /\ \E v : v \in Values
  BY ConstantsOK DEF ConstantsOK, EditInv, TypeOK
<1>4. CASE edit.op = "batch"
  <2>1. PICK list \in Lists : edit.metrics = Normalized(list)
    BY <1>1, <1>4 DEF EditInv, Pending, Compared
  <2>2. DOMAIN edit.metrics = DOMAIN list
    BY <2>1 DEF Normalized
  <2>3. Numbered(list) = Normalized(list)
    BY <1>1, <1>4, <2>2, NormalizedIsExpected DEF EditInv, Pending
  <2>4. edit.operations = Operations(history[Len(history)], edit.metrics)
    BY <1>1, <1>4 DEF EditInv, Pending, Compared, Current
  <2> QED BY <1>2, <1>4, <2>1, <2>3, <2>4 DEF Applied
<1>5. CASE edit.op = "delete"
  <2>1. edit.id \in Ids
    BY <1>3, <1>5 DEF Edit, NoEdit
  <2>2. PICK n \in Ids : n # edit.id
    BY <2>1, ConstantsOK DEF ConstantsOK
  <2>3. PICK c \in Content : TRUE
    <3>1. PICK v \in Values : TRUE
      BY <1>3
    <3>2. [f \in Fields |-> v] \in Content
      BY <3>1 DEF Content
    <3> QED BY <3>2
  <2> QED BY <1>2, <1>5, <2>2, <2>3, OneMetric DEF Applied
<1>6. CASE edit.op \in {"add", "modify"}
  <2>1. edit.id \in Ids /\ edit.changes \in Changes
    BY <1>3, <1>6 DEF Edit, NoEdit
  <2>2. PICK F \in SUBSET Fields : edit.changes \in [F -> Values]
    BY <2>1 DEF Changes
  <2>3. PICK v \in Values : TRUE
    BY <1>3
  <2> DEFINE c == [f \in Fields |-> IF f \in F THEN edit.changes[f] ELSE v]
  <2>4. c \in Content
    BY <2>2, <2>3 DEF Content
  <2>5. \A f \in DOMAIN edit.changes : c[f] = edit.changes[f]
    BY <2>2
  <2> HIDE DEF c
  <2> QED BY <1>2, <1>6, <2>1, <2>4, <2>5, OneMetric DEF Applied
<1>7. edit.op \in {"batch", "add", "modify", "delete"}
  BY <1>1, <1>3 DEF Edit
<1> QED BY <1>4, <1>5, <1>6, <1>7

LEMMA EditsHold == Spec => []EditInv
BY EditInit, EditStep, PTL DEF Spec

(* No edit replaces the file of another one.                               *)
THEOREM EditsStayIntact == Spec => []EditsIntact
<1>1. EditInv => EditsIntact
  BY DEF EditInv
<1> QED BY <1>1, EditsHold, PTL

(* Every accepted edit can be applied, save for a workbench that brings    *)
(* back a metric: Pending says what an edit that was accepted still agrees *)
(* with when its output arrives.                                           *)
THEOREM OnlyReintroductionsStick == Spec => []StuckOnlyByReintroduction
BY PendingIsSatisfiable, EditsHold, PTL


-----------------------------------------------------------------------------
(* What becomes of a pending edit.                                         *)

(* Output d is what edit e asks for.                                       *)
Settles(e, d) ==
    CASE e.op = "batch"  -> d = e.metrics
      [] e.op = "delete" -> e.id \notin DOMAIN d
      [] OTHER -> \E c \in Content :
                     /\ \A f \in DOMAIN e.changes : c[f] = e.changes[f]
                     /\ e.id \in DOMAIN d
                     /\ d[e.id].content = c

LEMMA RecordSettles ==
    ASSUME EditInv, edit # NoEdit, NEW d \in Outputs, NEW o \in {"PASS", "BLOCKED", "FAIL"},
           RecordStage(d, o)
    PROVE  /\ edit' = NoEdit /\ Len(history') = Len(history) + 1
           /\ edit.base = Len(history) /\ Settles(edit, history'[Len(history')])
<1>1. history \in Seq(Outputs) /\ edit \in Edit
  BY DEF EditInv, TypeOK
<1>2. /\ edit' = NoEdit /\ history' = Append(history, d) /\ Applied(edit, d)
  BY DEF RecordStage, Fits
<1>3. /\ Len(history') = Len(history) + 1 /\ history'[Len(history')] = d
  BY <1>1, <1>2
<1>4. edit.base = Len(history)
  BY DEF EditInv, Pending
<1>5. CASE edit.op = "batch"
  <2>1. d = edit.metrics
    BY <1>2, <1>5 DEF Applied
  <2>2. Settles(edit, d)
    BY <1>5, <2>1 DEF Settles
  <2> QED BY <1>2, <1>3, <1>4, <2>2
<1>6. CASE edit.op = "delete"
  <2>1. edit.id \notin DOMAIN d
    BY <1>2, <1>6 DEF Applied
  <2>2. Settles(edit, d)
    BY <1>6, <2>1 DEF Settles
  <2> QED BY <1>2, <1>3, <1>4, <2>2
<1>7. CASE edit.op \notin {"batch", "delete"}
  <2>1. edit.op \in {"add", "modify"}
    BY <1>1, <1>7 DEF Edit
  <2>2. /\ edit.id \in DOMAIN d
        /\ \A f \in DOMAIN edit.changes : d[edit.id].content[f] = edit.changes[f]
    BY <1>2, <2>1 DEF Applied
  <2>3. d[edit.id].content \in Content
    BY <2>2, OutputFacts
  <2>4. Settles(edit, d)
    BY <1>7, <2>2, <2>3 DEF Settles
  <2> QED BY <1>2, <1>3, <1>4, <2>4
<1> QED BY <1>5, <1>6, <1>7

(* An edit is pending while the stage is to be run, is running or has      *)
(* failed: nothing is edited then, and what drops the edit is no attempt.  *)
LEMMA EditSettledStep ==
    ASSUME EditInv, [Next]_vars, edit # NoEdit, edit' # edit
    PROVE  \/ /\ edit' = NoEdit /\ Len(history') = Len(history) + 1
              /\ edit.base = Len(history) /\ Settles(edit, history'[Len(history')])
           \/ edit' = NoEdit /\ stage # "running" /\ history' = history
<1>1. stage # "awaiting"
  BY DEF EditInv, Pending
<1>2. CASE \E d \in Outputs, o \in {"PASS", "BLOCKED", "FAIL"} : RecordStage(d, o)
  BY <1>2, RecordSettles
<1>3. CASE Revise \/ ReviseOther \/ SetRoute
  BY <1>3 DEF Revise, ReviseOther, SetRoute
<1>4. CASE StartStage \/ Approve \/ Resume \/ \E d \in Outputs : RecordInvalid(d)
  BY <1>4 DEF StartStage, Approve, Resume, RecordInvalid
<1>5. CASE \/ \E f \in EditIds : EditCrash(f)
           \/ \E base \in 1..Len(history), f \in EditIds :
                 \/ \E op \in {"add", "modify", "delete"}, m \in Ids, c \in Changes :
                       RequestEdit(base, op, m, c, f)
                 \/ \E list \in Lists : ImportWorkbench(base, list, f)
  BY <1>1, <1>5 DEF EditCrash, RequestEdit, ImportWorkbench, CanEdit
<1>6. CASE UNCHANGED vars
  BY <1>6 DEF vars
<1> QED BY <1>2, <1>3, <1>4, <1>5, <1>6 DEF Next

(* A pending edit ends only in an output that applies it to the output it  *)
(* was asked of, or is withdrawn by the user while no attempt runs: no     *)
(* attempt that fails, is interrupted or dies drops it (record_stage,      *)
(* revise, set_route and resume, runctl.py).                               *)
THEOREM EditsAreSettled == Spec => EditSettled
<1>1. EditInv /\ [Next]_vars => [edit # NoEdit /\ edit' # edit =>
        \/ /\ edit' = NoEdit
           /\ Len(history') = Len(history) + 1
           /\ edit.base = Len(history)
           /\ CASE edit.op = "batch"  -> history'[Len(history')] = edit.metrics
                [] edit.op = "delete" -> edit.id \notin DOMAIN history'[Len(history')]
                [] OTHER -> \E c \in Content :
                               /\ \A f \in DOMAIN edit.changes : c[f] = edit.changes[f]
                               /\ edit.id \in DOMAIN history'[Len(history')]
                               /\ history'[Len(history')][edit.id].content = c
        \/ edit' = NoEdit /\ stage # "running" /\ history' = history]_vars
  BY EditSettledStep DEF Settles
<1>2. Spec => []EditInv
  BY EditsHold
<1> QED BY <1>1, <1>2, PTL DEF Spec, EditSettled
=============================================================================
