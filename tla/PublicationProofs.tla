------------------------- MODULE PublicationProofs --------------------------
(***************************************************************************)
(* Theorems about Publication, for every number of builders and bound.     *)
(***************************************************************************)
EXTENDS Publication, TLAPS

Phases == {"idle", "read", "leased", "reread", "placed", "registered", "announced", "reconciling"}

(* What a builder has placed is in place until it has settled, and what a  *)
(* dead publisher left to recover is too.                                  *)
Placed ==
    /\ \A b \in Builders : pc[b] \in {"placed", "registered", "announced"}
                              => <<Kind[b], read[b]>> \in files
    /\ \A b \in Builders : pc[b] = "reconciling" /\ seen[b] # 0
                              => <<Kind[b], seen[b]>> \in files
    /\ lease.phase = "publishing" => <<Kind[lease.holder], lease.target>> \in files

(* Who reconciles holds the lock, and what it has found is still so.       *)
Consulting ==
    \A b \in Builders : pc[b] = "reconciling" =>
        lock = b /\ seen[b] = Newest(Kind[b])

InPlace == NothingDangling /\ Placed

LEMMA KindIsKind == \A b \in Builders : Kind[b] \in Kinds /\ Nobody # b
BY ConstantsOK DEF ConstantsOK

LEMMA NewestType ==
    ASSUME TypeOK, NEW k \in Kinds
    PROVE  /\ Newest(k) \in Nat
           /\ NothingDangling /\ Newest(k) # 0 => <<k, Newest(k)>> \in files
<1>1. active[k] \in Seq(Nat)
  BY DEF TypeOK
<1>2. CASE active[k] = <<>>
  BY <1>2 DEF Newest
<1>3. CASE active[k] # <<>>
  <2>1. Len(active[k]) \in 1..Len(active[k])
    BY <1>1, <1>3
  <2>2. Newest(k) = active[k][Len(active[k])]
    BY <1>3 DEF Newest
  <2>3. Newest(k) \in Nat
    BY <1>1, <2>1, <2>2
  <2>4. NothingDangling => <<k, Newest(k)>> \in files
    BY <2>1, <2>2 DEF NothingDangling
  <2> QED BY <2>3, <2>4
<1> QED BY <1>2, <1>3

-----------------------------------------------------------------------------
(* Type correctness.                                                       *)

Leases(n) == [holder : Builders \cup {Nobody}, phase : {"none", "executing"}]
             \cup [holder : Builders, phase : {"publishing"}, target : 1..n]

(* A builder at work has read a state, and every state has a revision.     *)
Named == revision # 0 /\ \A b \in Builders : pc[b] # "idle" => read[b] # 0

TypeInv == TypeOK /\ Named

LEMMA TypeInit == Init => TypeInv
BY ConstantsOK DEF ConstantsOK, Init, TypeInv, TypeOK, Named, NoLease, Kinds

(* What was named once stays named: revisions only grow.                   *)
LEMMA Growing ==
    ASSUME TypeOK, revision' \in {revision, revision + 1}
    PROVE  /\ revision' \in Nat /\ 0..revision \subseteq 0..revision'
           /\ 1..revision \subseteq 1..revision' /\ Leases(revision) \subseteq Leases(revision')
BY DEF TypeOK, Leases

(* A step of one builder changes only its own entries.                     *)
LEMMA BuilderType ==
    ASSUME TypeInv, revision' \in {revision, revision + 1}, NEW b \in Builders,
           \E p \in Phases : pc' = [pc EXCEPT ![b] = p],
           \E x \in 0..revision : read' = [read EXCEPT ![b] = x],
           pc'[b] # "idle" => read'[b] # 0,
           \E y \in Nat : seen' = [seen EXCEPT ![b] = y],
           lease' \in Leases(revision'), lock' \in {lock, b, Nobody},
           files' \in {files, files \cup {<<Kind[b], read[b]>>}}, pc[b] = "idle" => files' = files,
           active' \in {active, [active EXCEPT ![Kind[b]] = <<read[b]>>]},
           \E z \in Nat : pointer' = [pointer EXCEPT ![Kind[b]] = z],
           faults' \in {faults, faults + 1}
    PROVE  TypeInv'
<1>1. read[b] \in 0..revision /\ read[b] \in Nat /\ Kind[b] \in Kinds
  BY KindIsKind DEF TypeInv, TypeOK
<1>2. read' \in [Builders -> 0..revision']
  <2>1. read \in [Builders -> 0..revision']
    BY Growing DEF TypeInv, TypeOK
  <2> QED BY <2>1, Growing DEF TypeInv
<1>3. seen' \in [Builders -> Nat]
  BY DEF TypeInv, TypeOK
<1>4. active' \in [Kinds -> Seq(Nat)]
  <2>1. <<read[b]>> \in Seq(Nat) /\ active \in [Kinds -> Seq(Nat)]
    BY <1>1 DEF TypeInv, TypeOK
  <2> QED BY <1>1, <2>1
<1>5. pointer' \in [Kinds -> Nat]
  BY <1>1 DEF TypeInv, TypeOK
<1>6. files' \subseteq Kinds \X (1..revision')
  <2>1. files \subseteq Kinds \X (1..revision')
    BY Growing DEF TypeInv, TypeOK
  <2>2. pc[b] # "idle" => read[b] \in 1..revision'
    BY <1>1, Growing DEF TypeInv, TypeOK, Named
  <2> QED BY <1>1, <2>1, <2>2
<1>7. pc' \in [Builders -> Phases]
  BY DEF TypeInv, TypeOK, Phases
<1>8. lock' \in Builders \cup {Nobody} /\ faults' \in Nat /\ revision' \in Nat
  BY DEF TypeInv, TypeOK
<1>9. Named'
  BY DEF TypeInv, TypeOK, Named
<1> QED BY <1>2, <1>3, <1>4, <1>5, <1>6, <1>7, <1>8, <1>9 DEF TypeInv, TypeOK, Leases, Phases

LEMMA Unwritten ==
    ASSUME TypeInv, NEW b \in Builders
    PROVE  /\ \E x \in 0..revision : read = [read EXCEPT ![b] = x]
           /\ \E y \in Nat : seen = [seen EXCEPT ![b] = y]
           /\ \E z \in Nat : pointer = [pointer EXCEPT ![Kind[b]] = z]
           /\ 0 \in 0..revision /\ revision \in 0..revision /\ revision \in Nat /\ revision # 0
           /\ read[b] \in 0..revision /\ read[b] \in Nat
           /\ pc[b] # "idle" => read[b] # 0 /\ read[b] \in 1..revision
           /\ lease \in Leases(revision) /\ lease \in Leases(revision + 1)
           /\ NoLease \in Leases(revision) /\ NoLease \in Leases(revision + 1)
<1>1. /\ read \in [Builders -> 0..revision] /\ seen \in [Builders -> Nat]
      /\ pointer \in [Kinds -> Nat] /\ Kind[b] \in Kinds /\ revision \in Nat
  BY KindIsKind DEF TypeInv, TypeOK
<1>2. /\ read = [read EXCEPT ![b] = read[b]] /\ seen = [seen EXCEPT ![b] = seen[b]]
      /\ pointer = [pointer EXCEPT ![Kind[b]] = pointer[Kind[b]]]
  BY <1>1
<1>3. read[b] \in 0..revision /\ seen[b] \in Nat /\ pointer[Kind[b]] \in Nat
  BY <1>1
<1>4. lease \in Leases(revision) /\ Leases(revision) \subseteq Leases(revision + 1)
  BY <1>1 DEF TypeInv, TypeOK, Leases
<1>5. NoLease \in Leases(revision)
  BY DEF Leases, NoLease
<1>6. 0 \in 0..revision /\ revision \in 0..revision /\ revision # 0
      /\ (pc[b] # "idle" => read[b] # 0 /\ read[b] \in 1..revision) /\ read[b] \in Nat
  BY <1>1, <1>3 DEF TypeInv, Named
<1> HIDE DEF NoLease
<1>7. \E x \in 0..revision : read = [read EXCEPT ![b] = x]
  BY <1>2, <1>3
<1>8. \E y \in Nat : seen = [seen EXCEPT ![b] = y]
  BY <1>2, <1>3
<1>9. \E z \in Nat : pointer = [pointer EXCEPT ![Kind[b]] = z]
  BY <1>2, <1>3
<1> QED BY <1>1, <1>3, <1>4, <1>5, <1>6, <1>7, <1>8, <1>9

LEMMA BuildType ==
    ASSUME TypeInv, NEW b \in Builders, Build(b)
    PROVE  TypeInv'
<1>0. pc \in [Builders -> Phases] /\ read \in [Builders -> 0..revision]
  BY DEF TypeInv, TypeOK, Phases
<1>a. /\ \E x \in 0..revision : read = [read EXCEPT ![b] = x]
      /\ \E y \in Nat : seen = [seen EXCEPT ![b] = y]
      /\ \E z \in Nat : pointer = [pointer EXCEPT ![Kind[b]] = z]
      /\ 0 \in 0..revision /\ revision \in 0..revision /\ revision # 0
      /\ read[b] \in Nat
      /\ pc[b] # "idle" => read[b] # 0 /\ read[b] \in 1..revision
      /\ lease \in Leases(revision) /\ lease \in Leases(revision + 1)
      /\ NoLease \in Leases(revision) /\ NoLease \in Leases(revision + 1)
  BY Unwritten, Zenon
<1>b. seen[b] \in Nat /\ Newest(Kind[b]) \in Nat
  BY NewestType, KindIsKind DEF TypeInv, TypeOK
<1> USE <1>0, <1>a, <1>b, BuilderType
<1>1. CASE Read(b)
  BY <1>1 DEF Read, Goes, StateRevision, Phases
<1>2. CASE Begin(b)
  <2>1. lease' \in Leases(revision')
    BY <1>2 DEF Begin, Leases
  <2>2. pc'[b] = "leased" /\ pc[b] = "read" /\ pc' = [pc EXCEPT ![b] = "leased"]
    BY <1>2 DEF Begin, Goes
  <2> QED BY <1>2, <2>1, <2>2 DEF Begin, Phases, Committed
<1>3. CASE Refused(b)
  BY <1>3 DEF Refused, Ends, Phases
<1>4. CASE Reread(b)
  BY <1>4 DEF Reread, Goes, StateRevision, Phases
<1>5. CASE Place(b)
  BY <1>5 DEF Place, Goes, Phases
<1>6. CASE Publish(b)
  BY <1>6 DEF Publish, Publishing, Phases, Committed
<1>7. CASE Fail(b)
  <2>1. lease' \in Leases(revision') /\ revision' \in {revision, revision + 1}
    BY <1>7 DEF Fail, Committed
  <2> QED BY <1>7, <2>1 DEF Fail, Ends, Phases
<1>8. CASE Announce(b)
  BY <1>8 DEF Announce, Goes, Phases
<1>9. CASE Consult(b)
  BY <1>9 DEF Consult, Goes, Phases
<1>10. CASE Settle(b)
  BY <1>10 DEF Settle, Ends, Target, Phases
<1>11. CASE Die(b)
  BY <1>11 DEF Die, Fault, Ends, Phases
<1>12. CASE DiePublishing(b)
  <2>1. lease' \in Leases(revision')
    <3>1. lease' = [holder |-> b, phase |-> "publishing", target |-> read[b]]
          /\ read[b] \in 1..revision /\ revision' = revision + 1
      BY <1>12 DEF DiePublishing, Publishing, Committed
    <3>2. read[b] \in 1..revision'
      BY <3>1, Growing DEF TypeInv
    <3> QED BY <3>1, <3>2 DEF Leases
  <2> QED BY <1>12, <2>1 DEF DiePublishing, Fault, Publishing, Ends, Phases, Committed
<1> QED BY <1>1, <1>2, <1>3, <1>4, <1>5, <1>6, <1>7, <1>8, <1>9, <1>10, <1>11, <1>12 DEF Build

LEMMA TypeStep == TypeInv /\ [Next]_vars => TypeInv'
<1> SUFFICES ASSUME TypeInv, [Next]_vars PROVE TypeInv'
  OBVIOUS
<1>1. ASSUME NEW b \in Builders, Build(b) PROVE TypeInv'
  BY <1>1, BuildType
<1>2. ASSUME revision' = revision + 1, active' \in [Kinds -> Seq(Nat)], lease' \in {lease, NoLease},
             UNCHANGED <<lock, files, pointer, pc, read, seen, faults>>
      PROVE  TypeInv'
  <2>1. revision' \in Nat /\ revision' # 0 /\ 0..revision \subseteq 0..revision'
        /\ 1..revision \subseteq 1..revision' /\ lease' \in Leases(revision')
    BY <1>2, Growing DEF TypeInv, TypeOK, Leases, NoLease
  <2>2. read' \in [Builders -> 0..revision'] /\ files' \subseteq Kinds \X (1..revision')
    BY <1>2, <2>1 DEF TypeInv, TypeOK
  <2> QED BY <1>2, <2>1, <2>2 DEF TypeInv, TypeOK, Named, Leases
<1>3. ASSUME NEW withdrawn \in SUBSET Kinds, NEW ends \in BOOLEAN, Command(withdrawn, ends)
      PROVE  TypeInv'
  <2>1. active' \in [Kinds -> Seq(Nat)]
    BY <1>3 DEF Command, TypeInv, TypeOK
  <2> QED BY <1>2, <1>3, <2>1 DEF Command, Committed
<1>4. ASSUME Recover PROVE TypeInv'
  <2>1. active' \in [Kinds -> Seq(Nat)]
    <3>1. CASE lease.phase # "publishing"
      BY <1>4, <3>1 DEF Recover, TypeInv, TypeOK
    <3>2. CASE lease.phase = "publishing"
      <4>1. lease.holder \in Builders /\ lease.target \in Nat
        BY <3>2 DEF TypeInv, TypeOK
      <4>2. Kind[lease.holder] \in Kinds /\ active \in [Kinds -> Seq(Nat)]
        BY <4>1, KindIsKind DEF TypeInv, TypeOK
      <4>3. active' = [active EXCEPT ![Kind[lease.holder]] =
                          Append(active[Kind[lease.holder]], lease.target)]
        BY <1>4, <3>2 DEF Recover
      <4> QED BY <4>1, <4>2, <4>3
    <3> QED BY <3>1, <3>2
  <2> QED BY <1>2, <1>4, <2>1 DEF Recover, Committed
<1>5. CASE UNCHANGED vars
  BY <1>5 DEF vars, TypeInv, TypeOK, Named
<1> QED BY <1>1, <1>3, <1>4, <1>5 DEF Next

(* Every variable holds a value of the kind announced for it.              *)
THEOREM TypeCorrect == Spec => []TypeOK
<1>1. TypeInv => TypeOK
  BY DEF TypeInv
<1> QED BY <1>1, TypeInit, TypeStep, PTL DEF Spec

LEMMA TypeAlways == Spec => []TypeInv
BY TypeInit, TypeStep, PTL DEF Spec

-----------------------------------------------------------------------------
(* The pointer and the records name directories in place.                  *)

LEMMA PlacedStep ==
    ASSUME TypeInv, InPlace, [Next]_vars
    PROVE  InPlace'
<1>0. /\ pc \in [Builders -> Phases] /\ read \in [Builders -> 0..revision]
      /\ seen \in [Builders -> Nat]
      /\ pointer \in [Kinds -> Nat] /\ active \in [Kinds -> Seq(Nat)]
  BY DEF TypeInv, TypeOK, Phases
<1>k. \A b \in Builders : Kind[b] \in Kinds
  BY KindIsKind
<1>1. ASSUME NEW b \in Builders, Build(b) PROVE InPlace'
  <2>1. CASE Read(b) \/ Begin(b) \/ Refused(b) \/ Reread(b)
    <3>1. NothingDangling'
      BY <2>1 DEF InPlace, NothingDangling, Read, Begin, Refused, Reread
    <3>2. CASE Read(b) \/ Refused(b) \/ Reread(b)
      BY <1>0, <3>1, <3>2 DEF InPlace, Placed, Read, Refused, Reread, Goes, Ends
    <3>3. CASE Begin(b)
      BY <1>0, <3>1, <3>3 DEF InPlace, Placed, Begin, Goes
    <3> QED BY <2>1, <3>2, <3>3
  <2>2. CASE Place(b)
    BY <1>0, <2>2 DEF InPlace, NothingDangling, Placed, Place, Goes
  <2>3. CASE Publish(b)
    <3>1. <<Kind[b], read[b]>> \in files
      BY <2>3 DEF InPlace, Placed, Publish, Publishing
    <3>2. active' = [active EXCEPT ![Kind[b]] = <<read[b]>>] /\ UNCHANGED <<files, pointer>>
      BY <2>3 DEF Publish
    <3>3. \A k \in Kinds : \A i \in 1..Len(active'[k]) : <<k, active'[k][i]>> \in files
      <4>1. ASSUME NEW k \in Kinds, k # Kind[b]
            PROVE  \A i \in 1..Len(active'[k]) : <<k, active'[k][i]>> \in files
        BY <1>0, <3>2, <4>1 DEF InPlace, NothingDangling
      <4>2. active'[Kind[b]] = <<read[b]>>
        BY <1>0, <1>k, <3>2
      <4>3. Len(<<read[b]>>) = 1 /\ <<read[b]>>[1] = read[b] /\ 1..1 = {1}
        OBVIOUS
      <4> QED BY <3>1, <4>1, <4>2, <4>3
    <3>4. NothingDangling'
      BY <3>2, <3>3 DEF InPlace, NothingDangling
    <3>5. Placed'
      BY <1>0, <2>3, <3>1 DEF InPlace, Placed, Publish, NoLease
    <3> QED BY <3>4, <3>5 DEF InPlace
  <2>4. CASE Fail(b)
    <3>1. NothingDangling'
      BY <2>4 DEF InPlace, NothingDangling, Fail
    <3>2. lease' = lease \/ lease'.phase = "none"
      BY <2>4 DEF Fail, NoLease
    <3>3. Placed'
      BY <1>0, <2>4, <3>2 DEF InPlace, Placed, Fail, Ends
    <3> QED BY <3>1, <3>3 DEF InPlace
  <2>5. CASE Announce(b)
    <3>1. <<Kind[b], read[b]>> \in files
      BY <2>5 DEF InPlace, Placed, Announce, Goes
    <3> QED BY <1>0, <1>k, <2>5, <3>1 DEF InPlace, NothingDangling, Placed, Announce, Goes
  <2>6. CASE Consult(b)
    <3>1. Newest(Kind[b]) # 0 => <<Kind[b], Newest(Kind[b])>> \in files
      BY <1>k, NewestType DEF InPlace, TypeInv
    <3> QED BY <1>0, <2>6, <3>1 DEF InPlace, NothingDangling, Placed, Consult, Goes
  <2>7. CASE Settle(b)
    <3>1. seen[b] # 0 => <<Kind[b], seen[b]>> \in files
      BY <2>7 DEF InPlace, Placed, Settle
    <3> QED BY <1>0, <1>k, <2>7, <3>1 DEF InPlace, NothingDangling, Placed, Settle, Ends, Target
  <2>8. CASE Die(b)
    BY <1>0, <2>8 DEF InPlace, NothingDangling, Placed, Die, Fault, Ends
  <2>9. CASE DiePublishing(b)
    <3>1. <<Kind[b], read[b]>> \in files
      BY <2>9 DEF InPlace, Placed, DiePublishing, Publishing
    <3> QED BY <1>0, <2>9, <3>1 DEF InPlace, NothingDangling, Placed, DiePublishing, Fault, Ends
  <2> QED BY <1>1, <2>1, <2>2, <2>3, <2>4, <2>5, <2>6, <2>7, <2>8, <2>9 DEF Build
<1>2. ASSUME NEW withdrawn \in SUBSET Kinds, NEW ends \in BOOLEAN, Command(withdrawn, ends)
      PROVE  InPlace'
  <2>1. lease' = lease \/ lease'.phase = "none"
    BY <1>2 DEF Command, NoLease
  <2>2. Placed'
    BY <1>2, <2>1 DEF InPlace, Placed, Command
  <2>3. \A k \in Kinds : active'[k] \in {active[k], <<>>}
    BY <1>0, <1>2 DEF Command
  <2>4. UNCHANGED <<files, pointer>> /\ Len(<<>>) = 0
    BY <1>2 DEF Command
  <2>5. NothingDangling'
    BY <2>3, <2>4 DEF InPlace, NothingDangling
  <2> QED BY <2>2, <2>5 DEF InPlace
<1>3. ASSUME Recover PROVE InPlace'
  <2>1. lease' = NoLease /\ UNCHANGED <<files, pointer, pc, read, seen>>
    BY <1>3 DEF Recover
  <2>2. Placed'
    BY <2>1 DEF InPlace, Placed, NoLease
  <2>3. CASE lease.phase # "publishing"
    BY <1>3, <2>1, <2>2, <2>3 DEF Recover, InPlace, NothingDangling
  <2>4. CASE lease.phase = "publishing"
    <3> DEFINE h == Kind[lease.holder]
               t == lease.target
    <3>1. t \in Nat /\ lease.holder \in Builders
      BY <2>4 DEF TypeInv, TypeOK
    <3>2. h \in Kinds /\ active[h] \in Seq(Nat) /\ <<h, t>> \in files
      BY <1>0, <1>k, <2>4, <3>1 DEF InPlace, Placed
    <3>3. active' = [active EXCEPT ![h] = Append(active[h], t)]
      BY <1>3, <2>4 DEF Recover
    <3> HIDE DEF h, t
    <3>4. ASSUME NEW i \in 1..Len(Append(active[h], t))
          PROVE  <<h, Append(active[h], t)[i]>> \in files
      <4>1. CASE i \in 1..Len(active[h])
        <5>1. Append(active[h], t)[i] = active[h][i]
          BY <3>1, <3>2, <4>1
        <5> QED BY <3>2, <4>1, <5>1 DEF InPlace, NothingDangling
      <4>2. CASE i = Len(active[h]) + 1
        BY <3>1, <3>2, <4>2
      <4> QED BY <3>1, <3>2, <4>1, <4>2
    <3>5. \A k \in Kinds : \A i \in 1..Len(active'[k]) : <<k, active'[k][i]>> \in files
      BY <1>0, <3>2, <3>3, <3>4 DEF InPlace, NothingDangling
    <3> QED BY <2>1, <2>2, <3>5 DEF InPlace, NothingDangling
  <2> QED BY <2>3, <2>4
<1>4. CASE UNCHANGED vars
  BY <1>4 DEF vars, InPlace, NothingDangling, Placed
<1> QED BY <1>1, <1>2, <1>3, <1>4 DEF Next

(* Whatever dies wherever, latest.json and the active records name         *)
(* directories that are in place.                                          *)
THEOREM NeverDangling == Spec => []NothingDangling
<1>1. Init => InPlace
  BY DEF Init, InPlace, NothingDangling, Placed, NoLease
<1>2. TypeInv /\ InPlace /\ [Next]_vars => InPlace'
  BY PlacedStep
<1>3. InPlace => NothingDangling
  BY DEF InPlace
<1> QED BY <1>1, <1>2, <1>3, TypeAlways, PTL DEF Spec

-----------------------------------------------------------------------------
(* The pointer a builder leaves is that of the active record.              *)

LEMMA ConsultingStep ==
    ASSUME TypeInv, Consulting, [Next]_vars
    PROVE  Consulting'
<1>0. pc \in [Builders -> Phases] /\ seen \in [Builders -> Nat] /\ Nobody \notin Builders
  BY ConstantsOK DEF ConstantsOK, TypeInv, TypeOK, Phases
<1>1. ASSUME Unlocked PROVE \A b \in Builders : pc[b] # "reconciling"
  BY <1>0, <1>1 DEF Unlocked, Consulting
<1>2. ASSUME NEW b \in Builders, Build(b) PROVE Consulting'
  <2>1. CASE Read(b) \/ Place(b) \/ Reread(b) \/ Announce(b)
    BY <1>0, <2>1 DEF Consulting, Newest, Read, Place, Reread, Announce, Goes
  <2>2. CASE Begin(b) \/ Refused(b) \/ Publish(b) \/ Fail(b) \/ DiePublishing(b)
    BY <1>0, <1>1, <2>2 DEF Consulting, Begin, Refused, Publish, Fail, DiePublishing, Goes, Ends
  <2>3. CASE Consult(b)
    BY <1>0, <1>1, <2>3 DEF Consulting, Newest, Consult, Goes
  <2>4. CASE Settle(b)
    BY <1>0, <2>4 DEF Consulting, Settle, Ends
  <2>5. CASE Die(b)
    BY <1>0, <2>5 DEF Consulting, Newest, Die, Ends
  <2> QED BY <1>2, <2>1, <2>2, <2>3, <2>4, <2>5 DEF Build
<1>3. ASSUME NEW withdrawn \in SUBSET Kinds, NEW ends \in BOOLEAN, Command(withdrawn, ends)
      PROVE  Consulting'
  BY <1>1, <1>3 DEF Consulting, Command
<1>4. ASSUME Recover PROVE Consulting'
  BY <1>1, <1>4 DEF Consulting, Recover
<1>5. CASE UNCHANGED vars
  BY <1>5 DEF vars, Consulting, Newest
<1> QED BY <1>2, <1>3, <1>4, <1>5 DEF Next

(* A builder that reconciles leaves the pointer on the active record of    *)
(* that moment, or removes it when there is none.                          *)
THEOREM AlwaysReconciled == Spec => Reconciled
<1> DEFINE Left == \A b \in Builders : pc[b] = "reconciling" /\ pc'[b] = "idle" /\ faults' = faults =>
                      pointer'[Kind[b]] = Newest(Kind[b])'
<1>1. Init => Consulting
  BY DEF Init, Consulting
<1>2. TypeInv /\ Consulting /\ [Next]_vars => Consulting'
  BY ConsultingStep
<1>3. ASSUME TypeInv, Consulting, [Next]_vars PROVE Left
  <2> SUFFICES ASSUME NEW b \in Builders, pc[b] = "reconciling", pc'[b] = "idle", faults' = faults
               PROVE  pointer'[Kind[b]] = Newest(Kind[b])'
    OBVIOUS
  <2>0. /\ pc \in [Builders -> Phases] /\ faults \in Nat /\ lock = b /\ b # Nobody
        /\ seen[b] = Newest(Kind[b]) /\ pointer \in [Kinds -> Nat] /\ Kind[b] \in Kinds
    BY <1>3, KindIsKind DEF TypeInv, TypeOK, Phases, Consulting
  <2>1. ~Unlocked
    BY <2>0 DEF Unlocked
  <2>2. PICK c \in Builders : Build(c)
    BY <1>3, <2>0, <2>1 DEF Next, Command, Recover, vars
  <2>3. b = c
    BY <2>0, <2>2 DEF Build, Read, Begin, Refused, Reread, Place, Publish, Fail, Announce, Consult,
       Settle, Die, DiePublishing, Goes, Ends
  <2>4. Settle(b)
    BY <2>0, <2>1, <2>2, <2>3 DEF Build, Read, Begin, Refused, Reread, Place, Publish, Fail, Announce,
       Consult, Die, DiePublishing, Fault, Goes
  <2> QED BY <2>0, <2>4 DEF Settle, Target, Newest
<1>4. TypeInv /\ Consulting /\ [Next]_vars => [Left]_vars
  BY <1>3
<1> QED BY <1>1, <1>2, <1>4, TypeAlways, PTL DEF Spec, Reconciled


-----------------------------------------------------------------------------
(* Where latest.json stands.                                               *)
(*                                                                         *)
(* PointerSettled is not inductive: that the last builder to finish leaves *)
(* the pointer on the one active record takes that it found the newest     *)
(* (Consulting), and that without a fault no kind has two.                 *)

OneOrNone(k) == active[k] = <<>> \/ active[k] = <<Newest(k)>>

PointerInv ==
    faults = 0 =>
        /\ lease.phase # "publishing"
        /\ \A k \in Kinds : OneOrNone(k)
        /\ PointerSettled

LEMMA OneOrNoneOf ==
    ASSUME NEW k \in Kinds, NEW n, active'[k] = <<>> \/ active'[k] = <<n>>
    PROVE  OneOrNone(k)'
BY DEF OneOrNone, Newest

(* A step of a builder that leaves its kind's finishing, records and       *)
(* pointer as they were.                                                   *)
LEMMA PointerKept ==
    ASSUME PointerInv, faults = 0, UNCHANGED <<active, pointer>>, lease'.phase # "publishing",
           \A k \in Kinds : Finishing(k) => Finishing(k)'
    PROVE  PointerInv'
BY DEF PointerInv, OneOrNone, Newest, PointerSettled

LEMMA PointerStep == TypeInv /\ Consulting /\ PointerInv /\ [Next]_vars => PointerInv'
<1> SUFFICES ASSUME TypeInv, Consulting, PointerInv, [Next]_vars, faults' = 0 PROVE PointerInv'
  BY DEF PointerInv
<1>0. /\ pc \in [Builders -> Phases] /\ faults \in Nat /\ seen \in [Builders -> Nat]
      /\ active \in [Kinds -> Seq(Nat)] /\ pointer \in [Kinds -> Nat]
      /\ \A b \in Builders : Kind[b] \in Kinds
  BY KindIsKind DEF TypeInv, TypeOK, Phases
<1>1. ~Fault
  BY <1>0 DEF Fault
<1>2. faults = 0
  BY <1>0, <1>1 DEF Next, Build, Read, Begin, Refused, Reread, Place, Publish, Fail, Announce,
     Consult, Settle, Die, DiePublishing, Command, Recover, vars
<1>3. lease.phase # "publishing" /\ (\A k \in Kinds : OneOrNone(k)) /\ PointerSettled
  BY <1>2 DEF PointerInv
<1>4. ASSUME NEW b \in Builders, Build(b) PROVE PointerInv'
  <2>1. CASE Read(b) \/ Reread(b) \/ Place(b) \/ Begin(b) \/ Refused(b) \/ Fail(b) \/ Consult(b)
    <3>1. UNCHANGED <<active, pointer>> /\ lease'.phase # "publishing"
      BY <1>3, <2>1 DEF Read, Reread, Place, Begin, Refused, Fail, Consult, NoLease
    <3>2. \A c \in Builders : pc[c] \in {"registered", "announced", "reconciling"}
                                => pc'[c] \in {"registered", "announced", "reconciling"}
      BY <1>0, <2>1 DEF Read, Reread, Place, Begin, Refused, Fail, Consult, Goes, Ends
    <3> QED BY <1>2, <3>1, <3>2, PointerKept DEF Finishing
  <2>2. CASE Publish(b)
    <3>1. /\ lease'.phase # "publishing" /\ pointer' = pointer
          /\ active' = [active EXCEPT ![Kind[b]] = <<read[b]>>]
      BY <2>2 DEF Publish, NoLease
    <3>2. \A k \in Kinds : OneOrNone(k)'
      BY <1>0, <1>3, <3>1, OneOrNoneOf DEF OneOrNone
    <3>3. Finishing(Kind[b])' /\ \A k \in Kinds : Finishing(k) => Finishing(k)'
      BY <1>0, <2>2 DEF Publish, Finishing
    <3>4. PointerSettled'
      BY <1>0, <1>2, <1>3, <3>1, <3>3 DEF PointerSettled
    <3> QED BY <3>1, <3>2, <3>4 DEF PointerInv
  <2>3. CASE Announce(b)
    <3>1. /\ lease' = lease /\ active' = active
          /\ \A k \in Kinds : k # Kind[b] => pointer'[k] = pointer[k]
      BY <1>0, <2>3 DEF Announce
    <3>2. Finishing(Kind[b])' /\ \A k \in Kinds : Finishing(k) => Finishing(k)'
      BY <1>0, <2>3 DEF Announce, Goes, Finishing
    <3> QED BY <1>2, <1>3, <3>1, <3>2 DEF PointerInv, PointerSettled, OneOrNone, Newest
  <2>4. CASE Settle(b)
    <3>1. /\ lease' = lease /\ active' = active
          /\ pointer' = [pointer EXCEPT ![Kind[b]] = Newest(Kind[b])]
      BY <2>4 DEF Settle, Target, Consulting
    <3>2. \A k \in Kinds : k # Kind[b] /\ Finishing(k) => Finishing(k)'
      BY <1>0, <2>4 DEF Settle, Ends, Finishing
    <3>3. PointerSettled'
      BY <1>0, <1>2, <1>3, <3>1, <3>2 DEF PointerSettled, OneOrNone
    <3> QED BY <1>3, <3>1, <3>3 DEF PointerInv, OneOrNone, Newest
  <2> QED BY <1>1, <1>4, <2>1, <2>2, <2>3, <2>4 DEF Build, Die, DiePublishing
<1>5. ASSUME NEW withdrawn \in SUBSET Kinds, NEW ends \in BOOLEAN, Command(withdrawn, ends)
      PROVE  PointerInv'
  <2>1. /\ lease'.phase # "publishing" /\ UNCHANGED <<pointer, pc>>
        /\ \A k \in Kinds : active'[k] = <<>> \/ active'[k] = active[k]
    BY <1>3, <1>5 DEF Command, NoLease
  <2>2. \A k \in Kinds : OneOrNone(k)'
    BY <1>3, <2>1, OneOrNoneOf DEF OneOrNone
  <2>3. PointerSettled'
    BY <1>2, <1>3, <2>1 DEF PointerSettled, Finishing
  <2> QED BY <2>1, <2>2, <2>3 DEF PointerInv
<1>6. ASSUME Recover PROVE PointerInv'
  <2>1. lease' = NoLease /\ UNCHANGED <<active, pointer, pc>>
    BY <1>3, <1>6 DEF Recover
  <2> QED BY <1>2, <2>1, PointerKept DEF NoLease, Finishing
<1>7. CASE UNCHANGED vars
  BY <1>2, <1>3, <1>7, PointerKept DEF vars, Finishing
<1> QED BY <1>4, <1>5, <1>6, <1>7 DEF Next

(* Without faults, a stale builder that finishes late does not leave       *)
(* latest.json on its own target: when none of its kind is between         *)
(* registration and reconciliation, the pointer names the one active       *)
(* record, if there is one.                                                *)
THEOREM PointersSettle == Spec => []PointerSettled
<1>1. Init => Consulting /\ PointerInv
  BY DEF Init, Consulting, PointerInv, NoLease, OneOrNone, PointerSettled
<1>2. TypeInv /\ Consulting /\ PointerInv /\ [Next]_vars => Consulting' /\ PointerInv'
  BY ConsultingStep, PointerStep
<1>3. PointerInv => PointerSettled
  BY DEF PointerInv, PointerSettled
<1> QED BY <1>1, <1>2, <1>3, TypeAlways, PTL DEF Spec
=============================================================================
