-------------------------- MODULE InstallerProofs ---------------------------
(***************************************************************************)
(* Proofs about Installer.  That its state is well typed rests on what     *)
(* each phase of the transaction knows of its own directories (Shape) and  *)
(* holds for any number of installers.  That no file of the user is lost   *)
(* rests on where the file is in each phase (Kept), and needs that no two  *)
(* installers are at work on one destination, and so does that leftovers   *)
(* are told.  That a run that ends has done all or nothing rests on where  *)
(* what it found is in each phase (Track), for any number of installers.   *)
(***************************************************************************)
EXTENDS Installer, TLAPS

(* What an installer has at each point of its run.                         *)
Shape(i) ==
    /\ pc[i] # "idle" => job[i] \in Jobs
    /\ pc[i] \in {"idle", "planned"} => stage[i] = Absent
    /\ pc[i] \in {"staged", "moving"} => stage[i] # Absent
    /\ pc[i] \in {"idle", "planned", "staged"} => backup[i] = Absent
    /\ pc[i] \in {"planned", "staged", "moving"} => ~job[i].committed /\ ~mishap[i].swapped
    /\ pc[i] \in {"building", "cleanup", "removing"} => job[i].committed /\ stage[i] = Absent
    /\ pc[i] = "undo" => (job[i].committed \/ mishap[i].swapped <=> stage[i] = Absent)
    /\ backup[i] # Absent => job[i].had
    /\ pc[i] = "moving" /\ job[i].had => backup[i] # Absent
    /\ \A p \in moved[i] : backup[i] # Absent /\ backup[i][p] = None

Shapes == TypeOK /\ \A i \in Installers : Shape(i)

-----------------------------------------------------------------------------
(* Directories.                                                            *)

LEMMA EmptyTree == Empty \in Trees
BY DEF Empty, Trees

LEMMA TreeUpdate ==
    ASSUME NEW t \in Trees, NEW p \in Paths, NEW c \in {None} \cup UserContent \cup Versions
    PROVE  /\ [t EXCEPT ![p] = c] \in Trees
           /\ [t EXCEPT ![p] = c][p] = c
           /\ \A q \in Paths : q # p => [t EXCEPT ![p] = c][q] = t[q]
BY DEF Trees

LEMMA PackageTree ==
    ASSUME NEW j \in Jobs
    PROVE  Package(j) \in Trees
<1>1. j.version \in Versions
  BY DEF Jobs
<1> QED BY <1>1, EmptyTree DEF Package, Trees

LEMMA PartTree ==
    ASSUME NEW t \in Trees, NEW rest \in SUBSET Present(t)
    PROVE  [p \in Paths |-> IF p \in rest THEN t[p] ELSE None] \in Trees
BY DEF Trees

LEMMA TreeIsThere == \A t \in Trees : t # Absent
BY ConstantsOK DEF ConstantsOK

LEMMA ManagedPaths ==
    ASSUME NEW t \in Trees \cup {Absent}
    PROVE  /\ Known(t) \in Versions \cup {None}
           /\ Managed(t) \subseteq Paths
BY ConstantsOK DEF ConstantsOK, Known, Managed, Paths

-----------------------------------------------------------------------------
(* What the others have is left alone.                                     *)

Own(i) == <<pc[i], job[i], stage[i], backup[i], moved[i], mishap[i]>>

LEMMA OthersSame ==
    ASSUME TypeOK, NEW i \in Installers, Step(i), NEW k \in Installers, k # i
    PROVE  UNCHANGED Own(k)
BY DEF TypeOK, Step, Own, Install, Uninstall, Begin, Decide, Refuse, At, GoTo, Commit, End,
       decided, counters, mishaps, CopyToStage, CopyFails, SetAside, MoveIn, MoveInCut, Rename,
       SwapIn, SwapInCut, Swap, BuildEnvironment, Fails, RemoveBackup, RemoveBackupFails,
       AfterBackup, RemoveDirectory, RemoveDirectoryFails, TakeOut, MoveBack, PutBack,
       UndoFails, Discard, DiscardFails, Die

-----------------------------------------------------------------------------
(* Types and phases.                                                       *)

(* It is enough to look at what an installer does to its own state.        *)
LEMMA ShapesFrom ==
    ASSUME Shapes, NEW i \in Installers, Step(i), TypeOK', Shape(i)'
    PROVE  Shapes'
<1>1. SUFFICES ASSUME NEW k \in Installers, k # i
               PROVE  Shape(k)'
  BY DEF Shapes
<1>2. UNCHANGED Own(k) /\ Shape(k)
  BY <1>1, OthersSame DEF Shapes
<1> QED BY <1>2 DEF Own, Shape

LEMMA BeginTypes ==
    ASSUME Shapes, NEW i \in Installers, Begin(i)
    PROVE  /\ pc[i] = "idle" /\ told' \in [Installers -> BOOLEAN]
           /\ {jobs', writes', faults'} \subseteq Nat
           /\ UNCHANGED <<dest, stage, backup, orphans, moved, unnoted>>
BY DEF Shapes, TypeOK, Begin

LEMMA DecideTypes ==
    ASSUME Shapes, NEW i \in Installers, Begin(i), NEW j \in Jobs, ~j.committed,
           NEW gaveUp, Decide(i, j, gaveUp)
    PROVE  TypeOK' /\ Shape(i)'
<1>1. /\ pc'[i] = "planned" /\ job'[i] = j /\ stage'[i] = Absent /\ backup'[i] = Absent
      /\ moved'[i] = moved[i] /\ ~mishap'[i].swapped
  BY BeginTypes DEF Shapes, Shape, TypeOK, Decide, NoMishap
<1>2. Shape(i)'
  BY <1>1, BeginTypes DEF Shapes, Shape
<1>3. TypeOK'
  BY BeginTypes DEF Shapes, TypeOK, Decide, Steps, Results, NoMishap, Mishaps
<1> QED BY <1>2, <1>3

LEMMA RefuseTypes ==
    ASSUME Shapes, NEW i \in Installers, Begin(i), NEW why \in Results, Refuse(i, why)
    PROVE  TypeOK' /\ Shape(i)'
<1>1. Shape(i)'
  BY BeginTypes DEF Shapes, Shape, Refuse, decided
<1>2. TypeOK'
  BY BeginTypes DEF Shapes, TypeOK, Refuse, decided
<1> QED BY <1>1, <1>2

LEMMA InstallTypes ==
    ASSUME Shapes, NEW i \in Installers, NEW v \in Versions, NEW env \in BOOLEAN,
           NEW force \in BOOLEAN, Install(i, v, env, force)
    PROVE  TypeOK' /\ Shape(i)'
<1> DEFINE owned == Owned(dest, Shipped[v], env)
           j == [kind |-> "install", version |-> v, env |-> env, purge |-> FALSE,
                 preserved |-> Preserved(dest, owned), had |-> FALSE, committed |-> FALSE]
<1>1. Preserved(dest, owned) \subseteq Paths \ {Manifest}
  BY DEF Owned, Preserved, Present
<1>2. j \in Jobs /\ ~j.committed
  BY <1>1 DEF Jobs
<1>3. Begin(i)
  BY DEF Install
<1>4. \/ Refuse(i, "unchanged") \/ Refuse(i, "refused")
      \/ Decide(i, j, IF force THEN owned ELSE {})
  BY DEF Install
<1>5. {"unchanged", "refused"} \subseteq Results
  BY DEF Results
<1> HIDE DEF j, owned
<1> QED BY <1>2, <1>3, <1>4, <1>5, DecideTypes, RefuseTypes

LEMMA UninstallTypes ==
    ASSUME Shapes, NEW i \in Installers, NEW keep \in BOOLEAN, NEW force \in BOOLEAN,
           NEW purge \in BOOLEAN, Uninstall(i, keep, force, purge)
    PROVE  TypeOK' /\ Shape(i)'
<1> DEFINE v == Known(dest)
           owned == Owned(dest, {}, ~keep)
           j == [kind |-> "uninstall", version |-> v, env |-> ~keep, purge |-> purge,
                 preserved |-> IF purge THEN {} ELSE Preserved(dest, owned),
                 had |-> FALSE, committed |-> FALSE]
<1>1. Preserved(dest, owned) \subseteq Paths \ {Manifest}
  BY DEF Owned, Preserved, Present
<1>2. v # None => j \in Jobs /\ ~j.committed
  BY <1>1, ManagedPaths DEF Jobs, Shapes, TypeOK
<1>3. Begin(i)
  BY DEF Uninstall
<1>4. \/ Refuse(i, "refused")
      \/ v # None /\ Decide(i, j, IF purge THEN Paths ELSE IF force THEN owned ELSE {})
  BY DEF Uninstall
<1>5. "refused" \in Results
  BY DEF Results
<1> HIDE DEF j, owned, v
<1> QED BY <1>2, <1>3, <1>4, <1>5, DecideTypes, RefuseTypes

LEMMA EndTypes ==
    ASSUME Shapes, NEW i \in Installers, NEW how \in Results, NEW tells \in BOOLEAN,
           NEW leaves \in SUBSET (Trees \cup {Absent}), End(i, how, tells, leaves),
           dest' \in Trees \cup {Absent}, job' = job, before' = before, mine' = mine,
           disturbed' \in [Installers -> BOOLEAN], UNCHANGED counters, faults' \in Nat,
           mishap' \in [Installers -> Mishaps], unnoted' \subseteq Paths
    PROVE  TypeOK' /\ Shape(i)'
<1>1. Shape(i)'
  BY DEF Shapes, TypeOK, Shape, End, GoTo
<1>2. TypeOK'
  BY DEF Shapes, TypeOK, End, GoTo, counters, Steps
<1> QED BY <1>1, <1>2

(* After the backup, a run ends or goes on to remove the empty directory.  *)
LEMMA AfterBackupTypes ==
    ASSUME Shapes, NEW i \in Installers, pc[i] = "cleanup",
           NEW left \in Trees \cup {Absent}, AfterBackup(i, left),
           left # Absent => backup[i] # Absent,
           UNCHANGED <<dest, job, before, disturbed, mine, mishap, unnoted>>,
           UNCHANGED counters, faults' \in Nat
    PROVE  TypeOK' /\ Shape(i)'
<1>1. TypeOK /\ Shape(i)
  BY DEF Shapes
<1>2. CASE End(i, "ok", left # Absent, {left})
  BY <1>1, <1>2, EndTypes DEF TypeOK, Results
<1>3. CASE /\ GoTo(i, "removing") /\ backup' = [backup EXCEPT ![i] = left]
           /\ moved' = [moved EXCEPT ![i] = {}] /\ UNCHANGED <<stage, orphans, result, told>>
  <2>1. TypeOK'
    BY <1>1, <1>3 DEF TypeOK, GoTo, counters, Steps
  <2>2. Shape(i)'
    BY <1>1, <1>3 DEF TypeOK, Shape, GoTo
  <2> QED BY <2>1, <2>2
<1> QED BY <1>2, <1>3 DEF AfterBackup

LEMMA FaultTypes ==
    ASSUME TypeOK
    PROVE  /\ Fault => faults' \in Nat
           /\ \A i : Disturb(i) => disturbed' \in [Installers -> BOOLEAN]
<1>1. Fault => faults' \in Nat
  BY DEF TypeOK, Fault
<1>2. ASSUME NEW i, Disturb(i)
      PROVE  disturbed' \in [Installers -> BOOLEAN]
  <2>1. \A k \in Installers : (disturbed[k] \/ k # i) \in BOOLEAN
    OBVIOUS
  <2> QED BY <1>2, <2>1 DEF Disturb
<1> QED BY <1>1, <1>2

LEMMA EndingTypes ==
    ASSUME Shapes, NEW i \in Installers,
           \/ CopyFails(i) \/ RemoveBackup(i) \/ RemoveBackupFails(i)
           \/ RemoveDirectory(i) \/ RemoveDirectoryFails(i) \/ UndoFails(i)
           \/ Discard(i) \/ DiscardFails(i) \/ Die(i)
    PROVE  TypeOK' /\ Shape(i)'
<1> USE FaultTypes DEF decided, At, Results, mishaps
<1>1. /\ TypeOK /\ dest \in Trees \cup {Absent} /\ disturbed \in [Installers -> BOOLEAN]
      /\ faults \in Nat /\ stage[i] \in Trees \cup {Absent} /\ backup[i] \in Trees \cup {Absent}
      /\ mishap \in [Installers -> Mishaps] /\ unnoted \subseteq Paths
  BY DEF Shapes, TypeOK
<1>2. CASE CopyFails(i)
  <2>1. job[i] \in Jobs
    BY <1>2 DEF CopyFails, Shapes, Shape
  <2> QED BY <1>1, <1>2, <2>1, PackageTree, EndTypes DEF CopyFails
<1>3. CASE RemoveBackup(i)
  BY <1>1, <1>3, AfterBackupTypes DEF RemoveBackup
<1>4. CASE RemoveBackupFails(i)
  BY <1>1, <1>4, PartTree, AfterBackupTypes DEF RemoveBackupFails
<1>9. CASE RemoveDirectory(i)
  BY <1>1, <1>9, EndTypes DEF RemoveDirectory
<1>10. CASE RemoveDirectoryFails(i)
  <2>1. mishap' \in [Installers -> Mishaps]
    BY <1>1, <1>10 DEF RemoveDirectoryFails, Mishaps
  <2> QED BY <1>1, <1>10, <2>1, EndTypes DEF RemoveDirectoryFails
<1>5. CASE UndoFails(i)
  BY <1>1, <1>5, EndTypes DEF UndoFails
<1>6. CASE Discard(i)
  BY <1>1, <1>6, EndTypes DEF Discard
<1>7. CASE DiscardFails(i)
  BY <1>1, <1>7, PartTree, EndTypes DEF DiscardFails
<1>8. CASE Die(i)
  BY <1>1, <1>8, EndTypes DEF Die
<1> QED BY <1>2, <1>3, <1>4, <1>5, <1>6, <1>7, <1>8, <1>9, <1>10

LEMMA MovingTypes ==
    ASSUME Shapes, NEW i \in Installers,
           CopyToStage(i) \/ SetAside(i) \/ \E p \in Paths : MoveIn(i, p) \/ MoveInCut(i, p)
    PROVE  TypeOK' /\ Shape(i)'
<1> USE DEF At, GoTo, decided, counters, mishaps
<1>1. /\ TypeOK /\ Shape(i) /\ stage[i] \in Trees \cup {Absent}
      /\ backup[i] \in Trees \cup {Absent} /\ dest \in Trees \cup {Absent}
      /\ pc[i] # "idle" => job[i] \in Jobs
  BY DEF Shapes, TypeOK, Shape
<1>2. CASE CopyToStage(i)
  <2>1. Package(job[i]) \in Trees /\ Package(job[i]) # Absent
    BY <1>1, <1>2, PackageTree, TreeIsThere DEF CopyToStage
  <2>2. TypeOK'
    BY <1>1, <1>2, <2>1 DEF CopyToStage, TypeOK, Steps
  <2>3. Shape(i)'
    BY <1>1, <1>2, <2>1 DEF CopyToStage, TypeOK, Shape
  <2> QED BY <2>2, <2>3
<1>3. CASE SetAside(i)
  <2> DEFINE j == [job[i] EXCEPT !.had = (dest # Absent)]
  <2>1. /\ j \in Jobs /\ j.committed = job[i].committed /\ j.had = (dest # Absent)
        /\ job' = [job EXCEPT ![i] = j]
    BY <1>1, <1>3 DEF SetAside, Jobs
  <2> HIDE DEF j
  <2>2. TypeOK'
    BY <1>1, <1>3, <2>1, FaultTypes DEF SetAside, TypeOK, Steps
  <2>3. Shape(i)'
    BY <1>1, <1>3, <2>1 DEF SetAside, TypeOK, Shape
  <2> QED BY <2>2, <2>3
<1>4. ASSUME NEW p \in Paths, MoveIn(i, p) \/ MoveInCut(i, p)
      PROVE  TypeOK' /\ Shape(i)'
  <2>1. /\ pc[i] = "moving" /\ job[i].had /\ backup[i] # Absent /\ stage[i] # Absent
        /\ p \in ToMove(i) /\ Rename(i, p)
    BY <1>1, <1>4 DEF MoveIn, MoveInCut, Rename, ToMove, Shape
  <2>2. stage[i] \in Trees /\ backup[i] \in Trees /\ backup[i][p] \in {None} \cup UserContent \cup Versions
    BY <1>1, <2>1 DEF Trees
  <2> DEFINE s == [stage[i] EXCEPT ![p] = backup[i][p]]
             b == [backup[i] EXCEPT ![p] = None]
  <2>3. /\ s \in Trees /\ b \in Trees /\ s # Absent /\ b # Absent
        /\ b[p] = None /\ \A q \in Paths : q # p => b[q] = backup[i][q]
    BY <2>2, TreeUpdate, TreeIsThere
  <2>4. /\ stage' = [stage EXCEPT ![i] = s] /\ backup' = [backup EXCEPT ![i] = b]
        /\ UNCHANGED <<dest, orphans, job, before, disturbed, result, told, mine, jobs, writes>>
    BY <1>4, <2>1 DEF MoveIn, MoveInCut, Rename
  <2> HIDE DEF s, b
  <2>5. CASE MoveIn(i, p)
    <3>1. moved' = [moved EXCEPT ![i] = moved[i] \cup {p}] /\ UNCHANGED <<pc, mishap, unnoted, faults>>
      BY <2>5 DEF MoveIn
    <3>2. TypeOK'
      BY <1>1, <2>3, <2>4, <3>1 DEF TypeOK
    <3>3. Shape(i)'
      BY <1>1, <2>1, <2>3, <2>4, <3>1 DEF TypeOK, Shape
    <3> QED BY <3>2, <3>3
  <2>6. CASE MoveInCut(i, p)
    <3>1. /\ pc' = [pc EXCEPT ![i] = "undo"] /\ unnoted' = unnoted \cup {p} /\ moved' = moved
          /\ mishap' = [mishap EXCEPT ![i].moved = @ \cup {p}] /\ faults' \in Nat
      BY <1>1, <2>6, FaultTypes DEF MoveInCut
    <3>2. /\ mishap' \in [Installers -> Mishaps] /\ mishap'[i].swapped = mishap[i].swapped
      BY <1>1, <3>1 DEF TypeOK, Mishaps
    <3>3. TypeOK'
      BY <1>1, <2>3, <2>4, <3>1, <3>2 DEF TypeOK, Steps
    <3>4. Shape(i)'
      BY <1>1, <2>1, <2>3, <2>4, <3>1, <3>2 DEF TypeOK, Shape
    <3> QED BY <3>3, <3>4
  <2> QED BY <1>4, <2>5, <2>6
<1> QED BY <1>2, <1>3, <1>4

LEMMA SwappingTypes ==
    ASSUME Shapes, NEW i \in Installers,
           SwapIn(i) \/ SwapInCut(i) \/ BuildEnvironment(i) \/ Fails(i)
    PROVE  TypeOK' /\ Shape(i)'
<1> USE DEF At, GoTo, decided, counters, mishaps
<1>1. /\ TypeOK /\ Shape(i) /\ stage[i] \in Trees \cup {Absent}
      /\ backup[i] \in Trees \cup {Absent} /\ dest \in Trees \cup {Absent}
      /\ pc[i] # "idle" => job[i] \in Jobs
  BY DEF Shapes, TypeOK, Shape
<1>2. CASE SwapIn(i)
  <2> DEFINE j == [job[i] EXCEPT !.committed = TRUE]
  <2>1. /\ j \in Jobs /\ j.committed = TRUE /\ j.had = job[i].had
        /\ job' = [job EXCEPT ![i] = j]
    BY <1>1, <1>2 DEF SwapIn, Swap, Commit, Jobs
  <2> HIDE DEF j
  <2>2. TypeOK'
    BY <1>1, <1>2, <2>1, FaultTypes DEF SwapIn, Swap, TypeOK, Steps
  <2>3. Shape(i)'
    BY <1>1, <1>2, <2>1 DEF SwapIn, Swap, TypeOK, Shape
  <2> QED BY <2>2, <2>3
<1>6. CASE SwapInCut(i)
  <2>1. PICK j \in Jobs, m \in Mishaps :
           /\ job' = [job EXCEPT ![i] = j] /\ mishap' = [mishap EXCEPT ![i] = m]
           /\ j.had = job[i].had /\ (j.committed \/ m.swapped)
    <3>1. job[i] \in Jobs /\ mishap[i] \in Mishaps /\ job \in [Installers -> Jobs \cup {NoJob}]
          /\ mishap \in [Installers -> Mishaps]
      BY <1>1, <1>6 DEF SwapInCut, Swap, TypeOK
    <3>2. CASE Commit(i) /\ UNCHANGED mishap
      <4> DEFINE j == [job[i] EXCEPT !.committed = TRUE]
      <4>1. j \in Jobs /\ j.committed = TRUE /\ j.had = job[i].had /\ job' = [job EXCEPT ![i] = j]
        BY <3>1, <3>2 DEF Commit, Jobs
      <4>2. mishap' = [mishap EXCEPT ![i] = mishap[i]]
        BY <3>1, <3>2
      <4> QED BY <3>1, <4>1, <4>2
    <3>3. CASE mishap' = [mishap EXCEPT ![i].swapped = TRUE] /\ UNCHANGED job
      <4> DEFINE m == [mishap[i] EXCEPT !.swapped = TRUE]
      <4>1. m \in Mishaps /\ m.swapped = TRUE /\ mishap' = [mishap EXCEPT ![i] = m]
        BY <3>1, <3>3 DEF Mishaps
      <4>2. job' = [job EXCEPT ![i] = job[i]]
        BY <3>1, <3>3
      <4> QED BY <3>1, <4>1, <4>2
    <3> QED BY <1>6, <3>2, <3>3 DEF SwapInCut
  <2>2. TypeOK'
    <3>1. /\ dest' = stage[i] /\ stage' = [stage EXCEPT ![i] = Absent] /\ faults' \in Nat
          /\ disturbed' \in [Installers -> BOOLEAN] /\ pc' = [pc EXCEPT ![i] = "undo"]
          /\ UNCHANGED <<backup, orphans, before, moved, result, told, mine, unnoted, jobs, writes>>
      BY <1>1, <1>6, FaultTypes DEF SwapInCut, Swap
    <3> QED BY <1>1, <2>1, <3>1 DEF TypeOK, Steps
  <2>3. Shape(i)'
    BY <1>1, <1>6, <2>1 DEF SwapInCut, Swap, TypeOK, Shape
  <2> QED BY <2>2, <2>3
<1>3. dest # Absent /\ pc[i] = "building" => [dest EXCEPT ![Venv] = job[i].version] \in Trees
  BY <1>1, TreeUpdate DEF Jobs, Paths
<1>4. CASE BuildEnvironment(i)
  <2>1. TypeOK'
    BY <1>1, <1>3, <1>4, FaultTypes DEF BuildEnvironment, TypeOK, Steps
  <2>2. Shape(i)'
    BY <1>1, <1>4 DEF BuildEnvironment, TypeOK, Shape
  <2> QED BY <2>1, <2>2
<1>5. CASE Fails(i)
  <2> DEFINE j == [job[i] EXCEPT !.had = IF pc[i] = "staged" THEN dest # Absent ELSE @]
  <2>1. /\ j \in Jobs /\ j.committed = job[i].committed
        /\ pc[i] # "staged" => j.had = job[i].had
        /\ job' = [job EXCEPT ![i] = j]
    BY <1>1, <1>5 DEF Fails, Jobs
  <2>2. /\ dest' \in Trees \cup {Absent} /\ disturbed' \in [Installers -> BOOLEAN]
        /\ faults' \in Nat
    BY <1>1, <1>3, <1>5, FaultTypes DEF Fails, TypeOK
  <2> HIDE DEF j
  <2>3. TypeOK'
    <3>1. /\ pc' = [pc EXCEPT ![i] = "undo"]
          /\ UNCHANGED <<stage, backup, orphans, before, moved, result, told, mine, mishap, unnoted,
                         jobs, writes>>
      BY <1>5 DEF Fails
    <3> QED BY <1>1, <2>1, <2>2, <3>1 DEF TypeOK, Steps
  <2>4. Shape(i)'
    BY <1>1, <1>5, <2>1 DEF Fails, TypeOK, Shape
  <2> QED BY <2>3, <2>4
<1> QED BY <1>2, <1>4, <1>5, <1>6

LEMMA UndoTypes ==
    ASSUME Shapes, NEW i \in Installers,
           TakeOut(i) \/ PutBack(i) \/ \E p \in Paths : MoveBack(i, p)
    PROVE  TypeOK' /\ Shape(i)'
<1> USE DEF At, GoTo, decided, counters, mishaps, Restorable
<1>1. /\ TypeOK /\ Shape(i) /\ stage[i] \in Trees \cup {Absent}
      /\ backup[i] \in Trees \cup {Absent} /\ dest \in Trees \cup {Absent}
  BY DEF Shapes, TypeOK
<1>2. CASE TakeOut(i)
  <2>1. TypeOK'
    BY <1>1, <1>2, FaultTypes DEF TakeOut, TypeOK, Steps
  <2>2. Shape(i)'
    BY <1>1, <1>2 DEF TakeOut, TypeOK, Shape
  <2> QED BY <2>1, <2>2
<1>3. CASE PutBack(i)
  <2>1. TypeOK'
    BY <1>1, <1>3, FaultTypes DEF PutBack, TypeOK, Steps
  <2>2. Shape(i)'
    BY <1>1, <1>3 DEF PutBack, TypeOK, Shape
  <2> QED BY <2>1, <2>2
<1>4. ASSUME NEW p \in Paths, MoveBack(i, p)
      PROVE  TypeOK' /\ Shape(i)'
  <2>1. backup[i] \in Trees /\ backup[i] # Absent /\ pc[i] = "restoring"
    BY <1>1, <1>4 DEF MoveBack
  <2>2. CASE stage[i] # Absent /\ stage[i][p] # None
    <3>1. stage[i] \in Trees /\ stage[i][p] \in {None} \cup UserContent \cup Versions
      BY <1>1, <2>2 DEF Trees
    <3> DEFINE s == [stage[i] EXCEPT ![p] = None]
               b == [backup[i] EXCEPT ![p] = stage[i][p]]
    <3>2. /\ s \in Trees /\ b \in Trees /\ s # Absent /\ b # Absent
          /\ \A q \in Paths : q # p => b[q] = backup[i][q]
      <4>1. s \in Trees
        BY <3>1, TreeUpdate
      <4>2. b \in Trees /\ \A q \in Paths : q # p => b[q] = backup[i][q]
        BY <2>1, <3>1, TreeUpdate
      <4> QED BY <4>1, <4>2, TreeIsThere
    <3>3. /\ stage' = [stage EXCEPT ![i] = s] /\ backup' = [backup EXCEPT ![i] = b]
          /\ moved' = [moved EXCEPT ![i] = moved[i] \ {p}]
          /\ UNCHANGED <<dest, orphans, pc, job, before, disturbed, result, told, mine,
                         mishap, unnoted, jobs, writes, faults>>
      BY <1>4, <2>2 DEF MoveBack
    <3> HIDE DEF s, b
    <3>4. TypeOK'
      BY <1>1, <3>2, <3>3 DEF TypeOK
    <3>5. Shape(i)'
      BY <1>1, <2>1, <3>2, <3>3 DEF TypeOK, Shape
    <3> QED BY <3>4, <3>5
  <2>3. CASE ~(stage[i] # Absent /\ stage[i][p] # None)
    <3>1. TypeOK'
      BY <1>1, <1>4, <2>3 DEF MoveBack, TypeOK
    <3>2. Shape(i)'
      BY <1>1, <1>4, <2>1, <2>3 DEF MoveBack, TypeOK, Shape
    <3> QED BY <3>1, <3>2
  <2> QED BY <2>2, <2>3
<1> QED BY <1>2, <1>3, <1>4

LEMMA UserTypes ==
    ASSUME Shapes, NEW p \in Paths, UserWrites(p) \/ UserRemoves(p)
    PROVE  Shapes'
<1>1. /\ TypeOK /\ mine \in [Paths -> {None} \cup UserContent] /\ unnoted \subseteq Paths
      /\ mishap \in [Installers -> Mishaps] /\ writes + 1 \in Nat
  BY DEF Shapes, TypeOK
<1>2. UNCHANGED <<stage, backup, orphans, pc, decided, moved, result, told, jobs, faults>>
      /\ writes' = writes + 1 /\ disturbed' \in [Installers -> BOOLEAN]
  BY <1>1, FaultTypes DEF UserWrites, UserRemoves
<1>3. /\ dest' \in Trees /\ mine' \in [Paths -> {None} \cup UserContent] /\ unnoted' \subseteq Paths
      /\ mishap' \in [Installers -> Mishaps] /\ \A k \in Installers : mishap'[k].swapped = mishap[k].swapped
  <2>1. CASE UserWrites(p)
    <3> DEFINE t == IF dest = Absent THEN Empty ELSE dest
    <3>1. t \in Trees
      BY <1>1, EmptyTree DEF TypeOK
    <3>2. PICK c \in UserContent : /\ dest' = [t EXCEPT ![p] = c]
                                   /\ mine' \in {mine, [mine EXCEPT ![p] = c]}
                                   /\ unnoted' \in {unnoted, unnoted \ {p}}
      BY <2>1 DEF UserWrites, UserContent
    <3>3. dest' \in Trees /\ mine' \in [Paths -> {None} \cup UserContent]
      BY <1>1, <3>1, <3>2, TreeUpdate
    <3>4. /\ mishap' \in [Installers -> Mishaps]
          /\ \A k \in Installers : mishap'[k].swapped = mishap[k].swapped
      <4>1. mishap' = [k \in Installers |->
               [mishap[k] EXCEPT !.recreated = @ \/ (dest = Absent /\ backup[k] # Absent)]]
        BY <2>1 DEF UserWrites
      <4> QED BY <1>1, <4>1 DEF Mishaps
    <3> QED BY <1>1, <3>2, <3>3, <3>4
  <2>2. CASE UserRemoves(p)
    <3>1. dest \in Trees /\ mine' \in {mine, [mine EXCEPT ![p] = None]}
          /\ dest' = [dest EXCEPT ![p] = None] /\ UNCHANGED <<mishap, unnoted>>
      BY <1>1, <2>2 DEF UserRemoves, TypeOK, mishaps
    <3> QED BY <1>1, <3>1, TreeUpdate
  <2> QED BY <2>1, <2>2
<1>5. TypeOK'
  BY <1>1, <1>2, <1>3 DEF TypeOK, decided
<1>6. \A k \in Installers : Shape(k)'
  BY <1>2, <1>3 DEF Shapes, Shape, decided
<1> QED BY <1>5, <1>6 DEF Shapes

LEMMA ShapesInductive == Shapes /\ [Next]_vars => Shapes'
<1> SUFFICES ASSUME Shapes, [Next]_vars
             PROVE  Shapes'
  OBVIOUS
<1>1. ASSUME NEW i \in Installers, Step(i)
      PROVE  Shapes'
  <2>1. TypeOK' /\ Shape(i)'
    BY <1>1, InstallTypes, UninstallTypes, EndingTypes, MovingTypes, SwappingTypes, UndoTypes
       DEF Step
  <2> QED BY <1>1, <2>1, ShapesFrom
<1>2. ASSUME NEW p \in Paths, UserWrites(p) \/ UserRemoves(p)
      PROVE  Shapes'
  BY <1>2, UserTypes
<1>3. CASE UNCHANGED vars
  BY <1>3 DEF Shapes, TypeOK, Shape, vars
<1> QED BY <1>1, <1>2, <1>3 DEF Next, Paths

LEMMA ShapesInitial == Init => Shapes
<1> SUFFICES ASSUME Init
             PROVE  Shapes
  OBVIOUS
<1>1. TypeOK
  BY EmptyTree DEF Init, TypeOK, Steps, Results, Empty, NoMishap, Mishaps
<1>2. \A i \in Installers : Shape(i)
  BY DEF Init, Shape
<1> QED BY <1>1, <1>2 DEF Shapes

(* The state of every installer, of the destination and of what is left    *)
(* over is well typed; in particular no run ever takes the manifest for a  *)
(* file of the user (owned_files, install_skill.py).                       *)
THEOREM TypeCorrect == Spec => []TypeOK
<1>1. Shapes => TypeOK
  BY DEF Shapes
<1> QED BY <1>1, ShapesInitial, ShapesInductive, PTL DEF Spec

-----------------------------------------------------------------------------
(* No file of the user is lost.                                            *)

Held(t, p) == t # Absent /\ t[p] = "early"

(* Where a file of the user is: among what was left over; at the           *)
(* destination, from where the installer will take it along or bring it    *)
(* back; or in one of the directories on the way.                          *)
Kept(i, p) ==
    \/ \E t \in orphans : t[p] = "early"
    \/ /\ Held(dest, p)
       /\ pc[i] \in {"planned", "staged"} => p \in job[i].preserved
       /\ pc[i] \in {"building", "cleanup"} => p \in moved[i]
       /\ pc[i] = "undo" /\ job[i].committed => p \in moved[i]
    \/ pc[i] = "moving" /\ Held(backup[i], p) /\ p \in ToMove(i)
    \/ pc[i] = "undo" /\ Held(backup[i], p) /\ ~job[i].committed
    \/ pc[i] \in {"restoring", "discarding"} /\ Held(backup[i], p)
    \/ pc[i] \in {"moving", "undo", "restoring"} /\ Held(stage[i], p) /\ p \in moved[i]

Safe(i) == \A p \in Paths \ unnoted : mine[p] = "early" => Kept(i, p)

(* Users do not write the environment.                                     *)
Inv == Shapes /\ mine[Venv] # "early" /\ \A i \in Installers : Safe(i)

(* What a run does not preserve has been given up.                         *)
LEMMA InstallKeeps ==
    ASSUME Inv, NEW i \in Installers, NEW v \in Versions, NEW env \in BOOLEAN,
           NEW force \in BOOLEAN, Install(i, v, env, force)
    PROVE  mine'[Venv] # "early" /\ Safe(i)'
<1> DEFINE owned == Owned(dest, Shipped[v], env)
<1>1. /\ Begin(i) /\ TypeOK /\ Safe(i) /\ pc[i] = "idle" /\ Venv \in Paths
      /\ UNCHANGED <<dest, stage, backup, orphans, moved, unnoted>>
      /\ backup[i] = Absent /\ moved[i] = {}
  BY DEF Inv, Shapes, Shape, Install, Begin, Paths
<1>2. CASE UNCHANGED <<pc, mine>>
  BY <1>1, <1>2 DEF Inv, Safe, Kept
<1>3. CASE /\ Unsafe(dest, v) => force
           /\ pc' = [pc EXCEPT ![i] = "planned"]
           /\ job'[i].preserved = Preserved(dest, owned)
           /\ mine' = [p \in Paths |-> IF p \in (IF force THEN owned ELSE {}) THEN None ELSE mine[p]]
  <2>1. pc'[i] = "planned"
    BY <1>1, <1>3 DEF TypeOK
  <2>2. ASSUME NEW p \in Paths \ unnoted, mine'[p] = "early"
        PROVE  Kept(i, p)'
    <3>1. mine[p] = "early" /\ p # Venv
      BY <1>1, <1>3, <2>2 DEF Inv, None
    <3>2. \/ \E t \in orphans : t[p] = "early"
          \/ Held(dest, p)
      BY <1>1, <3>1 DEF Safe, Kept, Held
    <3>3. CASE Held(dest, p)
      <4>1. dest \in Trees /\ "early" \notin Versions \cup {None}
        BY <1>1, <3>3, ConstantsOK DEF TypeOK, Held, ConstantsOK, None
      <4>2. CASE force
        <5>1. p \notin owned
          BY <1>3, <2>2, <4>2 DEF None
        <5> QED BY <1>1, <1>3, <2>1, <3>3, <4>1, <5>1 DEF Kept, Held, Preserved, Present
      <4>3. CASE ~Unsafe(dest, v)
        <5>1. /\ dest[Manifest] = None \/ Known(dest) # None
              /\ \A q \in Managed(dest) : dest[q] = dest[Manifest]
              /\ \A q \in Shipped[v] \ Managed(dest) : dest[q] \in {None, v}
          BY <4>1, <4>3, TreeIsThere DEF Unsafe, Altered
        <5>2. p # Manifest
          BY <3>3, <4>1, <5>1 DEF Held, Known
        <5>3. p \notin Managed(dest)
          BY <3>3, <4>1, <5>1 DEF Held, Known, Managed
        <5>4. p \notin owned
          BY <3>1, <3>3, <4>1, <5>1, <5>2, <5>3 DEF Owned, Held
        <5> QED BY <1>1, <1>3, <2>1, <3>3, <4>1, <5>4 DEF Kept, Held, Preserved, Present
      <4> QED BY <1>3, <4>2, <4>3
    <3> QED BY <1>1, <3>2, <3>3 DEF Kept
  <2>3. mine'[Venv] # "early"
    BY <1>1, <1>3 DEF Inv, None
  <2> QED BY <1>1, <2>2, <2>3 DEF Safe
<1>4. \/ UNCHANGED <<pc, mine>>
      \/ /\ Unsafe(dest, v) => force
         /\ pc' = [pc EXCEPT ![i] = "planned"]
         /\ job'[i].preserved = Preserved(dest, owned)
         /\ mine' = [p \in Paths |-> IF p \in (IF force THEN owned ELSE {}) THEN None ELSE mine[p]]
  BY <1>1 DEF Install, Refuse, Decide, TypeOK
<1> QED BY <1>2, <1>3, <1>4

LEMMA UninstallKeeps ==
    ASSUME Inv, NEW i \in Installers, NEW keep \in BOOLEAN, NEW force \in BOOLEAN,
           NEW purge \in BOOLEAN, Uninstall(i, keep, force, purge)
    PROVE  mine'[Venv] # "early" /\ Safe(i)'
<1> DEFINE owned == Owned(dest, {}, ~keep)
           gaveUp == IF purge THEN Paths ELSE IF force THEN owned ELSE {}
           kept == IF purge THEN {} ELSE Preserved(dest, owned)
<1>1. /\ Begin(i) /\ TypeOK /\ Safe(i) /\ pc[i] = "idle" /\ Venv \in Paths
      /\ UNCHANGED <<dest, stage, backup, orphans, moved, unnoted>>
      /\ backup[i] = Absent /\ moved[i] = {}
  BY DEF Inv, Shapes, Shape, Uninstall, Begin, Paths
<1>2. CASE UNCHANGED <<pc, mine>>
  BY <1>1, <1>2 DEF Inv, Safe, Kept
<1>3. CASE /\ Known(dest) # None /\ (Altered(dest) = {} \/ force)
           /\ pc' = [pc EXCEPT ![i] = "planned"]
           /\ job'[i].preserved = kept
           /\ mine' = [p \in Paths |-> IF p \in gaveUp THEN None ELSE mine[p]]
  <2>1. pc'[i] = "planned"
    BY <1>1, <1>3 DEF TypeOK
  <2>2. ASSUME NEW p \in Paths \ unnoted, mine'[p] = "early"
        PROVE  Kept(i, p)'
    <3>1. mine[p] = "early" /\ p # Venv /\ ~purge /\ p \notin gaveUp
      BY <1>1, <1>3, <2>2 DEF Inv, None
    <3>2. \/ \E t \in orphans : t[p] = "early"
          \/ Held(dest, p)
      BY <1>1, <3>1 DEF Safe, Kept, Held
    <3>3. CASE Held(dest, p)
      <4>1. dest \in Trees /\ "early" \notin Versions \cup {None}
        BY <1>1, <3>3, ConstantsOK DEF TypeOK, Held, ConstantsOK, None
      <4>2. p \notin owned
        <5>1. CASE force
          BY <3>1, <5>1
        <5>2. CASE Altered(dest) = {}
          <6>1. p # Manifest
            BY <1>3, <3>3, <4>1 DEF Held, Known
          <6>2. p \notin Managed(dest)
            BY <1>3, <3>3, <4>1, <5>2 DEF Held, Known, Altered
          <6> QED BY <3>1, <6>1, <6>2 DEF Owned
        <5> QED BY <1>3, <5>1, <5>2
      <4> QED BY <1>1, <1>3, <2>1, <3>1, <3>3, <4>1, <4>2 DEF Kept, Held, Preserved, Present
    <3> QED BY <1>1, <3>2, <3>3 DEF Kept
  <2>3. mine'[Venv] # "early"
    BY <1>1, <1>3 DEF Inv, None
  <2> QED BY <1>1, <2>2, <2>3 DEF Safe
<1>4. \/ UNCHANGED <<pc, mine>>
      \/ /\ Known(dest) # None /\ (Altered(dest) = {} \/ force)
         /\ pc' = [pc EXCEPT ![i] = "planned"]
         /\ job'[i].preserved = kept
         /\ mine' = [p \in Paths |-> IF p \in gaveUp THEN None ELSE mine[p]]
  <2> DEFINE j == [kind |-> "uninstall", version |-> Known(dest), env |-> ~keep, purge |-> purge,
                   preserved |-> kept, had |-> FALSE, committed |-> FALSE]
  <2>1. \/ Refuse(i, "refused")
        \/ Known(dest) # None /\ (Altered(dest) = {} \/ force) /\ Decide(i, j, gaveUp)
    BY DEF Uninstall
  <2>2. j.preserved = kept
    OBVIOUS
  <2> HIDE DEF j, kept, gaveUp
  <2> QED BY <1>1, <2>1, <2>2 DEF Refuse, Decide, TypeOK
<1> QED BY <1>2, <1>3, <1>4

LEMMA EndKeeps ==
    ASSUME Inv, NEW i \in Installers, NEW how, NEW tells, NEW leaves, End(i, how, tells, leaves),
           UNCHANGED <<mine, unnoted>>, dest' = dest \/ dest = Empty,
           \/ pc[i] \in {"planned", "staged", "building", "cleanup", "removing"}
           \/ pc[i] = "discarding" /\ backup[i] \in leaves
           \/ leaves = {stage[i], backup[i]}
    PROVE  mine'[Venv] # "early" /\ Safe(i)'
<1>1. /\ TypeOK /\ Safe(i) /\ pc'[i] = "idle" /\ orphans \subseteq orphans'
      /\ leaves \ {Absent} \subseteq orphans'
  BY DEF Inv, Shapes, TypeOK, End, GoTo
<1>2. ASSUME NEW p \in Paths, Held(dest, p)
      PROVE  dest' = dest
  BY <1>2 DEF Held, Empty, None
<1>3. ASSUME NEW p \in Paths \ unnoted, mine[p] = "early"
      PROVE  Kept(i, p)'
  <2>1. CASE \E t \in orphans : t[p] = "early"
    BY <1>1, <2>1 DEF Kept
  <2>2. CASE Held(dest, p)
    BY <1>1, <1>2, <2>2 DEF Kept, Held
  <2>3. CASE \/ stage[i] \in leaves /\ Held(stage[i], p)
             \/ backup[i] \in leaves /\ Held(backup[i], p)
    BY <1>1, <2>3 DEF Kept, Held
  <2> QED BY <1>1, <1>3, <2>1, <2>2, <2>3 DEF Safe, Kept
<1> QED BY <1>3 DEF Safe, Inv

LEMMA AfterBackupKeeps ==
    ASSUME Inv, NEW i \in Installers, NEW left, AfterBackup(i, left), pc[i] = "cleanup",
           UNCHANGED <<dest, mine, unnoted>>
    PROVE  mine'[Venv] # "early" /\ Safe(i)'
<1>1. CASE End(i, "ok", left # Absent, {left})
  BY <1>1, EndKeeps
<1>2. CASE GoTo(i, "removing") /\ orphans' = orphans
  <2>1. pc'[i] = "removing"
    BY <1>2 DEF GoTo, Inv, Shapes, TypeOK
  <2>2. ASSUME NEW p \in Paths \ unnoted, mine[p] = "early"
        PROVE  Kept(i, p)'
    BY <1>2, <2>1, <2>2 DEF Inv, Safe, Kept, Held
  <2> QED BY <2>2 DEF Safe, Inv
<1> QED BY <1>1, <1>2 DEF AfterBackup

LEMMA EndingKeeps ==
    ASSUME Inv, NEW i \in Installers,
           \/ CopyFails(i) \/ RemoveBackup(i) \/ RemoveBackupFails(i)
           \/ RemoveDirectory(i) \/ RemoveDirectoryFails(i) \/ UndoFails(i)
           \/ Discard(i) \/ DiscardFails(i) \/ Die(i)
    PROVE  mine'[Venv] # "early" /\ Safe(i)'
<1> USE DEF At, mishaps
<1>1. CASE CopyFails(i)
  BY <1>1, EndKeeps DEF CopyFails
<1>2. CASE RemoveBackup(i)
  BY <1>2, AfterBackupKeeps DEF RemoveBackup
<1>3. CASE RemoveBackupFails(i)
  BY <1>3, AfterBackupKeeps DEF RemoveBackupFails
<1>4. CASE RemoveDirectory(i)
  BY <1>4, EndKeeps DEF RemoveDirectory
<1>5. CASE RemoveDirectoryFails(i)
  BY <1>5, EndKeeps DEF RemoveDirectoryFails
<1>6. CASE UndoFails(i)
  BY <1>6, EndKeeps DEF UndoFails
<1>7. CASE Discard(i)
  BY <1>7, EndKeeps DEF Discard
<1>8. CASE DiscardFails(i)
  BY <1>8, EndKeeps DEF DiscardFails
<1>9. CASE Die(i)
  BY <1>9, EndKeeps DEF Die
<1> QED BY <1>1, <1>2, <1>3, <1>4, <1>5, <1>6, <1>7, <1>8, <1>9

LEMMA MovingKeeps ==
    ASSUME Inv, NEW i \in Installers,
           CopyToStage(i) \/ SetAside(i) \/ \E p \in Paths : MoveIn(i, p) \/ MoveInCut(i, p)
    PROVE  mine'[Venv] # "early" /\ Safe(i)'
<1> USE DEF At, GoTo, decided, mishaps
<1>1. /\ TypeOK /\ Shape(i) /\ orphans' = orphans /\ mine' = mine
      /\ mine[Venv] # "early" /\ \A p \in Paths \ unnoted : mine[p] = "early" => Kept(i, p)
  BY DEF Inv, Shapes, Safe, CopyToStage, SetAside, MoveIn, MoveInCut
<1>2. CASE CopyToStage(i)
  <2>1. pc[i] = "planned" /\ pc'[i] = "staged" /\ UNCHANGED <<dest, job, unnoted>>
    BY <1>1, <1>2 DEF CopyToStage, TypeOK
  <2> QED BY <1>1, <2>1 DEF Safe, Kept
<1>3. CASE SetAside(i)
  <2>1. /\ pc[i] = "staged" /\ pc'[i] = "moving" /\ moved' = moved /\ moved[i] = {}
        /\ job[i] \in Jobs /\ job' = [job EXCEPT ![i] = [job[i] EXCEPT !.had = dest # Absent]]
        /\ backup[i] = Absent /\ unnoted' = unnoted
        /\ IF dest # Absent THEN dest' = Absent /\ backup'[i] = dest ELSE dest' = dest
    BY <1>1, <1>3 DEF SetAside, TypeOK, Shape
  <2>2. /\ job'[i].had = (dest # Absent) /\ job'[i].preserved = job[i].preserved
    BY <1>1, <2>1 DEF TypeOK, Jobs
  <2>3. ASSUME NEW p \in Paths \ unnoted, mine[p] = "early"
        PROVE  Kept(i, p)'
    BY <1>1, <2>1, <2>2, <2>3 DEF Kept, Held, ToMove
  <2> QED BY <1>1, <2>1, <2>3 DEF Safe
<1>4. ASSUME NEW p \in Paths, MoveIn(i, p) \/ MoveInCut(i, p)
      PROVE  Safe(i)'
  <2>1. /\ pc[i] = "moving" /\ job' = job /\ dest' = dest /\ p \in ToMove(i) /\ Rename(i, p)
        /\ job[i].had /\ backup[i] # Absent /\ stage[i] # Absent /\ ~job[i].committed
        /\ \/ pc' = pc /\ moved'[i] = moved[i] \cup {p} /\ unnoted' = unnoted
           \/ pc'[i] = "undo" /\ moved' = moved /\ unnoted' = unnoted \cup {p}
    BY <1>1, <1>4 DEF MoveIn, MoveInCut, Rename, TypeOK, ToMove, Shape
  <2>2. backup[i] \in Trees /\ stage[i] \in Trees
    BY <1>1, <2>1 DEF TypeOK
  <2>3. /\ stage'[i][p] = backup[i][p]
        /\ \A q \in Paths : q # p => stage'[i][q] = stage[i][q] /\ backup'[i][q] = backup[i][q]
    BY <1>1, <2>1, <2>2 DEF Rename, TypeOK, Trees
  <2>4. stage'[i] # Absent /\ backup'[i] # Absent
    <3>1. stage' = [stage EXCEPT ![i] = [stage[i] EXCEPT ![p] = backup[i][p]]]
          /\ backup' = [backup EXCEPT ![i] = [backup[i] EXCEPT ![p] = None]]
      BY <2>1 DEF Rename
    <3>2. backup[i][p] \in {None} \cup UserContent \cup Versions
      BY <2>2 DEF Trees
    <3>3. [stage[i] EXCEPT ![p] = backup[i][p]] \in Trees
      BY <2>2, <3>2, TreeUpdate
    <3>4. [backup[i] EXCEPT ![p] = None] \in Trees
      BY <2>2, TreeUpdate
    <3> QED BY <1>1, <3>1, <3>3, <3>4, TreeIsThere DEF TypeOK
  <2>5. ASSUME NEW q \in Paths \ unnoted', mine[q] = "early"
        PROVE  Kept(i, q)'
    <3>1. q \in Paths \ unnoted
      BY <2>1, <2>5
    <3>2. \/ \E t \in orphans : t[q] = "early"
          \/ Held(dest, q)
          \/ Held(backup[i], q) /\ q \in ToMove(i)
          \/ Held(stage[i], q) /\ q \in moved[i]
      BY <1>1, <2>1, <2>5, <3>1 DEF Kept, Held
    <3>3. CASE q = p
      <4>1. Held(backup[i], p) \/ Held(dest, p) \/ \E t \in orphans : t[q] = "early"
        BY <2>1, <3>2, <3>3 DEF ToMove
      <4> QED BY <1>1, <2>1, <2>3, <2>4, <2>5, <3>3, <4>1 DEF Kept, Held
    <3>4. CASE q # p
      BY <1>1, <2>1, <2>3, <2>4, <3>2, <3>4 DEF Kept, Held, ToMove
    <3> QED BY <3>3, <3>4
  <2> QED BY <1>1, <2>5 DEF Safe
<1> QED BY <1>1, <1>2, <1>3, <1>4

LEMMA SwappingKeeps ==
    ASSUME Inv, NEW i \in Installers,
           SwapIn(i) \/ SwapInCut(i) \/ BuildEnvironment(i) \/ Fails(i)
    PROVE  mine'[Venv] # "early" /\ Safe(i)'
<1> USE DEF At, GoTo, decided, mishaps
<1>1. /\ TypeOK /\ Shape(i) /\ orphans' = orphans /\ mine' = mine /\ moved' = moved
      /\ mine[Venv] # "early" /\ \A p \in Paths \ unnoted : mine[p] = "early" => Kept(i, p)
      /\ backup' = backup /\ unnoted' = unnoted
  BY DEF Inv, Shapes, Safe, SwapIn, SwapInCut, BuildEnvironment, Fails
<1>2. CASE SwapIn(i) \/ SwapInCut(i)
  <2>1. /\ pc[i] = "moving" /\ pc'[i] \in {"building", "cleanup", "undo"}
        /\ dest' = stage[i] /\ ToMove(i) = {} /\ dest \in {Absent, Empty}
    BY <1>1, <1>2 DEF SwapIn, SwapInCut, Swap, TypeOK
  <2>2. ASSUME NEW p \in Paths \ unnoted, mine[p] = "early"
        PROVE  Kept(i, p)'
    BY <1>1, <2>1, <2>2 DEF Kept, Held, Empty, None
  <2> QED BY <1>1, <2>2 DEF Safe
<1>3. ASSUME pc[i] = "building", dest # Absent, dest' = [dest EXCEPT ![Venv] = job[i].version]
      PROVE  dest' # Absent /\ \A p \in Paths : p # Venv => dest'[p] = dest[p]
  <2>1. dest \in Trees /\ job[i].version \in Versions /\ Venv \in Paths
    BY <1>1, <1>3 DEF TypeOK, Shape, Jobs, Paths
  <2> QED BY <1>3, <2>1, TreeUpdate, TreeIsThere
<1>4. CASE BuildEnvironment(i)
  <2>1. /\ pc[i] = "building" /\ pc'[i] = "cleanup" /\ job' = job
        /\ dest' # Absent /\ \A p \in Paths : p # Venv => dest'[p] = dest[p]
    BY <1>1, <1>3, <1>4 DEF BuildEnvironment, TypeOK
  <2> QED BY <1>1, <2>1 DEF Safe, Kept, Held
<1>5. CASE Fails(i)
  <2>1. /\ pc[i] \in {"staged", "moving", "building"} /\ pc'[i] = "undo" /\ stage' = stage
        /\ job'[i].committed = job[i].committed
    BY <1>1, <1>5 DEF Fails, TypeOK, Shape, Jobs
  <2>2. \/ dest' = dest
        \/ /\ pc[i] = "building" /\ dest' # Absent
           /\ \A p \in Paths : p # Venv => dest'[p] = dest[p]
    BY <1>3, <1>5 DEF Fails
  <2>3. ASSUME NEW p \in Paths \ unnoted, mine[p] = "early"
        PROVE  Kept(i, p)'
    BY <1>1, <2>1, <2>2, <2>3 DEF Kept, Held, Shape
  <2> QED BY <1>1, <2>3 DEF Safe
<1> QED BY <1>1, <1>2, <1>4, <1>5

LEMMA UndoKeeps ==
    ASSUME Inv, NEW i \in Installers,
           TakeOut(i) \/ PutBack(i) \/ \E p \in Paths : MoveBack(i, p)
    PROVE  mine'[Venv] # "early" /\ Safe(i)'
<1> USE DEF At, GoTo, decided, mishaps, Restorable
<1>1. /\ TypeOK /\ Shape(i) /\ orphans' = orphans /\ mine' = mine /\ job' = job /\ unnoted' = unnoted
      /\ mine[Venv] # "early" /\ \A p \in Paths \ unnoted : mine[p] = "early" => Kept(i, p)
  BY DEF Inv, Shapes, Safe, TakeOut, PutBack, MoveBack
<1>2. CASE TakeOut(i)
  <2>1. /\ pc[i] = "undo" /\ pc'[i] = "restoring" /\ backup' = backup /\ moved' = moved
        /\ IF job[i].committed /\ dest # Absent THEN stage'[i] = dest /\ dest' = Absent
           ELSE stage' = stage /\ dest' = dest
    BY <1>1, <1>2 DEF TakeOut, TypeOK
  <2>2. ASSUME NEW p \in Paths \ unnoted, mine[p] = "early"
        PROVE  Kept(i, p)'
    BY <1>1, <2>1, <2>2 DEF Kept, Held, Shape
  <2> QED BY <1>1, <2>2 DEF Safe
<1>3. CASE PutBack(i)
  <2>1. /\ pc[i] = "restoring" /\ pc'[i] = "discarding" /\ moved[i] = {}
        /\ \/ dest' = dest /\ backup' = backup
           \/ dest = Absent /\ dest' = backup[i]
    BY <1>1, <1>3 DEF PutBack, TypeOK, Shape
  <2>2. ASSUME NEW p \in Paths \ unnoted, mine[p] = "early"
        PROVE  Kept(i, p)'
    BY <1>1, <2>1, <2>2 DEF Kept, Held
  <2> QED BY <1>1, <2>2 DEF Safe
<1>4. ASSUME NEW p \in Paths, MoveBack(i, p)
      PROVE  Safe(i)'
  <2>1. /\ pc[i] = "restoring" /\ pc' = pc /\ dest' = dest /\ moved'[i] = moved[i] \ {p}
        /\ p \in moved[i] /\ backup[i] # Absent /\ backup[i][p] = None
    BY <1>1, <1>4 DEF MoveBack, TypeOK, Shape
  <2>2. \A q \in Paths \ unnoted : mine[q] = "early" =>
           \/ \E t \in orphans : t[q] = "early"
           \/ Held(dest, q)
           \/ Held(backup[i], q)
           \/ Held(stage[i], q) /\ q \in moved[i]
    BY <1>1, <2>1 DEF Kept, Held
  <2>3. CASE stage[i] # Absent /\ stage[i][p] # None
    <3>1. stage[i] \in Trees /\ backup[i] \in Trees /\ stage[i][p] \in {None} \cup UserContent \cup Versions
      BY <1>1, <2>1, <2>3 DEF TypeOK, Trees
    <3>2. stage' = [stage EXCEPT ![i] = [stage[i] EXCEPT ![p] = None]]
          /\ backup' = [backup EXCEPT ![i] = [backup[i] EXCEPT ![p] = stage[i][p]]]
      BY <1>4, <2>3 DEF MoveBack
    <3>3. /\ [stage[i] EXCEPT ![p] = None] \in Trees
          /\ \A q \in Paths : q # p => [stage[i] EXCEPT ![p] = None][q] = stage[i][q]
      BY <3>1, TreeUpdate
    <3>4. /\ [backup[i] EXCEPT ![p] = stage[i][p]] \in Trees
          /\ [backup[i] EXCEPT ![p] = stage[i][p]][p] = stage[i][p]
          /\ \A q \in Paths : q # p => [backup[i] EXCEPT ![p] = stage[i][p]][q] = backup[i][q]
      BY <3>1, TreeUpdate
    <3>5. /\ stage'[i] # Absent /\ backup'[i] # Absent /\ backup'[i][p] = stage[i][p]
          /\ \A q \in Paths : q # p => stage'[i][q] = stage[i][q] /\ backup'[i][q] = backup[i][q]
      BY <1>1, <3>2, <3>3, <3>4, TreeIsThere DEF TypeOK
    <3>6. ASSUME NEW q \in Paths \ unnoted, mine[q] = "early"
          PROVE  Kept(i, q)'
      <4>1. CASE q = p
        BY <1>1, <2>1, <2>2, <3>5, <3>6, <4>1 DEF Kept, Held, None
      <4>2. CASE q # p
        BY <1>1, <2>1, <2>2, <3>1, <3>5, <3>6, <4>2 DEF Kept, Held
      <4> QED BY <4>1, <4>2
    <3> QED BY <1>1, <3>6 DEF Safe
  <2>4. CASE ~(stage[i] # Absent /\ stage[i][p] # None)
    <3>1. stage' = stage /\ backup' = backup
      BY <1>4, <2>4 DEF MoveBack
    <3>2. ASSUME NEW q \in Paths \ unnoted, mine[q] = "early"
          PROVE  Kept(i, q)'
      BY <1>1, <2>1, <2>2, <2>4, <3>1, <3>2 DEF Kept, Held, None
    <3> QED BY <1>1, <3>2 DEF Safe
  <2> QED BY <2>3, <2>4
<1> QED BY <1>1, <1>2, <1>3, <1>4

(* While an installer is at work, what the user writes is late.            *)
LEMMA UserKeeps ==
    ASSUME Inv, NEW i \in Installers, NEW p \in PkgPaths \cup UserPaths \cup {Manifest},
           UserWrites(p) \/ UserRemoves(p)
    PROVE  mine'[Venv] # "early" /\ Safe(i)'
<1> DEFINE t == IF dest = Absent THEN Empty ELSE dest
<1>1. /\ TypeOK /\ t \in Trees /\ Safe(i) /\ p \in Paths /\ p # Venv
      /\ UNCHANGED <<pc, job, moved, stage, backup, orphans>>
      /\ \A q \in Paths : Held(dest, q) <=> t[q] = "early"
  BY EmptyTree, ConstantsOK DEF Inv, Shapes, TypeOK, UserWrites, UserRemoves, decided, Paths,
       ConstantsOK, Manifest, Venv, Held, Empty, None
<1>2. PICK c \in {None} \cup UserContent :
         /\ dest' = [t EXCEPT ![p] = c]
         /\ \/ mine' = [mine EXCEPT ![p] = c] /\ unnoted \ {p} \subseteq unnoted'
            \/ UNCHANGED <<mine, unnoted>> /\ (mine[p] = "early" => t[p] # "early")
         /\ c = "early" => pc[i] = "idle"
  <2>1. CASE UserWrites(p)
    <3> DEFINE c == IF AtWork = {} THEN "early" ELSE "late"
               away == c = "late" /\ mine[p] = "early" /\ t[p] # "early"
    <3>1. /\ dest' = [t EXCEPT ![p] = c]
          /\ mine' = IF away THEN mine ELSE [mine EXCEPT ![p] = c]
          /\ unnoted' = IF away THEN unnoted ELSE unnoted \ {p}
      BY <2>1 DEF UserWrites
    <3>2. c \in {None} \cup UserContent
      BY DEF UserContent
    <3>3. c = "early" => pc[i] = "idle"
      BY DEF AtWork
    <3>4. \/ mine' = [mine EXCEPT ![p] = c] /\ unnoted \ {p} \subseteq unnoted'
          \/ UNCHANGED <<mine, unnoted>> /\ (mine[p] = "early" => t[p] # "early")
      BY <3>1
    <3> HIDE DEF c, away
    <3> QED BY <3>1, <3>2, <3>3, <3>4
  <2>2. CASE UserRemoves(p)
    <3>1. dest' = [t EXCEPT ![p] = None] /\ unnoted' = unnoted
      BY <2>2 DEF UserRemoves, mishaps
    <3>2. mine' = [mine EXCEPT ![p] = None] \/ (mine' = mine /\ mine[p] # t[p])
      BY <2>2 DEF UserRemoves
    <3>3. None # "early"
      BY DEF None
    <3> QED BY <3>1, <3>2, <3>3
  <2> QED BY <2>1, <2>2
<1>3. dest' # Absent /\ dest'[p] = c /\ \A q \in Paths : q # p => dest'[q] = t[q]
  BY <1>1, <1>2, TreeUpdate, TreeIsThere
<1>4. \A q \in Paths : q # p => mine'[q] = mine[q]
  BY <1>1, <1>2 DEF TypeOK
<1>5. ASSUME NEW q \in Paths \ unnoted', mine'[q] = "early"
      PROVE  Kept(i, q)'
  <2>1. CASE q = p /\ mine' = [mine EXCEPT ![p] = c]
    <3>1. c = "early"
      BY <1>1, <1>5, <2>1 DEF TypeOK
    <3> QED BY <1>1, <1>2, <1>3, <2>1, <3>1 DEF Kept, Held
  <2>2. CASE q = p /\ UNCHANGED <<mine, unnoted>> /\ (mine[p] = "early" => t[p] # "early")
    <3>1. Kept(i, q) /\ ~Held(dest, q)
      BY <1>1, <1>5, <2>2 DEF Safe
    <3> QED BY <1>1, <3>1 DEF Kept, Held, ToMove
  <2>3. CASE q # p
    <3>1. Kept(i, q)
      BY <1>1, <1>2, <1>4, <1>5, <2>3 DEF Safe
    <3>2. Held(dest, q) => Held(dest', q)
      BY <1>1, <1>3, <2>3 DEF Held
    <3> QED BY <1>1, <3>1, <3>2 DEF Kept, Held, ToMove
  <2> QED BY <1>2, <2>1, <2>2, <2>3
<1>6. mine'[Venv] # "early"
  BY <1>1, <1>4 DEF Inv, Paths
<1> QED BY <1>5, <1>6 DEF Safe

LEMMA InvInitial == Init => Inv
<1> SUFFICES ASSUME Init
             PROVE  Inv
  OBVIOUS
<1>1. \A p \in Paths : mine[p] = None
  BY DEF Init, Empty
<1>2. Venv \in Paths
  BY DEF Paths
<1> QED BY <1>1, <1>2, ShapesInitial DEF Inv, Safe, None

LEMMA InvInductive ==
    ASSUME NEW me, Installers = {me}
    PROVE  Inv /\ [Next]_vars => Inv'
<1> SUFFICES ASSUME Inv, [Next]_vars
             PROVE  Inv'
  OBVIOUS
<1>1. Shapes'
  BY ShapesInductive DEF Inv
<1>2. CASE Step(me)
  <2>1. mine'[Venv] # "early" /\ Safe(me)'
    BY <1>2, InstallKeeps, UninstallKeeps, EndingKeeps, MovingKeeps, SwappingKeeps, UndoKeeps
       DEF Step
  <2> QED BY <1>1, <2>1 DEF Inv
<1>3. ASSUME NEW p \in PkgPaths \cup UserPaths \cup {Manifest}, UserWrites(p) \/ UserRemoves(p)
      PROVE  Inv'
  BY <1>1, <1>3, UserKeeps DEF Inv
<1>4. CASE UNCHANGED vars
  BY <1>1, <1>4 DEF Inv, Safe, Kept, ToMove, vars
<1> QED BY <1>2, <1>3, <1>4 DEF Next

(* A file that the user wrote while no installer was at work and has not   *)
(* given up is never lost, whatever fails and wherever the process dies,   *)
(* as long as there is one installer for a destination, but for a file     *)
(* whose move into the stage an interrupt kept from being noted            *)
(* (_transactional_replace, install_skill.py:582).                         *)
THEOREM NothingIsLost ==
    ASSUME NEW me, Installers = {me}
    PROVE  Spec => []NothingLost
<1>1. Init => Inv
  BY InvInitial
<1>2. Inv /\ [Next]_vars => Inv'
  BY InvInductive
<1>3. Inv => NothingLost
  <2> SUFFICES ASSUME Inv, NEW p \in Paths \ unnoted, mine[p] = "early"
               PROVE  \E t \in Places : t[p] = "early"
    BY DEF NothingLost
  <2>1. Kept(me, p) /\ TypeOK
    BY DEF Inv, Safe, Shapes
  <2>2. CASE \E t \in orphans : t[p] = "early"
    BY <2>1, <2>2, TreeIsThere DEF Places, TypeOK
  <2>3. CASE Held(dest, p) \/ Held(stage[me], p) \/ Held(backup[me], p)
    BY <2>3 DEF Places, Held
  <2> QED BY <2>1, <2>2, <2>3 DEF Kept
<1> QED BY <1>1, <1>2, <1>3, PTL DEF Spec

(* While there is a backup to put back, nothing is at the destination, or  *)
(* one of the mishaps has put something there.                             *)
Vacant ==
    \A i \in Installers : backup[i] # Absent =>
        /\ \/ pc[i] = "moving" \/ (pc[i] = "undo" /\ ~job[i].committed) \/ pc[i] = "restoring"
           => dest = Absent \/ Excused(mishap[i])
        /\ pc[i] = "discarding" => Excused(mishap[i])

LEMMA VacantKept ==
    ASSUME NEW me, Installers = {me}, Inv, Vacant, [Next]_vars
    PROVE  Vacant'
<1> USE DEF At, GoTo, Vacant, mishaps, decided
<1>1. TypeOK /\ Shape(me)
  BY DEF Inv, Shapes
<1>2. CASE PutBack(me)
  BY <1>1, <1>2 DEF PutBack, Restorable, Shape, TypeOK
<1>3. CASE \/ \E v \in Versions, env, force \in BOOLEAN : Install(me, v, env, force)
           \/ \E keep, force, purge \in BOOLEAN : Uninstall(me, keep, force, purge)
  BY <1>1, <1>3 DEF Install, Uninstall, Begin, Decide, Refuse, TypeOK, Shape
<1>4. CASE \/ CopyToStage(me) \/ SetAside(me) \/ SwapIn(me)
           \/ BuildEnvironment(me) \/ TakeOut(me) \/ (\E p \in Paths : MoveBack(me, p))
  BY <1>1, <1>4 DEF CopyToStage, SetAside, SwapIn, Swap, BuildEnvironment, TakeOut,
     MoveBack, TypeOK, Shape
<1>5. CASE \E p \in Paths : MoveIn(me, p) \/ MoveInCut(me, p)
  <2>1. /\ pc[me] = "moving" /\ backup[me] # Absent /\ dest' = dest
        /\ mishap'[me] = mishap[me] \/ (mishap' = [mishap EXCEPT ![me].moved = mishap'[me].moved])
    BY <1>1, <1>5 DEF MoveIn, MoveInCut, Rename, ToMove, Shape, TypeOK
  <2>2. Excused(mishap[me]) => Excused(mishap'[me])
    BY <1>1, <2>1 DEF TypeOK, Mishaps, Excused
  <2>3. pc'[me] \in {"moving", "undo"}
    BY <1>1, <1>5 DEF MoveIn, MoveInCut, Rename, TypeOK
  <2> QED BY <2>1, <2>2, <2>3
<1>6. CASE SwapInCut(me)
  <2>1. pc'[me] = "undo" /\ (job'[me].committed \/ mishap'[me].swapped)
    BY <1>1, <1>6 DEF SwapInCut, Swap, Commit, TypeOK, Shape, Jobs, Mishaps
  <2> QED BY <2>1 DEF Excused
<1>7. CASE Fails(me)
  <2>1. /\ pc[me] \in {"staged", "moving", "building"} /\ pc'[me] = "undo"
        /\ job'[me].committed = job[me].committed /\ UNCHANGED <<backup, mishap>>
        /\ pc[me] = "moving" => dest' = dest
    BY <1>1, <1>7 DEF Fails, TypeOK, Shape, Jobs
  <2> QED BY <1>1, <2>1 DEF Shape
<1>8. CASE RemoveBackup(me) \/ RemoveBackupFails(me)
  <2>1. PICK left : AfterBackup(me, left)
    BY <1>8 DEF RemoveBackup, RemoveBackupFails
  <2>2. pc'[me] \in {"idle", "removing"}
    BY <1>1, <2>1 DEF AfterBackup, End, TypeOK
  <2> QED BY <2>2
<1>9. CASE \/ CopyFails(me) \/ RemoveDirectory(me) \/ RemoveDirectoryFails(me) \/ UndoFails(me)
           \/ Discard(me) \/ DiscardFails(me) \/ Die(me)
  <2>1. PICK how, tells, leaves : End(me, how, tells, leaves)
    BY <1>9 DEF CopyFails, RemoveDirectory, RemoveDirectoryFails, UndoFails, Discard,
       DiscardFails, Die
  <2> QED BY <1>1, <2>1 DEF End, TypeOK
<1>10. ASSUME NEW p \in PkgPaths \cup UserPaths \cup {Manifest}, UserWrites(p) \/ UserRemoves(p)
       PROVE  Vacant'
  <2>1. UNCHANGED <<pc, backup, job>>
    BY <1>10 DEF UserWrites, UserRemoves
  <2>2. /\ dest = Absent /\ backup[me] # Absent => Excused(mishap'[me])
        /\ Excused(mishap[me]) => Excused(mishap'[me])
    <3>1. CASE UserWrites(p)
      <4>1. mishap'[me] = [mishap[me] EXCEPT !.recreated = @ \/ (dest = Absent /\ backup[me] # Absent)]
        BY <3>1 DEF UserWrites
      <4>2. mishap[me] \in Mishaps
        BY <1>1 DEF TypeOK
      <4>3. /\ mishap'[me].recreated = (mishap[me].recreated \/ (dest = Absent /\ backup[me] # Absent))
            /\ mishap'[me].swapped = mishap[me].swapped /\ mishap'[me].rmdir = mishap[me].rmdir
        BY <4>1, <4>2 DEF Mishaps
      <4> QED BY <4>3 DEF Excused
    <3>2. CASE UserRemoves(p)
      BY <3>2 DEF UserRemoves
    <3> QED BY <1>10, <3>1, <3>2
  <2> QED BY <2>1, <2>2
<1>11. CASE UNCHANGED vars
  BY <1>11 DEF vars
<1> QED BY <1>2, <1>3, <1>4, <1>5, <1>6, <1>7, <1>8, <1>9, <1>10, <1>11 DEF Next, Step

(* A run that ends without a word about it leaves no file of the user      *)
(* beside the destination.                                                 *)
LEMMA EndTells ==
    ASSUME Inv, Vacant, NEW i \in Installers, pc[i] # "idle", pc'[i] = "idle",
           ~told'[i], result'[i] # "dead", ~Excused(mishap'[i]), Step(i),
           NEW t \in orphans' \ orphans, NEW p \in Paths
    PROVE  t[p] \notin UserContent
<1> USE DEF At, GoTo, mishaps
<1>1. TypeOK
  BY DEF Inv, Shapes
<1>2. CASE CopyFails(i)
  <2>1. t = Package(job[i])
    BY <1>2 DEF CopyFails, End
  <2> QED BY <2>1, ConstantsOK DEF Package, Empty, UserContent, None, ConstantsOK,
             Inv, Shapes, Shape, Jobs, CopyFails
<1>3. CASE RemoveBackup(i) \/ RemoveBackupFails(i)
  <2>1. PICK left : AfterBackup(i, left)
    BY <1>3 DEF RemoveBackup, RemoveBackupFails
  <2>2. End(i, "ok", left # Absent, {left})
    BY <1>1, <2>1 DEF AfterBackup, TypeOK
  <2>3. left = Absent
    BY <1>1, <2>2 DEF End, TypeOK
  <2> QED BY <2>2, <2>3 DEF End
<1>4. CASE RemoveDirectory(i)
  <2>1. End(i, "ok", backup[i] # Absent, {backup[i]})
    BY <1>4 DEF RemoveDirectory
  <2>2. backup[i] = Absent
    BY <1>1, <2>1 DEF End, TypeOK
  <2> QED BY <2>1, <2>2 DEF End
<1>5. CASE RemoveDirectoryFails(i)
  BY <1>1, <1>5 DEF RemoveDirectoryFails, Excused, TypeOK, Mishaps
<1>6. CASE Discard(i)
  BY <1>6 DEF Discard, End, Vacant
<1>7. CASE UndoFails(i) \/ DiscardFails(i)
  <2>1. told' = [told EXCEPT ![i] = TRUE]
    BY <1>7 DEF UndoFails, DiscardFails, End
  <2> QED BY <1>1, <2>1 DEF TypeOK
<1>8. CASE Die(i)
  BY <1>1, <1>8 DEF Die, End, TypeOK
<1>9. CASE \/ \E v \in Versions, env, force \in BOOLEAN : Install(i, v, env, force)
           \/ \E keep, force, purge \in BOOLEAN : Uninstall(i, keep, force, purge)
  BY <1>9 DEF Install, Uninstall, Begin
<1>10. CASE \/ CopyToStage(i) \/ SetAside(i) \/ (\E q \in Paths : MoveIn(i, q) \/ MoveInCut(i, q))
            \/ SwapIn(i) \/ SwapInCut(i) \/ BuildEnvironment(i) \/ Fails(i)
            \/ TakeOut(i) \/ (\E q \in Paths : MoveBack(i, q)) \/ PutBack(i)
  BY <1>10 DEF CopyToStage, SetAside, MoveIn, MoveInCut, SwapIn, SwapInCut, BuildEnvironment,
     Fails, TakeOut, MoveBack, PutBack
<1> QED BY <1>2, <1>3, <1>4, <1>5, <1>6, <1>7, <1>8, <1>9, <1>10 DEF Step

(* What a run of the only installer leaves beside the destination, and has *)
(* a file of the user in it, it names, unless the process is killed, or    *)
(* the backup could not be put back because something was at the           *)
(* destination, or an emptied directory could not be removed               *)
(* (_transactional_replace, uninstall_package, install_skill.py).          *)
THEOREM LeftoversAreAlwaysTold ==
    ASSUME NEW me, Installers = {me}
    PROVE  Spec => LeftoversAreTold
<1>1. Init => Inv /\ Vacant
  BY InvInitial DEF Init, Vacant
<1>2. Inv /\ Vacant /\ [Next]_vars => (Inv /\ Vacant)'
  BY InvInductive, VacantKept
<1>3. Inv /\ Vacant /\ [Next]_vars =>
        [\A i \in Installers :
           /\ pc[i] # "idle" /\ pc'[i] = "idle" /\ ~told'[i] /\ result'[i] # "dead"
           /\ ~Excused(mishap'[i])
           => \A t \in orphans' \ orphans : \A p \in Paths : t[p] \notin UserContent]_vars
  <2> SUFFICES ASSUME Inv, Vacant, Next, NEW i \in Installers,
                      pc[i] # "idle", pc'[i] = "idle", ~told'[i], result'[i] # "dead",
                      ~Excused(mishap'[i]), NEW t \in orphans' \ orphans, NEW p \in Paths
               PROVE  t[p] \notin UserContent
    OBVIOUS
  <2>1. CASE Step(i)
    BY <2>1, EndTells
  <2>2. CASE \E q \in PkgPaths \cup UserPaths \cup {Manifest} : UserWrites(q) \/ UserRemoves(q)
    BY <2>2 DEF UserWrites, UserRemoves
  <2> QED BY <2>1, <2>2 DEF Next
<1> QED BY <1>1, <1>2, <1>3, PTL DEF Spec, LeftoversAreTold

-----------------------------------------------------------------------------
(* All or nothing.                                                         *)
(*                                                                         *)
(* While nobody else is at work on the directory, what the installer found *)
(* there is, at every point of its run, still in place, or whole in the    *)
(* backup and in the tree the user's paths were moved to (Track).          *)

(* What a run preserves of a directory.                                    *)
Wanted(t, j) ==
    IF t = Absent \/ j.purge THEN {}
    ELSE Present(t) \ Owned(t, IF j.kind = "install" THEN Shipped[j.version] ELSE {}, j.env)

Clean(i) == mishap[i].moved = {} /\ ~mishap[i].swapped /\ ~mishap[i].rmdir

Untouched(i) == backup[i] = Absent /\ moved[i] = {} /\ mishap[i].moved = {} /\ dest = before[i]

(* What was found is in the backup, but for the paths moved into tree t    *)
(* and the one whose move was not noted.                                   *)
Whole(i, t) ==
    IF before[i] = Absent THEN backup[i] = Absent /\ moved[i] = {}
    ELSE /\ backup[i] # Absent /\ t # Absent
         /\ \A p \in Paths : backup[i][p] = IF p \in moved[i] \cup mishap[i].moved THEN None
                                            ELSE before[i][p]
         /\ \A p \in moved[i] : t[p] = before[i][p]

Built(i, p) == pc[i] = "cleanup" /\ job[i].kind = "install" /\ job[i].env /\ p = Venv

Swapped(i) ==
    /\ dest # Absent /\ Whole(i, dest) /\ moved[i] = job[i].preserved
    /\ \A p \in Paths \ moved[i] :
          dest[p] = IF Built(i, p) THEN job[i].version ELSE Package(job[i])[p]

(* The swap was not noted: the new package stays.                          *)
Left(i) == dest # Absent /\ dest = After(before[i], job[i], FALSE)

Track(i) ==
    /\ job[i].preserved = Wanted(before[i], job[i]) /\ moved[i] \subseteq job[i].preserved
    /\ pc[i] \notin {"undo", "restoring", "discarding"} => Clean(i)
    /\ pc[i] \in {"undo", "restoring", "discarding"} =>
         ~mishap[i].rmdir /\ moved[i] \cap mishap[i].moved = {}
    /\ pc[i] \in {"planned", "staged"} => Untouched(i)
    /\ pc[i] = "staged" => stage[i] = Package(job[i])
    /\ pc[i] = "moving" =>
         /\ dest = Absent /\ Whole(i, stage[i])
         /\ \A p \in Paths \ moved[i] : stage[i][p] = Package(job[i])[p]
    /\ pc[i] \in {"building", "cleanup"} => Swapped(i)
    /\ pc[i] = "building" => job[i].kind = "install" /\ job[i].env
    /\ pc[i] = "removing" => dest = Empty /\ Outcome(before[i], job[i]) = Absent
    /\ pc[i] = "undo" =>
         IF job[i].committed THEN dest # Absent /\ Whole(i, dest) /\ ~mishap[i].swapped
         ELSE IF mishap[i].swapped THEN Left(i)
         ELSE Untouched(i) \/ (dest = Absent /\ Whole(i, stage[i]))
    /\ pc[i] = "restoring" =>
         IF mishap[i].swapped THEN Left(i)
         ELSE Untouched(i) \/ (dest = Absent /\ Whole(i, stage[i]))
    /\ pc[i] = "discarding" =>
         IF mishap[i].swapped THEN Left(i) ELSE dest = Without(before[i], mishap[i].moved)

Ended(i) ==
    /\ result[i] = "ok" => dest = Outcome(before[i], job[i])
    /\ result[i] = "failed" /\ ~told[i] =>
         IF mishap[i].rmdir THEN dest = Empty /\ Outcome(before[i], job[i]) = Absent
         ELSE IF mishap[i].swapped THEN dest = After(before[i], job[i], FALSE)
         ELSE dest = Without(before[i], mishap[i].moved)

Tracked(i) == ~disturbed[i] => IF pc[i] = "idle" THEN Ended(i) ELSE Track(i)

LEMMA WithoutNothing ==
    ASSUME NEW t \in Trees \cup {Absent}
    PROVE  Without(t, {}) = t
BY DEF Without, Trees

LEMMA WantedIs ==
    ASSUME NEW t \in Trees \cup {Absent}, NEW j
    PROVE  \A p \in Wanted(t, j) : /\ p \in Paths /\ t # Absent /\ t[p] # None
                                   /\ p # Manifest /\ (j.env => p # Venv)
BY DEF Wanted, Present, Owned

(* A run that was not disturbed swaps in what it should.                   *)
LEMMA LaidIsAfter ==
    ASSUME NEW i \in Installers, TypeOK, job[i] \in Jobs, NEW tree \in Trees, NEW built \in BOOLEAN,
           built => job[i].kind = "install" /\ job[i].env,
           job[i].preserved = Wanted(before[i], job[i]), moved[i] = job[i].preserved,
           \A p \in moved[i] : tree[p] = before[i][p],
           \A p \in Paths \ moved[i] :
              tree[p] = IF built /\ p = Venv THEN job[i].version ELSE Package(job[i])[p]
    PROVE  tree = After(before[i], job[i], built)
<1> DEFINE t == before[i]
           j == job[i]
           new == Package(j)
           kept(p) == IF built /\ p = Venv THEN j.version
                      ELSE IF \/ t = Absent \/ j.purge \/ p \in Managed(t) \cup {Manifest}
                              \/ new[p] # None \/ (p = Venv /\ j.env)
                           THEN new[p] ELSE t[p]
           after == [p \in Paths |-> kept(p)]
<1>1. /\ t \in Trees \cup {Absent} /\ j.version \in Versions
      /\ j.kind \in {"install", "uninstall"} /\ Versions \cap {None} = {}
      /\ \A p \in Paths : new[p] = IF j.kind = "install" /\ p \in Shipped[j.version] \cup {Manifest}
                                   THEN j.version ELSE None
  BY ConstantsOK DEF TypeOK, Jobs, ConstantsOK, Package, Empty
<1>2. ASSUME NEW p \in Paths PROVE tree[p] = kept(p)
  <2>1. CASE p \in moved[i]
    <3>1. p \in Wanted(t, j) /\ tree[p] = t[p]
      BY <2>1
    <3>2. /\ t # Absent /\ ~j.purge /\ p \notin Managed(t) /\ p # Manifest
          /\ (j.kind = "install" => p \notin Shipped[j.version]) /\ (j.env => p # Venv)
      BY <3>1 DEF Wanted, Owned
    <3> QED BY <1>1, <3>1, <3>2
  <2>2. CASE p \notin moved[i] /\ built /\ p = Venv
    BY <2>2
  <2>3. CASE p \notin moved[i] /\ ~(built /\ p = Venv)
    <3>1. tree[p] = new[p] /\ p \notin Wanted(t, j)
      BY <2>3
    <3>2. \/ t = Absent \/ j.purge \/ p \in Managed(t) \cup {Manifest}
          \/ new[p] # None \/ (p = Venv /\ j.env) \/ t[p] = None
      BY <1>1, <3>1 DEF Wanted, Owned, Present
    <3> QED BY <1>1, <2>3, <3>1, <3>2
  <2> QED BY <2>1, <2>2, <2>3
<1>3. tree = [p \in Paths |-> tree[p]]
  BY <1>1 DEF Trees
<1>4. tree = after
  BY <1>2, <1>3
<1>5. After(t, j, built) = after
  BY DEF After
<1> HIDE DEF after
<1> QED BY <1>4, <1>5

LEMMA SwappedIsOutcome ==
    ASSUME NEW i \in Installers, TypeOK, Swapped(i), pc[i] = "cleanup", job[i] \in Jobs,
           job[i].preserved = Wanted(before[i], job[i])
    PROVE  Outcome(before[i], job[i])
             = IF job[i].kind = "uninstall" /\ dest = Empty THEN Absent ELSE dest
<1> DEFINE built == job[i].kind = "install" /\ job[i].env
<1>1. /\ dest \in Trees /\ built \in BOOLEAN /\ moved[i] = job[i].preserved
      /\ \A p \in moved[i] : dest[p] = before[i][p]
      /\ \A p \in Paths \ moved[i] :
            dest[p] = IF built /\ p = Venv THEN job[i].version ELSE Package(job[i])[p]
  BY DEF Swapped, Whole, TypeOK, Built
<1>2. built => job[i].kind = "install" /\ job[i].env
  OBVIOUS
<1>3. Outcome(before[i], job[i])
        = IF job[i].kind = "uninstall" /\ After(before[i], job[i], built) = Empty THEN Absent
          ELSE After(before[i], job[i], built)
  BY DEF Outcome
<1> HIDE DEF built
<1>4. dest = After(before[i], job[i], built)
  BY <1>1, <1>2, LaidIsAfter
<1> QED BY <1>3, <1>4

(* The steps of others leave a run alone or have disturbed it.             *)
LEMMA OthersTracked ==
    ASSUME TypeOK, NEW i \in Installers, Step(i), NEW k \in Installers, k # i, Tracked(k)
    PROVE  Tracked(k)'
<1>1. UNCHANGED Own(k)
  BY OthersSame
<1>2. disturbed'[k] \/ UNCHANGED <<dest, before[k], disturbed[k], result[k], told[k]>>
  <2>1. Disturb(i) => disturbed'[k]
    BY DEF Disturb
  <2>2. CASE \/ RemoveBackup(i) \/ RemoveBackupFails(i)
    <3>1. UNCHANGED <<dest, disturbed, before>>
      BY <2>2 DEF RemoveBackup, RemoveBackupFails, decided
    <3>2. PICK left : AfterBackup(i, left)
      BY <2>2 DEF RemoveBackup, RemoveBackupFails
    <3>3. UNCHANGED <<result[k], told[k]>>
      BY <3>2 DEF AfterBackup, End, TypeOK
    <3> QED BY <3>1, <3>3
  <2> USE DEF TypeOK, End, Disturb, decided, counters, At, GoTo
  <2>3. CASE \E v \in Versions, env, force \in BOOLEAN : Install(i, v, env, force)
    BY <2>3 DEF Install, Begin, Decide, Refuse
  <2>4. CASE \E keep, force, purge \in BOOLEAN : Uninstall(i, keep, force, purge)
    BY <2>4 DEF Uninstall, Begin, Decide, Refuse
  <2>5. CASE CopyToStage(i) \/ CopyFails(i)
    BY <2>5 DEF CopyToStage, CopyFails
  <2>6. CASE SetAside(i) \/ (\E p \in Paths : MoveIn(i, p) \/ MoveInCut(i, p))
    <3>1. CASE SetAside(i)
      BY <3>1 DEF SetAside
    <3>2. ASSUME NEW p \in Paths, MoveIn(i, p) \/ MoveInCut(i, p)
          PROVE  UNCHANGED <<dest, disturbed, before, result, told>>
      BY <3>2 DEF MoveIn, MoveInCut
    <3> QED BY <2>6, <3>1, <3>2
  <2>7. CASE SwapIn(i) \/ SwapInCut(i) \/ BuildEnvironment(i)
    BY <2>7 DEF SwapIn, SwapInCut, Swap, BuildEnvironment
  <2>8. CASE Fails(i)
    BY <2>8 DEF Fails
  <2>9. CASE TakeOut(i) \/ (\E p \in Paths : MoveBack(i, p)) \/ PutBack(i) \/ UndoFails(i)
    <3>1. UNCHANGED <<dest, disturbed>> \/ disturbed'[k]
      BY <2>9 DEF TakeOut, MoveBack, PutBack, UndoFails
    <3>2. UNCHANGED <<before[k], result[k], told[k]>>
      BY <2>9 DEF TakeOut, MoveBack, PutBack, UndoFails
    <3> QED BY <3>1, <3>2
  <2>10. CASE Discard(i) \/ DiscardFails(i) \/ Die(i)
    BY <2>10 DEF Discard, DiscardFails, Die
  <2>11. CASE RemoveDirectory(i) \/ RemoveDirectoryFails(i)
    <3>1. UNCHANGED <<dest, disturbed>> \/ disturbed'[k]
      BY <2>11 DEF RemoveDirectory, RemoveDirectoryFails
    <3>2. UNCHANGED <<before[k], result[k], told[k]>>
      BY <2>11 DEF RemoveDirectory, RemoveDirectoryFails
    <3> QED BY <3>1, <3>2
  <2> QED BY <2>2, <2>3, <2>4, <2>5, <2>6, <2>7, <2>8, <2>9, <2>10, <2>11 DEF Step
<1>3. CASE UNCHANGED <<dest, before[k], disturbed[k], result[k], told[k]>>
  <2>1. UNCHANGED <<dest, before[k], disturbed[k], result[k], told[k], pc[k], job[k], stage[k],
                    backup[k], moved[k], mishap[k]>>
    BY <1>1, <1>3 DEF Own
  <2>2. Ended(k) => Ended(k)'
    BY <2>1 DEF Ended
  <2>3. /\ Whole(k, dest)' = Whole(k, dest) /\ Whole(k, stage[k])' = Whole(k, stage[k])
        /\ Left(k)' = Left(k) /\ Untouched(k)' = Untouched(k) /\ Clean(k)' = Clean(k)
    BY <2>1 DEF Whole, Left, Untouched, Clean
  <2>4. Swapped(k) => Swapped(k)'
    BY <2>1, <2>3 DEF Swapped, Built
  <2>5. Track(k) => Track(k)'
    BY <2>1, <2>3, <2>4 DEF Track
  <2> QED BY <2>1, <2>2, <2>5 DEF Tracked
<1> QED BY <1>2, <1>3 DEF Tracked

LEMMA DecideTracked ==
    ASSUME Shapes, NEW i \in Installers, Begin(i), NEW j, NEW gaveUp, Decide(i, j, gaveUp),
           j.preserved = Wanted(dest, j)
    PROVE  Tracked(i)'
<1>1. /\ pc'[i] = "planned" /\ job'[i] = j /\ before'[i] = dest /\ dest' = dest
      /\ backup'[i] = Absent /\ moved'[i] = {} /\ mishap'[i] = NoMishap
  BY DEF Shapes, Shape, TypeOK, Begin, Decide
<1> QED BY <1>1 DEF Tracked, Track, Untouched, Clean, NoMishap

LEMMA BeginTracked ==
    ASSUME Shapes, NEW i \in Installers,
           \/ \E v \in Versions, env, force \in BOOLEAN : Install(i, v, env, force)
           \/ \E keep, force, purge \in BOOLEAN : Uninstall(i, keep, force, purge)
    PROVE  Tracked(i)'
<1>1. ASSUME NEW why, Refuse(i, why) PROVE Tracked(i)'
  BY <1>1 DEF Refuse, Tracked, Shapes, TypeOK
<1>2. ASSUME NEW v \in Versions, NEW env \in BOOLEAN, NEW force \in BOOLEAN, Install(i, v, env, force)
      PROVE  Tracked(i)'
  <2> DEFINE owned == Owned(dest, Shipped[v], env)
             j == [kind |-> "install", version |-> v, env |-> env, purge |-> FALSE,
                   preserved |-> Preserved(dest, owned), had |-> FALSE, committed |-> FALSE]
  <2>1. \/ Refuse(i, "unchanged") \/ Refuse(i, "refused")
        \/ Decide(i, j, IF force THEN owned ELSE {})
    BY <1>2 DEF Install
  <2>2. j.preserved = Wanted(dest, j)
    BY DEF Wanted, Preserved
  <2>3. Begin(i)
    BY <1>2 DEF Install
  <2> HIDE DEF j, owned
  <2> QED BY <1>1, <2>1, <2>2, <2>3, DecideTracked
<1>3. ASSUME NEW keep \in BOOLEAN, NEW force \in BOOLEAN, NEW purge \in BOOLEAN,
             Uninstall(i, keep, force, purge)
      PROVE  Tracked(i)'
  <2> DEFINE owned == Owned(dest, {}, ~keep)
             j == [kind |-> "uninstall", version |-> Known(dest), env |-> ~keep, purge |-> purge,
                   preserved |-> IF purge THEN {} ELSE Preserved(dest, owned),
                   had |-> FALSE, committed |-> FALSE]
  <2>1. \/ Refuse(i, "refused")
        \/ Decide(i, j, IF purge THEN Paths ELSE IF force THEN owned ELSE {})
    BY <1>3 DEF Uninstall
  <2>2. j.preserved = Wanted(dest, j)
    BY DEF Wanted, Preserved
  <2>3. Begin(i)
    BY <1>3 DEF Uninstall
  <2> HIDE DEF j, owned
  <2> QED BY <1>1, <2>1, <2>2, <2>3, DecideTracked
<1> QED BY <1>2, <1>3

LEMMA EndingTracked ==
    ASSUME Shapes, NEW i \in Installers, Tracked(i),
           \/ CopyFails(i) \/ RemoveBackup(i) \/ RemoveBackupFails(i)
           \/ RemoveDirectory(i) \/ RemoveDirectoryFails(i) \/ UndoFails(i)
           \/ Discard(i) \/ DiscardFails(i) \/ Die(i)
    PROVE  Tracked(i)'
<1> SUFFICES ASSUME ~disturbed'[i] PROVE Tracked(i)'
  BY DEF Tracked
<1> USE DEF decided, mishaps, At
<1>1. /\ TypeOK /\ Shape(i) /\ pc[i] # "idle" /\ job' = job /\ before' = before
      /\ disturbed[i] = disturbed'[i] /\ job[i] \in Jobs
  <2>1. UNCHANGED disturbed \/ Disturb(i)
    BY DEF CopyFails, RemoveBackup, RemoveBackupFails, RemoveDirectory, RemoveDirectoryFails,
       UndoFails, Discard, DiscardFails, Die
  <2>2. disturbed[i] = disturbed'[i]
    BY <2>1 DEF Shapes, TypeOK, Disturb
  <2>3. pc[i] # "idle" /\ UNCHANGED <<job, before>>
    BY DEF CopyFails, RemoveBackup, RemoveBackupFails, RemoveDirectory, RemoveDirectoryFails,
       UndoFails, Discard, DiscardFails, Die
  <2> QED BY <2>2, <2>3 DEF Shapes, Shape
<1>2. Track(i)
  BY <1>1 DEF Tracked
<1>3. ASSUME NEW how, NEW tells, NEW leaves, End(i, how, tells, leaves)
      PROVE  pc'[i] = "idle" /\ result'[i] = how /\ told'[i] = tells
  BY <1>1, <1>3 DEF End, GoTo, TypeOK
<1>4. CASE CopyFails(i)
  <2>1. pc'[i] = "idle" /\ result'[i] = "failed" /\ dest' = dest /\ mishap' = mishap
    BY <1>3, <1>4 DEF CopyFails
  <2>2. dest = before[i] /\ Clean(i)
    BY <1>2, <1>4 DEF CopyFails, Track, Untouched
  <2>3. before[i] \in Trees \cup {Absent}
    BY <1>1 DEF TypeOK
  <2> QED BY <1>1, <2>1, <2>2, <2>3, WithoutNothing DEF Tracked, Ended, Clean
<1>5. CASE Discard(i)
  <2>1. pc'[i] = "idle" /\ result'[i] = "failed" /\ dest' = dest /\ mishap' = mishap
    BY <1>3, <1>5 DEF Discard
  <2> QED BY <1>1, <1>2, <1>5, <2>1 DEF Tracked, Ended, Track, Left, Discard
<1>6. CASE UndoFails(i) \/ DiscardFails(i) \/ Die(i)
  <2>1. PICK how, tells, leaves : /\ End(i, how, tells, leaves)
                                  /\ how = "dead" \/ (how = "failed" /\ tells)
    BY <1>6 DEF UndoFails, DiscardFails, Die
  <2>2. pc'[i] = "idle" /\ result'[i] = how /\ told'[i] = tells
    BY <1>3, <2>1
  <2> QED BY <1>1, <2>1, <2>2 DEF Tracked, Ended
<1>7. CASE RemoveBackup(i) \/ RemoveBackupFails(i)
  <2>1. /\ pc[i] = "cleanup" /\ dest' = dest /\ mishap' = mishap
    BY <1>7 DEF RemoveBackup, RemoveBackupFails
  <2>2. PICK left : AfterBackup(i, left)
    BY <1>7 DEF RemoveBackup, RemoveBackupFails
  <2>3. Outcome(before[i], job[i])
          = IF job[i].kind = "uninstall" /\ dest = Empty THEN Absent ELSE dest
    BY <1>1, <1>2, <2>1, SwappedIsOutcome DEF Track
  <2>4. CASE job[i].kind = "uninstall" /\ dest = Empty
    <3>1. pc'[i] = "removing" /\ moved'[i] = {}
      BY <1>1, <2>2, <2>4 DEF AfterBackup, GoTo, TypeOK
    <3>2. Clean(i)
      BY <1>2, <2>1 DEF Track
    <3>3. Track(i)'
      BY <1>1, <1>2, <2>1, <2>3, <2>4, <3>1, <3>2 DEF Track, Clean
    <3> QED BY <1>1, <3>1, <3>3 DEF Tracked
  <2>5. CASE ~(job[i].kind = "uninstall" /\ dest = Empty)
    <3>1. End(i, "ok", left # Absent, {left})
      BY <2>2, <2>5 DEF AfterBackup
    <3>2. pc'[i] = "idle" /\ result'[i] = "ok"
      BY <1>3, <3>1
    <3> QED BY <1>1, <2>1, <2>3, <2>5, <3>2 DEF Tracked, Ended
  <2> QED BY <2>4, <2>5
<1>8. CASE RemoveDirectory(i)
  <2>1. pc'[i] = "idle" /\ result'[i] = "ok" /\ dest' = Absent /\ pc[i] = "removing"
    BY <1>3, <1>8 DEF RemoveDirectory
  <2> QED BY <1>1, <1>2, <2>1 DEF Tracked, Ended, Track
<1>9. CASE RemoveDirectoryFails(i)
  <2>1. /\ pc'[i] = "idle" /\ result'[i] = "failed" /\ dest' = dest /\ pc[i] = "removing"
    BY <1>3, <1>9 DEF RemoveDirectoryFails
  <2>2. mishap'[i].rmdir
    BY <1>1, <1>9 DEF RemoveDirectoryFails, TypeOK, Mishaps
  <2> QED BY <1>1, <1>2, <2>1, <2>2 DEF Tracked, Ended, Track
<1> QED BY <1>4, <1>5, <1>6, <1>7, <1>8, <1>9

LEMMA MovingTracked ==
    ASSUME Shapes, NEW i \in Installers, Tracked(i),
           CopyToStage(i) \/ SetAside(i) \/ \E p \in Paths : MoveIn(i, p) \/ MoveInCut(i, p)
    PROVE  Tracked(i)'
<1> SUFFICES ASSUME ~disturbed'[i] PROVE Tracked(i)'
  BY DEF Tracked
<1> USE DEF At, GoTo, decided, mishaps
<1>1. /\ TypeOK /\ Shape(i) /\ before' = before /\ disturbed[i] = disturbed'[i]
      /\ pc[i] # "idle" /\ pc'[i] # "idle" /\ job[i] \in Jobs
  BY DEF Shapes, Shape, TypeOK, CopyToStage, SetAside, MoveIn, MoveInCut, Rename, Disturb
<1>2. Track(i)
  BY <1>1 DEF Tracked
<1>3. CASE CopyToStage(i)
  <2>1. /\ pc[i] = "planned" /\ pc'[i] = "staged" /\ stage'[i] = Package(job[i])
        /\ UNCHANGED <<dest, backup, job, moved, mishap>>
    BY <1>1, <1>3 DEF CopyToStage, TypeOK
  <2>2. Package(job[i])' = Package(job[i])
    BY <2>1 DEF Package
  <2> QED BY <1>1, <1>2, <2>1, <2>2 DEF Tracked, Track, Untouched, Clean
<1>4. CASE SetAside(i)
  <2>1. /\ pc[i] = "staged" /\ pc'[i] = "moving" /\ dest' = Absent
        /\ dest # Absent => backup'[i] = dest
        /\ dest = Absent => backup' = backup
        /\ stage' = stage /\ moved' = moved /\ mishap' = mishap
    BY <1>1, <1>4 DEF SetAside, TypeOK
  <2>2. /\ job'[i].preserved = job[i].preserved /\ job'[i].kind = job[i].kind
        /\ job'[i].version = job[i].version /\ job'[i].purge = job[i].purge
        /\ job'[i].env = job[i].env
    BY <1>1, <1>4 DEF SetAside, TypeOK, Jobs
  <2>3. Package(job[i])' = Package(job[i]) /\ Wanted(before[i], job[i])' = Wanted(before[i], job[i])
    BY <1>1, <2>2 DEF Package, Wanted
  <2>4. /\ backup[i] = Absent /\ moved[i] = {} /\ dest = before[i] /\ stage[i] = Package(job[i])
        /\ job[i].preserved = Wanted(before[i], job[i]) /\ stage[i] # Absent /\ Clean(i)
    BY <1>1, <1>2, <2>1 DEF Track, Untouched, Shape
  <2>5. Whole(i, stage[i])'
    BY <1>1, <2>1, <2>4 DEF Whole, Clean
  <2>6. Track(i)'
    BY <1>1, <2>1, <2>2, <2>3, <2>4, <2>5 DEF Track, Clean
  <2> QED BY <1>1, <2>6 DEF Tracked
<1>5. ASSUME NEW p \in Paths, MoveIn(i, p) \/ MoveInCut(i, p)
      PROVE  Tracked(i)'
  <2>1. /\ pc[i] = "moving" /\ job' = job /\ dest' = dest /\ Rename(i, p)
        /\ p \in job[i].preserved /\ p \notin moved[i] /\ ~job[i].committed
        /\ backup[i] # Absent /\ stage[i] # Absent
    BY <1>1, <1>5 DEF MoveIn, MoveInCut, Rename, TypeOK, ToMove, Shape
  <2>2. backup[i] \in Trees /\ stage[i] \in Trees
    BY <1>1, <2>1 DEF TypeOK
  <2>3. /\ stage'[i][p] = backup[i][p] /\ backup'[i][p] = None
        /\ \A q \in Paths : q # p => stage'[i][q] = stage[i][q] /\ backup'[i][q] = backup[i][q]
        /\ stage'[i] # Absent /\ backup'[i] # Absent
    <3>1. /\ stage' = [stage EXCEPT ![i] = [stage[i] EXCEPT ![p] = backup[i][p]]]
          /\ backup' = [backup EXCEPT ![i] = [backup[i] EXCEPT ![p] = None]]
      BY <2>1 DEF Rename
    <3>2. backup[i][p] \in {None} \cup UserContent \cup Versions
      BY <2>2 DEF Trees
    <3>3. /\ [stage[i] EXCEPT ![p] = backup[i][p]] \in Trees
          /\ [stage[i] EXCEPT ![p] = backup[i][p]][p] = backup[i][p]
          /\ \A q \in Paths : q # p => [stage[i] EXCEPT ![p] = backup[i][p]][q] = stage[i][q]
      BY <2>2, <3>2, TreeUpdate
    <3>4. /\ [backup[i] EXCEPT ![p] = None] \in Trees
          /\ [backup[i] EXCEPT ![p] = None][p] = None
          /\ \A q \in Paths : q # p => [backup[i] EXCEPT ![p] = None][q] = backup[i][q]
      BY <2>2, TreeUpdate
    <3> QED BY <1>1, <3>1, <3>3, <3>4, TreeIsThere DEF TypeOK
  <2>4. /\ job[i].preserved = Wanted(before[i], job[i]) /\ moved[i] \subseteq job[i].preserved
        /\ dest = Absent /\ Whole(i, stage[i]) /\ Clean(i)
        /\ \A q \in Paths \ moved[i] : stage[i][q] = Package(job[i])[q]
    BY <1>2, <2>1 DEF Track
  <2>5. moved[i] \subseteq Paths
    BY <1>1 DEF TypeOK
  <2>6. before[i] # Absent
    BY <2>1, <2>4 DEF Whole
  <2>7. CASE MoveIn(i, p)
    <3>1. pc' = pc /\ moved'[i] = moved[i] \cup {p} /\ mishap' = mishap
      BY <1>1, <2>7 DEF MoveIn, TypeOK
    <3>2. Whole(i, stage[i])'
      BY <1>1, <2>1, <2>3, <2>4, <2>5, <2>6, <3>1 DEF Whole, Clean
    <3>3. \A q \in Paths \ moved'[i] : stage'[i][q] = Package(job[i])[q]
      BY <2>1, <2>3, <2>4, <3>1
    <3>4. Track(i)'
      BY <1>1, <2>1, <2>4, <3>1, <3>2, <3>3 DEF Track, Clean
    <3> QED BY <1>1, <3>4 DEF Tracked
  <2>8. CASE MoveInCut(i, p)
    <3>1. /\ pc'[i] = "undo" /\ moved' = moved /\ mishap'[i].moved = {p}
          /\ ~mishap'[i].swapped /\ ~mishap'[i].rmdir
      BY <1>1, <2>4, <2>8 DEF MoveInCut, TypeOK, Mishaps, Clean
    <3>2. Whole(i, stage[i])'
      BY <1>1, <2>1, <2>3, <2>4, <2>5, <2>6, <3>1 DEF Whole, Clean
    <3>3. Track(i)'
      BY <1>1, <2>1, <2>4, <3>1, <3>2 DEF Track
    <3> QED BY <1>1, <3>3 DEF Tracked
  <2> QED BY <1>5, <2>7, <2>8
<1> QED BY <1>3, <1>4, <1>5

(* The environment is not among the paths that a run preserves when it     *)
(* builds one: building half of it leaves the moved files whole.           *)
LEMMA SwappingTracked ==
    ASSUME Shapes, NEW i \in Installers, Tracked(i),
           SwapIn(i) \/ SwapInCut(i) \/ BuildEnvironment(i) \/ Fails(i)
    PROVE  Tracked(i)'
<1> SUFFICES ASSUME ~disturbed'[i] PROVE Tracked(i)'
  BY DEF Tracked
<1> USE DEF At, GoTo, decided, mishaps
<1>1. /\ TypeOK /\ Shape(i) /\ before' = before /\ disturbed[i] = disturbed'[i]
      /\ pc[i] # "idle" /\ pc'[i] # "idle" /\ job[i] \in Jobs
      /\ backup' = backup /\ moved' = moved
  BY DEF Shapes, Shape, TypeOK, SwapIn, SwapInCut, Swap, BuildEnvironment, Fails, Disturb, Commit
<1>2. Track(i)
  BY <1>1 DEF Tracked
<1>3. /\ job'[i].preserved = job[i].preserved /\ job'[i].kind = job[i].kind
      /\ job'[i].version = job[i].version /\ job'[i].purge = job[i].purge
      /\ job'[i].env = job[i].env
  BY <1>1 DEF SwapIn, SwapInCut, BuildEnvironment, Fails, TypeOK, Jobs, Commit
<1>4. Package(job[i])' = Package(job[i]) /\ Wanted(before[i], job[i])' = Wanted(before[i], job[i])
  BY <1>1, <1>3 DEF Package, Wanted
<1>5. /\ job[i].preserved = Wanted(before[i], job[i]) /\ moved[i] \subseteq job[i].preserved
      /\ before[i] \in Trees \cup {Absent} /\ (pc[i] \in {"staged", "moving", "building"} => Clean(i))
  BY <1>1, <1>2 DEF Track, TypeOK
<1>6. ASSUME Swap(i)
      PROVE  /\ pc[i] = "moving" /\ dest' = stage[i] /\ stage[i] # Absent /\ stage[i] \in Trees
             /\ Whole(i, stage[i]) /\ moved[i] = job[i].preserved
             /\ \A q \in Paths \ moved[i] : stage[i][q] = Package(job[i])[q]
             /\ \A q \in moved[i] : stage[i][q] = before[i][q]
  <2>1. pc[i] = "moving" /\ dest' = stage[i] /\ ToMove(i) = {} /\ stage[i] # Absent
    BY <1>1, <1>6 DEF Swap, Shape
  <2>2. /\ Whole(i, stage[i]) /\ stage[i] \in Trees
        /\ \A q \in Paths \ moved[i] : stage[i][q] = Package(job[i])[q]
    BY <1>1, <1>2, <2>1 DEF Track, TypeOK
  <2>3. moved[i] = job[i].preserved
    <3>1. CASE job[i].had
      BY <1>5, <2>1, <3>1 DEF ToMove
    <3>2. CASE ~job[i].had
      <4>1. before[i] = Absent
        BY <1>1, <2>2, <3>2 DEF Shape, Whole
      <4> QED BY <1>5, <4>1 DEF Wanted
    <3> QED BY <3>1, <3>2
  <2> QED BY <2>1, <2>2, <2>3 DEF Whole
<1>7. CASE SwapIn(i)
  <2>1. /\ pc[i] = "moving" /\ dest' = stage[i] /\ stage[i] # Absent /\ Whole(i, stage[i])
        /\ moved[i] = job[i].preserved /\ mishap' = mishap
        /\ \A q \in Paths \ moved[i] : stage[i][q] = Package(job[i])[q]
        /\ pc'[i] = IF job[i].kind = "install" /\ job[i].env THEN "building" ELSE "cleanup"
    BY <1>1, <1>6, <1>7 DEF SwapIn, TypeOK
  <2>2. \A p \in Paths : ~Built(i, p)'
    BY <1>3, <2>1 DEF Built
  <2>3. Whole(i, dest)'
    BY <1>1, <2>1 DEF Whole
  <2>4. Swapped(i)'
    BY <1>1, <1>3, <1>4, <2>1, <2>2, <2>3 DEF Swapped
  <2>5. Track(i)'
    BY <1>1, <1>3, <1>4, <1>5, <2>1, <2>4 DEF Track, Clean
  <2> QED BY <1>1, <2>5 DEF Tracked
<1>8. CASE SwapInCut(i)
  <2>1. /\ pc[i] = "moving" /\ dest' = stage[i] /\ stage[i] # Absent /\ Whole(i, stage[i])
        /\ moved[i] = job[i].preserved /\ pc'[i] = "undo" /\ stage[i] \in Trees
        /\ \A q \in Paths \ moved[i] : stage[i][q] = Package(job[i])[q]
        /\ \A q \in moved[i] : stage[i][q] = before[i][q]
        /\ Clean(i)
    BY <1>1, <1>5, <1>6, <1>8 DEF SwapInCut, TypeOK
  <2>2. CASE Commit(i) /\ UNCHANGED mishap
    <3>1. job'[i].committed
      BY <1>1, <2>2 DEF Commit, TypeOK, Jobs
    <3>2. Whole(i, dest)'
      BY <1>1, <2>1, <2>2 DEF Whole
    <3>3. Track(i)'
      BY <1>1, <1>3, <1>4, <1>5, <2>1, <2>2, <3>1, <3>2 DEF Track, Clean
    <3> QED BY <1>1, <3>3 DEF Tracked
  <2>3. CASE mishap' = [mishap EXCEPT ![i].swapped = TRUE] /\ UNCHANGED job
    <3>1. /\ mishap'[i].swapped /\ ~mishap'[i].rmdir /\ mishap'[i].moved = {}
          /\ job'[i] = job[i] /\ ~job[i].committed
      BY <1>1, <2>1, <2>3 DEF TypeOK, Mishaps, Clean, Shape, NoMishap
    <3>2. stage[i] = After(before[i], job[i], FALSE)
      BY <1>1, <1>5, <2>1, LaidIsAfter
    <3>3. Left(i)'
      BY <1>1, <2>1, <2>3, <3>2 DEF Left
    <3>4. Track(i)'
      BY <1>1, <1>3, <1>4, <1>5, <2>1, <3>1, <3>3 DEF Track
    <3> QED BY <1>1, <3>4 DEF Tracked
  <2> QED BY <1>8, <2>2, <2>3 DEF SwapInCut
<1>9. ASSUME pc[i] = "building", dest' = [dest EXCEPT ![Venv] = job[i].version]
      PROVE  /\ job[i].kind = "install" /\ job[i].env /\ Swapped(i) /\ Venv \notin moved[i]
             /\ dest' # Absent /\ dest'[Venv] = job[i].version
             /\ \A p \in Paths : p # Venv => dest'[p] = dest[p]
  <2>1. job[i].kind = "install" /\ job[i].env /\ Swapped(i)
    BY <1>2, <1>9 DEF Track
  <2>2. dest \in Trees /\ job[i].version \in Versions /\ Venv \in Paths
    BY <1>1, <2>1 DEF TypeOK, Jobs, Paths, Swapped
  <2>3. Venv \notin moved[i]
    BY <1>5, <2>1, WantedIs
  <2> QED BY <1>9, <2>1, <2>2, <2>3, TreeUpdate, TreeIsThere
<1>10. CASE BuildEnvironment(i)
  <2>1. /\ pc[i] = "building" /\ pc'[i] = "cleanup" /\ dest' = [dest EXCEPT ![Venv] = job[i].version]
        /\ mishap' = mishap
    BY <1>1, <1>10 DEF BuildEnvironment, TypeOK
  <2>2. /\ job[i].kind = "install" /\ job[i].env /\ Swapped(i) /\ Venv \notin moved[i]
        /\ dest' # Absent /\ dest'[Venv] = job[i].version
        /\ \A p \in Paths : p # Venv => dest'[p] = dest[p]
    BY <1>9, <2>1
  <2>3. Whole(i, dest)'
    BY <1>1, <2>1, <2>2 DEF Whole, Swapped, TypeOK
  <2>4. \A p \in Paths : Built(i, p)' <=> p = Venv
    BY <1>3, <2>1, <2>2 DEF Built
  <2>5. \A p \in Paths : ~Built(i, p)
    BY <2>1 DEF Built
  <2>6. Swapped(i)'
    BY <1>1, <1>3, <1>4, <2>2, <2>3, <2>4, <2>5 DEF Swapped
  <2>7. Track(i)'
    BY <1>1, <1>3, <1>4, <1>5, <2>1, <2>6 DEF Track, Clean
  <2> QED BY <1>1, <2>7 DEF Tracked
<1>11. CASE Fails(i)
  <2>1. /\ pc[i] \in {"staged", "moving", "building"} /\ pc'[i] = "undo" /\ stage' = stage
        /\ job'[i].committed = job[i].committed /\ mishap' = mishap /\ Clean(i)
    BY <1>1, <1>5, <1>11 DEF Fails, TypeOK, Jobs
  <2>2. CASE pc[i] \in {"staged", "moving"}
    <3>1. dest' = dest /\ ~job[i].committed
      BY <1>1, <1>11, <2>2 DEF Fails, Shape
    <3>2. Untouched(i)' \/ (dest' = Absent /\ Whole(i, stage[i])')
      BY <1>1, <1>2, <2>1, <2>2, <3>1 DEF Track, Untouched, Whole
    <3>3. Track(i)'
      BY <1>1, <1>3, <1>4, <1>5, <2>1, <3>1, <3>2 DEF Track, Clean
    <3> QED BY <1>1, <3>3 DEF Tracked
  <2>3. CASE pc[i] = "building"
    <3>1. job[i].committed /\ Swapped(i)
      BY <1>1, <1>2, <2>3 DEF Shape, Track
    <3>2. dest' # Absent /\ Whole(i, dest)'
      <4>1. CASE dest' = dest
        BY <1>1, <2>1, <3>1, <4>1 DEF Swapped, Whole
      <4>2. CASE dest' = [dest EXCEPT ![Venv] = job[i].version]
        <5>1. /\ Venv \notin moved[i] /\ dest' # Absent
              /\ \A p \in Paths : p # Venv => dest'[p] = dest[p]
          BY <1>9, <2>3, <4>2
        <5> QED BY <1>1, <2>1, <3>1, <5>1 DEF Swapped, Whole, TypeOK
      <4> QED BY <1>11, <4>1, <4>2 DEF Fails
    <3>3. Track(i)'
      BY <1>1, <1>3, <1>4, <1>5, <2>1, <3>1, <3>2 DEF Track, Clean
    <3> QED BY <1>1, <3>3 DEF Tracked
  <2> QED BY <2>1, <2>2, <2>3
<1> QED BY <1>7, <1>8, <1>10, <1>11

LEMMA UndoTracked ==
    ASSUME Shapes, NEW i \in Installers, Tracked(i),
           TakeOut(i) \/ PutBack(i) \/ \E p \in Paths : MoveBack(i, p)
    PROVE  Tracked(i)'
<1> SUFFICES ASSUME ~disturbed'[i] PROVE Tracked(i)'
  BY DEF Tracked
<1> USE DEF At, GoTo, decided, mishaps
<1>1. /\ TypeOK /\ Shape(i) /\ before' = before /\ disturbed[i] = disturbed'[i]
      /\ pc[i] # "idle" /\ pc'[i] # "idle" /\ job[i] \in Jobs /\ job' = job /\ mishap' = mishap
  BY DEF Shapes, Shape, TypeOK, TakeOut, PutBack, MoveBack, Disturb
<1>2. Track(i)
  BY <1>1 DEF Tracked
<1>3. /\ job[i].preserved = Wanted(before[i], job[i]) /\ moved[i] \subseteq job[i].preserved
      /\ before[i] \in Trees \cup {Absent} /\ moved[i] \subseteq Paths
  BY <1>1, <1>2 DEF Track, TypeOK
<1>4. CASE TakeOut(i)
  <2>1. /\ pc[i] = "undo" /\ pc'[i] = "restoring" /\ backup' = backup /\ moved' = moved
        /\ IF job[i].committed /\ dest # Absent THEN stage'[i] = dest /\ dest' = Absent
           ELSE stage' = stage /\ dest' = dest
    BY <1>1, <1>4 DEF TakeOut, TypeOK
  <2>2. IF mishap[i].swapped THEN Left(i)'
        ELSE Untouched(i)' \/ (dest' = Absent /\ Whole(i, stage[i])')
    <3>1. CASE job[i].committed
      BY <1>1, <1>2, <2>1, <3>1 DEF Track, Whole
    <3>2. CASE ~job[i].committed
      BY <1>1, <1>2, <2>1, <3>2 DEF Track, Whole, Untouched, Left
    <3> QED BY <3>1, <3>2
  <2>3. Track(i)'
    BY <1>1, <1>2, <1>3, <2>1, <2>2 DEF Track
  <2> QED BY <1>1, <2>3 DEF Tracked
<1>5. CASE PutBack(i)
  <2>1. /\ pc[i] = "restoring" /\ pc'[i] = "discarding" /\ moved' = moved
        /\ backup[i] # Absent => moved[i] = {}
        /\ IF backup[i] # Absent /\ dest = Absent THEN dest' = backup[i] ELSE dest' = dest
    BY <1>1, <1>5 DEF PutBack, TypeOK, Restorable, Shape
  <2>2. CASE mishap[i].swapped
    <3>1. dest' = dest /\ Left(i)
      BY <1>2, <2>1, <2>2 DEF Track, Left
    <3>2. Left(i)'
      BY <1>1, <3>1 DEF Left
    <3>3. Track(i)'
      BY <1>1, <1>2, <1>3, <2>1, <2>2, <3>2 DEF Track
    <3> QED BY <1>1, <3>3 DEF Tracked
  <2>3. CASE ~mishap[i].swapped
    <3>1. dest' = Without(before[i], mishap[i].moved)
      <4>1. CASE Untouched(i)
        BY <1>3, <2>1, <4>1, WithoutNothing DEF Untouched
      <4>2. CASE before[i] = Absent /\ dest = Absent /\ Whole(i, stage[i])
        BY <2>1, <4>2 DEF Whole, Without
      <4>3. CASE before[i] # Absent /\ dest = Absent /\ Whole(i, stage[i])
        <5>1. /\ backup[i] # Absent
              /\ \A p \in Paths : backup[i][p] = IF p \in mishap[i].moved THEN None ELSE before[i][p]
          BY <2>1, <4>3 DEF Whole
        <5>2. backup[i] \in Trees
          BY <1>1, <5>1 DEF TypeOK
        <5>3. backup[i] = Without(before[i], mishap[i].moved)
          BY <4>3, <5>1, <5>2 DEF Trees, Without
        <5> QED BY <2>1, <4>3, <5>1, <5>3
      <4> QED BY <1>2, <2>1, <2>3, <4>1, <4>2, <4>3 DEF Track
    <3>2. Track(i)'
      BY <1>1, <1>2, <1>3, <2>1, <2>3, <3>1 DEF Track
    <3> QED BY <1>1, <3>2 DEF Tracked
  <2> QED BY <2>2, <2>3
<1>6. ASSUME NEW p \in Paths, MoveBack(i, p)
      PROVE  Tracked(i)'
  <2>1. /\ pc[i] = "restoring" /\ pc' = pc /\ dest' = dest /\ moved'[i] = moved[i] \ {p}
        /\ p \in moved[i] /\ backup[i] # Absent
    BY <1>1, <1>6 DEF MoveBack, TypeOK, Restorable
  <2>2. CASE mishap[i].swapped
    <3>1. Left(i)'
      BY <1>1, <1>2, <2>1, <2>2 DEF Track, Left
    <3>2. Track(i)'
      BY <1>1, <1>2, <1>3, <2>1, <2>2, <3>1 DEF Track
    <3> QED BY <1>1, <3>2 DEF Tracked
  <2>3. CASE ~mishap[i].swapped
    <3>1. /\ dest = Absent /\ before[i] # Absent /\ stage[i] # Absent
          /\ \A q \in Paths : backup[i][q] = IF q \in moved[i] \cup mishap[i].moved THEN None
                                            ELSE before[i][q]
          /\ \A q \in moved[i] : stage[i][q] = before[i][q]
      BY <1>2, <2>1, <2>3 DEF Track, Untouched, Whole
    <3>2. before[i][p] # None
      BY <1>3, <2>1, WantedIs
    <3>3. stage[i] \in Trees /\ backup[i] \in Trees /\ stage[i][p] \in {None} \cup UserContent \cup Versions
      BY <1>1, <2>1, <3>1 DEF TypeOK, Trees
    <3>4. stage' = [stage EXCEPT ![i] = [stage[i] EXCEPT ![p] = None]]
          /\ backup' = [backup EXCEPT ![i] = [backup[i] EXCEPT ![p] = stage[i][p]]]
      BY <1>6, <2>1, <3>1, <3>2 DEF MoveBack
    <3>5. /\ [stage[i] EXCEPT ![p] = None] \in Trees
          /\ \A q \in Paths : q # p => [stage[i] EXCEPT ![p] = None][q] = stage[i][q]
      BY <3>3, TreeUpdate
    <3>6. /\ [backup[i] EXCEPT ![p] = stage[i][p]] \in Trees
          /\ [backup[i] EXCEPT ![p] = stage[i][p]][p] = stage[i][p]
          /\ \A q \in Paths : q # p => [backup[i] EXCEPT ![p] = stage[i][p]][q] = backup[i][q]
      BY <3>3, TreeUpdate
    <3>7. /\ stage'[i] # Absent /\ backup'[i] # Absent /\ backup'[i][p] = stage[i][p]
          /\ \A q \in Paths : q # p => stage'[i][q] = stage[i][q] /\ backup'[i][q] = backup[i][q]
      BY <1>1, <3>4, <3>5, <3>6, TreeIsThere DEF TypeOK
    <3>8. p \notin mishap[i].moved
      BY <1>1, <1>2, <2>1 DEF Track
    <3>9. Whole(i, stage[i])'
      BY <1>1, <1>3, <2>1, <3>1, <3>7, <3>8 DEF Whole
    <3>10. Track(i)'
      BY <1>1, <1>2, <1>3, <2>1, <2>3, <3>1, <3>9 DEF Track
    <3> QED BY <1>1, <3>10 DEF Tracked
  <2> QED BY <2>2, <2>3
<1> QED BY <1>4, <1>5, <1>6

(* A run that ends undisturbed leaves the package installed as it should   *)
(* be, or fails and leaves the directory as it found it, whatever failed   *)
(* and wherever (_transactional_replace, install_skill.py:565), however    *)
(* many installers there are, unless the rollback itself failed, and said  *)
(* so.  An interrupt before a rename was noted and a failing rmdir leave   *)
(* what the formula says.                                                  *)
THEOREM RunsAreAllOrNothing == Spec => []AllOrNothing
<1> DEFINE TrackInv == Shapes /\ \A i \in Installers : Tracked(i)
<1>1. Init => TrackInv
  <2> SUFFICES ASSUME Init, NEW i \in Installers PROVE Tracked(i)
    BY ShapesInitial
  <2> QED BY DEF Init, Tracked, Ended
<1>2. TrackInv /\ [Next]_vars => TrackInv'
  <2> SUFFICES ASSUME TrackInv, [Next]_vars PROVE \A i \in Installers : Tracked(i)'
    BY ShapesInductive
  <2>1. ASSUME NEW i \in Installers, Step(i), NEW k \in Installers
        PROVE  Tracked(k)'
    <3>1. CASE k = i
      BY <2>1, <3>1, BeginTracked, EndingTracked, MovingTracked, SwappingTracked, UndoTracked
         DEF Step
    <3>2. CASE k # i
      BY <2>1, <3>2, OthersTracked DEF Shapes
    <3> QED BY <3>1, <3>2
  <2>2. ASSUME NEW p \in PkgPaths \cup UserPaths \cup {Manifest}, UserWrites(p) \/ UserRemoves(p),
               NEW k \in Installers
        PROVE  Tracked(k)'
    <3>1. disturbed'[k]
      BY <2>2, ConstantsOK DEF UserWrites, UserRemoves, Disturb, ConstantsOK
    <3> QED BY <3>1 DEF Tracked
  <2>3. ASSUME UNCHANGED vars, NEW k \in Installers PROVE Tracked(k)'
    <3>1. Ended(k) => Ended(k)'
      BY <2>3 DEF vars, Ended
    <3>2. Track(k) => Track(k)'
      BY <2>3 DEF vars, Track, Untouched, Whole, Swapped, Built, Clean, Left
    <3> QED BY <2>3, <3>1, <3>2 DEF vars, Tracked
  <2> QED BY <2>1, <2>2, <2>3 DEF Next
<1>3. TrackInv => AllOrNothing
  BY DEF AllOrNothing, Tracked, Ended
<1> QED BY <1>1, <1>2, <1>3, PTL DEF Spec
=============================================================================
