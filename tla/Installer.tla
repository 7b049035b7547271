----------------------------- MODULE Installer ------------------------------
(***************************************************************************)
(* The installer of the skill and of its agents                            *)
(* (src/scripts/install_skill.py).                                         *)
(*                                                                         *)
(* A package replaces what is in its destination directory by renames: the *)
(* old directory is set aside as a backup, the files of the user are moved *)
(* from there into a staged new package, the stage becomes the             *)
(* destination, the virtual environment is built in place, and the backup  *)
(* is deleted.  A failure anywhere undoes what was done, in reverse order. *)
(* Every rename is a step; any of them may fail, an interrupt may come      *)
(* before a rename has been noted, the process may die between any two,    *)
(* and the user goes on working in the directory.                          *)
(*                                                                         *)
(* A directory is a function from paths to contents.  A package file of    *)
(* version v has content v (all versions differ), the manifest of version  *)
(* v is v, an environment is the version it was built for.  What users     *)
(* write is "early" when no installer is at work, "late" when one is: the  *)
(* installer decides once, at the beginning, which files are the user's.   *)
(***************************************************************************)
EXTENDS Naturals, FiniteSets

CONSTANTS
    Installers,     \* processes that may run the installer
    Versions,       \* versions of the package
    PkgPaths,       \* paths of package files
    UserPaths,      \* other paths
    Shipped,        \* [Versions -> SUBSET PkgPaths]
    Absent,         \* no directory
    Within,         \* pairs <<p, f>>: package file f lies in a directory at p
    MaxJobs,        \* bound: installer runs
    MaxWrites,      \* bound: files the user writes or removes
    MaxFaults       \* bound: operations that fail, interrupts, crashes

Manifest == "manifest"
Venv     == ".venv"
Paths    == PkgPaths \cup UserPaths \cup {Manifest, Venv}

None == "none"
UserContent == {"early", "late"}
Trees == [Paths -> {None} \cup UserContent \cup Versions]

ASSUME ConstantsOK ==
    /\ Versions \cap {None, "early", "late"} = {} /\ None \notin Installers
    /\ Absent \notin Trees
    /\ Shipped \in [Versions -> SUBSET PkgPaths]
    /\ {Manifest, Venv} \cap (PkgPaths \cup UserPaths) = {}
    /\ PkgPaths \cap UserPaths = {}
    /\ Within \subseteq UserPaths \X PkgPaths
    /\ {MaxJobs, MaxWrites, MaxFaults} \subseteq Nat

VARIABLES
    dest,       \* the destination directory
    stage,      \* of each installer: its staging directory
    backup,     \* and the old directory it has set aside
    orphans,    \* such directories of installers that have ended
    pc,         \* where each installer is
    job,        \* what it has been asked and has decided
    moved,      \* the user's paths it has moved into the stage
    before,     \* history: the destination when it decided
    disturbed,  \* history: someone else has changed the destination since
    result,     \* how it ended
    told,       \* its last message names the directories it leaves
    mine,       \* history: what the user has written and not given up
    mishap,     \* history: what befell the run between two of its steps
    unnoted,    \* history: paths of the user in a stage that forgot them
    jobs, writes, faults

vars == <<dest, stage, backup, orphans, pc, job, moved, before, disturbed, result,
          told, mine, mishap, unnoted, jobs, writes, faults>>
decided == <<job, before>>
counters == <<jobs, writes>>
mishaps == <<mishap, unnoted>>

Steps == {"idle", "planned", "staged", "moving", "building", "cleanup",
          "removing", "undo", "restoring", "discarding"}
Results == {"none", "ok", "unchanged", "refused", "failed", "dead"}

(* What a run is asked, and what it has found out: the paths it preserves, *)
(* and, in the transaction, whether there was a destination and whether    *)
(* the stage has become it.                                                *)
NoJob == [kind |-> "none"]
Jobs == [kind : {"install", "uninstall"}, version : Versions, env : BOOLEAN,
         purge : BOOLEAN, preserved : SUBSET (Paths \ {Manifest}),
         had : BOOLEAN, committed : BOOLEAN]

(* What can befall a run: an interrupt between the rename of a path into    *)
(* the stage and the note of it, or between the swap and the note of it;   *)
(* a destination that someone creates while the old one is set aside; an   *)
(* emptied directory that cannot be removed.                               *)
NoMishap == [moved |-> {}, swapped |-> FALSE, recreated |-> FALSE, rmdir |-> FALSE]
Mishaps == [moved : SUBSET Paths, swapped : BOOLEAN, recreated : BOOLEAN, rmdir : BOOLEAN]

Empty == [p \in Paths |-> None]
Present(t) == {p \in Paths : t[p] # None}
AtWork == {i \in Installers : pc[i] # "idle"}

Init ==
    /\ dest \in {Absent, Empty}
    /\ stage = [i \in Installers |-> Absent]
    /\ backup = [i \in Installers |-> Absent]
    /\ orphans = {}
    /\ pc = [i \in Installers |-> "idle"]
    /\ job = [i \in Installers |-> NoJob]
    /\ moved = [i \in Installers |-> {}]
    /\ before = [i \in Installers |-> Absent]
    /\ disturbed = [i \in Installers |-> FALSE]
    /\ result = [i \in Installers |-> "none"]
    /\ told = [i \in Installers |-> FALSE]
    /\ mine = Empty
    /\ mishap = [i \in Installers |-> NoMishap]
    /\ unnoted = {}
    /\ jobs = 0 /\ writes = 0 /\ faults = 0

-----------------------------------------------------------------------------
(* The user.                                                               *)

Disturb(who) == disturbed' = [i \in Installers |-> disturbed[i] \/ i # who]

(* A path can be a file only if nothing lies in or above it.               *)
Free(t, p) == \A q \in Paths : <<p, q>> \in Within \/ <<q, p>> \in Within => t[q] = None

(* The user writes what is no directory of the installer: where the        *)
(* destination has been set aside, this creates it.  A file that is on its *)
(* way from there remains the user's.                                      *)
UserWrites(p) ==
    /\ writes < MaxWrites
    /\ LET c == IF AtWork = {} THEN "early" ELSE "late"
           t == IF dest = Absent THEN Empty ELSE dest
           away == c = "late" /\ mine[p] = "early" /\ t[p] # "early"
       IN  /\ Free(t, p)
           /\ dest' = [t EXCEPT ![p] = c]
           /\ mine' = IF away THEN mine ELSE [mine EXCEPT ![p] = c]
           /\ unnoted' = IF away THEN unnoted ELSE unnoted \ {p}
    /\ mishap' = [i \in Installers |->
                    [mishap[i] EXCEPT !.recreated = @ \/ (dest = Absent /\ backup[i] # Absent)]]
    /\ writes' = writes + 1
    /\ Disturb(None)
    /\ UNCHANGED <<stage, backup, orphans, pc, decided, moved, result, told, jobs, faults>>

UserRemoves(p) ==
    /\ dest # Absent
    /\ writes < MaxWrites
    /\ dest[p] # None
    /\ dest' = [dest EXCEPT ![p] = None]
    /\ mine' = IF mine[p] = dest[p] THEN [mine EXCEPT ![p] = None] ELSE mine
    /\ writes' = writes + 1
    /\ Disturb(None)
    /\ UNCHANGED <<stage, backup, orphans, pc, decided, moved, result, told, mishaps,
                   jobs, faults>>

-----------------------------------------------------------------------------
(* Deciding: install_package and uninstall_package up to their             *)
(* transaction.                                                            *)

(* _read_manifest: a manifest which a user has written is not trusted.     *)
Known(t) == IF t # Absent /\ t[Manifest] \in Versions THEN t[Manifest] ELSE None
Managed(t) == IF Known(t) = None THEN {} ELSE Shipped[Known(t)]

(* _integrity_errors: managed files that are not as installed.             *)
Altered(t) == {p \in Managed(t) : t[p] # t[Manifest]}

(* Faulty variant of Unsafe: a file of the user on a package path counts    *)
(* for nothing.                                                            *)
UnsafeIgnoringCollisions(t, v) ==
    t # Absent /\ ((t[Manifest] # None /\ Known(t) = None) \/ Altered(t) # {})

(* What makes install_package ask for --force.                             *)
Unsafe(t, v) ==
    /\ t # Absent
    /\ \/ t[Manifest] # None /\ Known(t) = None
       \/ Altered(t) # {}
       \/ \E p \in Shipped[v] \ Managed(t) : t[p] \notin {None, v}

(* Faulty variant of Owned: the manifest is taken for a file of the user.  *)
OwnedWithoutManifest(t, new, env) ==
    Managed(t) \cup new \cup (IF env THEN {Venv} ELSE {})

(* The paths that a run replaces (owned_files and replaced_roots), and the *)
(* user's paths that _preserved_roots finds.                               *)
Owned(t, new, env) ==
    Managed(t) \cup new \cup {Manifest} \cup (IF env THEN {Venv} ELSE {})
Preserved(t, owned) == IF t = Absent THEN {} ELSE Present(t) \ owned

Decide(i, j, gaveUp) ==
    /\ pc' = [pc EXCEPT ![i] = "planned"]
    /\ job' = [job EXCEPT ![i] = j]
    /\ before' = [before EXCEPT ![i] = dest]
    /\ disturbed' = [disturbed EXCEPT ![i] = FALSE]
    /\ result' = [result EXCEPT ![i] = "none"]
    /\ mine' = [p \in Paths |-> IF p \in gaveUp THEN None ELSE mine[p]]
    /\ mishap' = [mishap EXCEPT ![i] = NoMishap]

Refuse(i, why) ==
    /\ result' = [result EXCEPT ![i] = why]
    /\ disturbed' = [disturbed EXCEPT ![i] = TRUE]
    /\ UNCHANGED <<pc, decided, mine, mishap>>

Begin(i) ==
    /\ pc[i] = "idle"
    /\ jobs < MaxJobs
    /\ jobs' = jobs + 1
    /\ told' = [told EXCEPT ![i] = FALSE]
    /\ UNCHANGED <<dest, stage, backup, orphans, moved, unnoted, writes, faults>>

(* --force is the consent to lose what lies on package paths; the          *)
(* environment is rebuilt with --install-dependencies.                     *)
Install(i, v, env, force) ==
    /\ Begin(i)
    /\ LET owned == Owned(dest, Shipped[v], env)
       IN  IF Known(dest) = v /\ \A p \in Shipped[v] : dest[p] = v
           THEN Refuse(i, "unchanged")
           ELSE IF Unsafe(dest, v) /\ ~force
           THEN Refuse(i, "refused")
           ELSE Decide(i, [kind |-> "install", version |-> v, env |-> env,
                           purge |-> FALSE, preserved |-> Preserved(dest, owned),
                           had |-> FALSE, committed |-> FALSE],
                       IF force THEN owned ELSE {})

(* Nothing to uninstall without a manifest; --purge, which needs --force,  *)
(* gives up every file.                                                    *)
Uninstall(i, keep, force, purge) ==
    /\ Begin(i)
    /\ LET v == Known(dest)
           owned == Owned(dest, {}, ~keep)
       IN  IF v = None \/ ((Altered(dest) # {} \/ purge) /\ ~force)
           THEN Refuse(i, "refused")
           ELSE Decide(i, [kind |-> "uninstall", version |-> v, env |-> ~keep,
                           purge |-> purge,
                           preserved |-> IF purge THEN {} ELSE Preserved(dest, owned),
                           had |-> FALSE, committed |-> FALSE],
                       IF purge THEN Paths ELSE IF force THEN owned ELSE {})

-----------------------------------------------------------------------------
(* The transaction.                                                        *)

At(i, where) == pc[i] = where
GoTo(i, where) == pc' = [pc EXCEPT ![i] = where]
Commit(i) == job' = [job EXCEPT ![i].committed = TRUE]

(* An operation of the file system fails.                                  *)
Fault == faults < MaxFaults /\ faults' = faults + 1

(* An installer ends; what it has not removed stays behind.                *)
End(i, how, tells, leaves) ==
    /\ GoTo(i, "idle")
    /\ moved' = [moved EXCEPT ![i] = {}]
    /\ result' = [result EXCEPT ![i] = how]
    /\ told' = [told EXCEPT ![i] = tells]
    /\ orphans' = orphans \cup (leaves \ {Absent})
    /\ stage' = [stage EXCEPT ![i] = Absent]
    /\ backup' = [backup EXCEPT ![i] = Absent]

(* _copy_package_to_stage, which removes the stage when it fails.          *)
Package(j) ==
    IF j.kind = "uninstall" THEN Empty
    ELSE [p \in Paths |-> IF p \in Shipped[j.version] \cup {Manifest} THEN j.version ELSE None]

CopyToStage(i) ==
    /\ At(i, "planned")
    /\ GoTo(i, "staged")
    /\ stage' = [stage EXCEPT ![i] = Package(job[i])]
    /\ UNCHANGED <<dest, backup, orphans, decided, moved, disturbed, result, told,
                   mine, mishaps, counters, faults>>

(* An error while copying removes the stage; if that fails too, nobody     *)
(* says so.                                                                *)
CopyFails(i) ==
    /\ At(i, "planned")
    /\ Fault
    /\ \E part \in {Absent, Package(job[i])} : End(i, "failed", FALSE, {part})
    /\ UNCHANGED <<dest, decided, disturbed, mine, mishaps, counters>>

(* The destination, if there is one, becomes the backup.                   *)
SetAside(i) ==
    /\ At(i, "staged")
    /\ GoTo(i, "moving")
    /\ job' = [job EXCEPT ![i].had = dest # Absent]
    /\ IF dest # Absent
       THEN /\ backup' = [backup EXCEPT ![i] = dest]
            /\ dest' = Absent
            /\ Disturb(i)
       ELSE UNCHANGED <<backup, dest, disturbed>>
    /\ UNCHANGED <<stage, orphans, before, moved, result, told, mine, mishaps, counters, faults>>

(* The user's paths that are still to be moved into the stage.             *)
ToMove(i) == IF job[i].had THEN job[i].preserved \ moved[i] ELSE {}
CanMove(i, p) == backup[i][p] # None /\ Free(stage[i], p)

Rename(i, p) ==
    /\ At(i, "moving")
    /\ p \in ToMove(i)
    /\ CanMove(i, p)
    /\ stage' = [stage EXCEPT ![i][p] = backup[i][p]]
    /\ backup' = [backup EXCEPT ![i][p] = None]

(* _rename and moved.append.                                               *)
MoveIn(i, p) ==
    /\ Rename(i, p)
    /\ moved' = [moved EXCEPT ![i] = @ \cup {p}]
    /\ UNCHANGED <<dest, orphans, pc, decided, disturbed, result, told, mine, mishaps,
                   counters, faults>>

(* An interrupt falls between the two: the transaction is undone, and does *)
(* not know that the path has been moved.                                  *)
MoveInCut(i, p) ==
    /\ Rename(i, p)
    /\ Fault
    /\ GoTo(i, "undo")
    /\ mishap' = [mishap EXCEPT ![i].moved = @ \cup {p}]
    /\ unnoted' = unnoted \cup {p}
    /\ UNCHANGED <<dest, orphans, decided, moved, disturbed, result, told, mine, counters>>

(* The stage becomes the destination.                                      *)
Swap(i) ==
    /\ At(i, "moving")
    /\ ToMove(i) = {}
    /\ dest \in {Absent, Empty}
    /\ dest' = stage[i]
    /\ stage' = [stage EXCEPT ![i] = Absent]
    /\ Disturb(i)

(* _rename and committed = True.                                           *)
SwapIn(i) ==
    /\ Swap(i)
    /\ Commit(i)
    /\ GoTo(i, IF job[i].kind = "install" /\ job[i].env THEN "building" ELSE "cleanup")
    /\ UNCHANGED <<backup, orphans, before, moved, result, told, mine, mishaps, counters, faults>>

(* An interrupt falls between the two, or right after them.                *)
SwapInCut(i) ==
    /\ Swap(i)
    /\ Fault
    /\ \/ Commit(i) /\ UNCHANGED mishap
       \/ mishap' = [mishap EXCEPT ![i].swapped = TRUE] /\ UNCHANGED job
    /\ GoTo(i, "undo")
    /\ UNCHANGED <<backup, orphans, before, moved, result, told, mine, unnoted, counters>>

(* post_commit: _create_runtime_environment.                               *)
BuildEnvironment(i) ==
    /\ At(i, "building")
    /\ dest # Absent
    /\ dest' = [dest EXCEPT ![Venv] = job[i].version]
    /\ GoTo(i, "cleanup")
    /\ Disturb(i)
    /\ UNCHANGED <<stage, backup, orphans, decided, moved, result, told, mine, mishaps,
                   counters, faults>>

(* What makes the next operation of the transaction fail for certain: a    *)
(* preserved path collides with the package or is gone, the destination is *)
(* back, or gone when the environment is built.                            *)
Blocked(i) ==
    \/ At(i, "moving") /\ \E p \in ToMove(i) : ~CanMove(i, p)
    \/ At(i, "moving") /\ ToMove(i) = {} /\ dest # Absent
    \/ At(i, "building") /\ dest = Absent

(* Anything that is raised in the transaction.  Half an environment may    *)
(* have been built by then.                                                *)
Fails(i) ==
    /\ pc[i] \in {"staged", "moving", "building"}
    /\ Fault \/ (Blocked(i) /\ UNCHANGED faults)
    /\ GoTo(i, "undo")
    /\ job' = [job EXCEPT ![i].had = IF At(i, "staged") THEN dest # Absent ELSE @]
    /\ \/ UNCHANGED <<dest, disturbed>>
       \/ /\ At(i, "building") /\ dest # Absent
          /\ dest' = [dest EXCEPT ![Venv] = job[i].version]
          /\ Disturb(i)
    /\ UNCHANGED <<stage, backup, orphans, before, moved, result, told, mine, mishaps, counters>>

(* The old directory is deleted; a failure is a warning that names it.     *)
(* What an uninstallation leaves empty it will remove.                     *)
AfterBackup(i, left) ==
    IF job[i].kind = "uninstall" /\ dest = Empty
    THEN /\ GoTo(i, "removing")
         /\ backup' = [backup EXCEPT ![i] = left]
         /\ moved' = [moved EXCEPT ![i] = {}]
         /\ UNCHANGED <<stage, orphans, result, told>>
    ELSE End(i, "ok", left # Absent, {left})

RemoveBackup(i) ==
    /\ At(i, "cleanup")
    /\ AfterBackup(i, Absent)
    /\ UNCHANGED <<dest, decided, disturbed, mine, mishaps, counters, faults>>

RemoveBackupFails(i) ==
    /\ At(i, "cleanup")
    /\ backup[i] # Absent
    /\ Fault
    /\ \E rest \in SUBSET Present(backup[i]) :
          AfterBackup(i, [p \in Paths |-> IF p \in rest THEN backup[i][p] ELSE None])
    /\ UNCHANGED <<dest, decided, disturbed, mine, mishaps, counters>>

(* target.rmdir(), which stands outside the transaction.                   *)
RemoveDirectory(i) ==
    /\ At(i, "removing")
    /\ dest = Empty
    /\ dest' = Absent
    /\ Disturb(i)
    /\ End(i, "ok", backup[i] # Absent, {backup[i]})
    /\ UNCHANGED <<decided, mine, mishaps, counters, faults>>

(* It fails, for certain when someone has written into the directory since *)
(* it was looked at: the run fails, and its warnings are lost.             *)
RemoveDirectoryFails(i) ==
    /\ At(i, "removing")
    /\ Fault \/ (dest # Empty /\ UNCHANGED faults)
    /\ mishap' = [mishap EXCEPT ![i].rmdir = TRUE]
    /\ End(i, "failed", FALSE, {backup[i]})
    /\ UNCHANGED <<dest, decided, disturbed, mine, unnoted, counters>>

-----------------------------------------------------------------------------
(* Undoing it.                                                             *)

(* A package that is known to be swapped in is taken out again.            *)
TakeOut(i) ==
    /\ At(i, "undo")
    /\ IF job[i].committed /\ dest # Absent
       THEN /\ stage' = [stage EXCEPT ![i] = dest]
            /\ dest' = Absent
            /\ Disturb(i)
       ELSE UNCHANGED <<stage, dest, disturbed>>
    /\ GoTo(i, "restoring")
    /\ UNCHANGED <<backup, orphans, decided, moved, result, told, mine, mishaps, counters, faults>>

Restorable(i) == job[i].had /\ backup[i] # Absent

MoveBack(i, p) ==
    /\ At(i, "restoring")
    /\ Restorable(i)
    /\ p \in moved[i]
    /\ moved' = [moved EXCEPT ![i] = @ \ {p}]
    /\ IF stage[i] # Absent /\ stage[i][p] # None
       THEN /\ backup' = [backup EXCEPT ![i][p] = stage[i][p]]
            /\ stage' = [stage EXCEPT ![i][p] = None]
       ELSE UNCHANGED <<backup, stage>>
    /\ UNCHANGED <<dest, orphans, pc, decided, disturbed, result, told, mine, mishaps,
                   counters, faults>>

(* Faulty variant of PutBack: the user's files are not moved back first.   *)
PutBackAtOnce(i) ==
    /\ At(i, "restoring")
    /\ IF Restorable(i) /\ dest = Absent
       THEN /\ dest' = backup[i]
            /\ backup' = [backup EXCEPT ![i] = Absent]
            /\ Disturb(i)
       ELSE UNCHANGED <<dest, backup, disturbed>>
    /\ GoTo(i, "discarding")
    /\ UNCHANGED <<stage, orphans, decided, moved, result, told, mine, mishaps, counters, faults>>

PutBack(i) ==
    /\ At(i, "restoring")
    /\ Restorable(i) => moved[i] = {}
    /\ IF Restorable(i) /\ dest = Absent
       THEN /\ dest' = backup[i]
            /\ backup' = [backup EXCEPT ![i] = Absent]
            /\ Disturb(i)
       ELSE UNCHANGED <<dest, backup, disturbed>>
    /\ GoTo(i, "discarding")
    /\ UNCHANGED <<stage, orphans, decided, moved, result, told, mine, mishaps, counters, faults>>

(* Faulty variant of UndoFails: what is left is not named.                 *)
UndoFailsSilently(i) ==
    /\ At(i, "undo") \/ At(i, "restoring")
    /\ Fault
    /\ End(i, "failed", FALSE, {stage[i], backup[i]})
    /\ UNCHANGED <<dest, decided, disturbed, mine, mishaps, counters>>

(* A rename of the rollback fails: stage and backup stay, and are named.   *)
UndoFails(i) ==
    /\ At(i, "undo") \/ At(i, "restoring")
    /\ Fault
    /\ End(i, "failed", TRUE, {stage[i], backup[i]})
    /\ UNCHANGED <<dest, decided, disturbed, mine, mishaps, counters>>

(* The stage is deleted; what cannot be is named.  A backup that was not   *)
(* put back, because something is at the destination, is not.              *)
Discard(i) ==
    /\ At(i, "discarding")
    /\ End(i, "failed", FALSE, {backup[i]})
    /\ UNCHANGED <<dest, decided, disturbed, mine, mishaps, counters, faults>>

DiscardFails(i) ==
    /\ At(i, "discarding")
    /\ stage[i] # Absent
    /\ Fault
    /\ \E rest \in SUBSET Present(stage[i]) :
          End(i, "failed", TRUE,
              {[p \in Paths |-> IF p \in rest THEN stage[i][p] ELSE None], backup[i]})
    /\ UNCHANGED <<dest, decided, disturbed, mine, mishaps, counters>>

(* The process is killed, or interrupted where nothing catches it.         *)
Die(i) ==
    /\ pc[i] # "idle"
    /\ Fault
    /\ End(i, "dead", FALSE, {stage[i], backup[i]})
    /\ UNCHANGED <<dest, decided, disturbed, mine, mishaps, counters>>

-----------------------------------------------------------------------------
Step(i) ==
    \/ \E v \in Versions, env, force \in BOOLEAN : Install(i, v, env, force)
    \/ \E keep, force, purge \in BOOLEAN : Uninstall(i, keep, force, purge)
    \/ CopyToStage(i) \/ CopyFails(i)
    \/ SetAside(i) \/ (\E p \in Paths : MoveIn(i, p) \/ MoveInCut(i, p))
    \/ SwapIn(i) \/ SwapInCut(i) \/ BuildEnvironment(i)
    \/ Fails(i)
    \/ RemoveBackup(i) \/ RemoveBackupFails(i) \/ RemoveDirectory(i) \/ RemoveDirectoryFails(i)
    \/ TakeOut(i) \/ (\E p \in Paths : MoveBack(i, p)) \/ PutBack(i) \/ UndoFails(i)
    \/ Discard(i) \/ DiscardFails(i)
    \/ Die(i)

Next ==
    \/ \E i \in Installers : Step(i)
    \/ \E p \in PkgPaths \cup UserPaths \cup {Manifest} : UserWrites(p) \/ UserRemoves(p)

Spec == Init /\ [][Next]_vars

-----------------------------------------------------------------------------
(* Properties.                                                             *)

TypeOK ==
    /\ dest \in Trees \cup {Absent}
    /\ stage \in [Installers -> Trees \cup {Absent}]
    /\ backup \in [Installers -> Trees \cup {Absent}]
    /\ orphans \subseteq Trees
    /\ pc \in [Installers -> Steps]
    /\ job \in [Installers -> Jobs \cup {NoJob}]
    /\ moved \in [Installers -> SUBSET Paths]
    /\ before \in [Installers -> Trees \cup {Absent}]
    /\ disturbed \in [Installers -> BOOLEAN]
    /\ result \in [Installers -> Results]
    /\ told \in [Installers -> BOOLEAN]
    /\ mine \in [Paths -> {None} \cup UserContent]
    /\ mishap \in [Installers -> Mishaps]
    /\ unnoted \subseteq Paths
    /\ {jobs, writes, faults} \subseteq Nat

(* All directories there are.                                              *)
Places == ({dest} \cup {stage[i] : i \in Installers} \cup {backup[i] : i \in Installers}
           \cup orphans) \ {Absent}

(* A file that the user wrote while no installer was at work, and has not  *)
(* given up by --force, --purge or by removing it, is somewhere on disk:   *)
(* no order of failures, deaths and later runs deletes it.  The one        *)
(* exception are files that were being moved into a stage when an          *)
(* interrupt came before the note of it: the rollback deletes the stage.   *)
NothingLost ==
    \A p \in Paths \ unnoted : mine[p] = "early" => \E t \in Places : t[p] = "early"

(* What a run makes of a directory: the package, with its environment if   *)
(* it is built, and whatever was there under paths that belong to neither  *)
(* package nor installer; and what the rollback makes of it when it does   *)
(* not know of some paths.                                                 *)
After(t, j, built) ==
    LET new == Package(j)
        kept(p) == IF built /\ p = Venv THEN j.version
                   ELSE IF \/ t = Absent \/ j.purge \/ p \in Managed(t) \cup {Manifest}
                           \/ new[p] # None \/ (p = Venv /\ j.env)
                        THEN new[p] ELSE t[p]
    IN  [p \in Paths |-> kept(p)]

Outcome(t, j) ==
    LET after == After(t, j, j.kind = "install" /\ j.env)
    IN  IF j.kind = "uninstall" /\ after = Empty THEN Absent ELSE after

Without(t, away) ==
    IF t = Absent THEN Absent ELSE [p \in Paths |-> IF p \in away THEN None ELSE t[p]]

(* All or nothing: a run that ends leaves the package installed, or fails  *)
(* and leaves the directory as it found it, unless the rollback itself     *)
(* failed (and said so), someone else was at work on the directory, or it  *)
(* was killed.  Three failures leave something else, and exactly this: an  *)
(* interrupt before the swap was noted leaves the new package without its  *)
(* environment; an interrupt before a move was noted, the old directory    *)
(* without that path; and an emptied directory that cannot be removed      *)
(* makes a finished uninstallation a failure.                              *)
AllOrNothing ==
    \A i \in Installers : ~disturbed[i] /\ pc[i] = "idle" =>
        /\ result[i] = "ok" => dest = Outcome(before[i], job[i])
        /\ result[i] = "failed" /\ ~told[i] =>
             IF mishap[i].rmdir THEN dest = Empty /\ Outcome(before[i], job[i]) = Absent
             ELSE IF mishap[i].swapped THEN dest = After(before[i], job[i], FALSE)
             ELSE dest = Without(before[i], mishap[i].moved)

(* A directory with a file of the user in it that a run leaves beside the  *)
(* destination is named in its last message, unless the process is killed, *)
(* or the rollback leaves the backup because something is at the           *)
(* destination (a package whose swap was not noted, what someone has       *)
(* written there), or the directory that an uninstallation has emptied     *)
(* cannot be removed, which loses the warning.                             *)
Excused(m) == m.swapped \/ m.recreated \/ m.rmdir
LeftoversAreTold ==
    [][\A i \in Installers :
         /\ pc[i] # "idle" /\ pc'[i] = "idle" /\ ~told'[i] /\ result'[i] # "dead"
         /\ ~Excused(mishap'[i])
         => \A t \in orphans' \ orphans : \A p \in Paths : t[p] \notin UserContent]_vars
=============================================================================
