----------------------------- MODULE RestoreTxn -----------------------------
(***************************************************************************)
(* save-engine's native-folder restore transaction and its recovery        *)
(* (crates/save-engine/src/lib.rs, restore_snapshot_to_folder and          *)
(* recover_interrupted_restore), run by several processes over the four    *)
(* directory entries of one save target, with process kills at every step  *)
(* and power losses that forget directory changes not yet fsynced: the     *)
(* latest ones where the file system keeps their order (a metadata         *)
(* journal), any of them where it does not.  Unix: on Windows sync_dir     *)
(* does nothing.                                                           *)
(*                                                                         *)
(* An I/O error that makes a call return early leaves the entries as a     *)
(* kill at that step does, so Crash stands for both.  The journal's        *)
(* temporary file is left out: it is only ever removed or renamed, and     *)
(* never read.                                                             *)
(***************************************************************************)
EXTENDS FiniteSets, Naturals

CONSTANTS
    Proc,        \* processes that restore or recover this target
    Rev,         \* contents a save tree can have (its fingerprint)
    NoRev,       \* the content of a tree that is absent or torn
    NoProc,      \* the holder of a free lock
    GatedLaunch, \* TRUE: no client launches the game during any client's call
    Orders,      \* the file systems: TRUE for one that keeps changes in order
    WrittenBack, \* TRUE: where changes are reordered, those of a killed call
                 \* are on disk before the next call starts
    MaxUnsynced  \* bound: directory states a crashed call may leave to come back
                 \* when the next call starts; the kernel has written back more

ASSUME RestoreAssumption ==
    /\ NoRev \notin Rev
    /\ NoProc \notin Proc
    /\ GatedLaunch \in BOOLEAN
    /\ Orders \subseteq BOOLEAN
    /\ WrittenBack \in BOOLEAN
    /\ MaxUnsynced \in Nat

VARIABLES
    dir,     \* the parent directory as the running system sees it
    lost,    \* other states of it that a power loss can leave
    ordered, \* whether the file system keeps directory changes in order
    holder,  \* the process that holds the restore lock
    pc,      \* what each process does next
    want,    \* the content each restore installs; NoRev for a bare recovery
    outcome, \* how the last call ended, until another one starts work
    game     \* the emulator

vars == <<dir, lost, ordered, holder, pc, want, outcome, game>>

(***************************************************************************)
(* Trees, journals and directories                                         *)
(***************************************************************************)
\* "soft": complete in the page cache, not yet on disk; "torn": partly
\* written or partly removed.
Tree == [kind : {"absent", "torn", "soft", "whole"}, rev : Rev \cup {NoRev}]
Absent == [kind |-> "absent", rev |-> NoRev]
Torn == [kind |-> "torn", rev |-> NoRev]
Soft(r) == [kind |-> "soft", rev |-> r]
Whole(r) == [kind |-> "whole", rev |-> r]
Exists(t) == t.kind # "absent"

Phase == {"none", "stage-complete", "target-backed-up", "stage-installed"}
Journal == [phase : Phase, existed : BOOLEAN, expected : Rev \cup {NoRev}]
NoJournal == [phase |-> "none", existed |-> FALSE, expected |-> NoRev]

Directory == [target : Tree, backup : Tree, stage : Tree, journal : Journal]

\* A tree after a power loss: bytes that were never fsynced may be gone.
AfterLoss(t) == IF t.kind = "soft" THEN Torn ELSE t
Survivor(d) == [d EXCEPT !.target = AfterLoss(@), !.backup = AfterLoss(@),
                         !.stage = AfterLoss(@)]

\* What remove_dir_all leaves of a tree at some moment of its work.
Removal(t) == IF Exists(t) THEN {Torn, Absent} ELSE {Absent}

(***************************************************************************)
(* What recovery decides to do with the directory it finds                 *)
(***************************************************************************)
Installed(d) == /\ Exists(d.target)
                /\ ~Exists(d.stage)
                /\ d.target.rev = d.journal.expected

\* Mutant: a backup is put back although the target was never set aside.
StageCompletePlanPrefersBackup(d) ==
    IF Exists(d.backup) THEN "putBack"
    ELSE IF d.journal.existed = Exists(d.target) THEN "sweepStage" ELSE "noOriginal"

StageCompletePlan(d) ==
    IF d.journal.existed
    THEN IF Exists(d.target) THEN "sweepStage"
         ELSE IF Exists(d.backup) THEN "putBack" ELSE "noOriginal"
    ELSE IF Exists(d.target) THEN "unexpectedTarget" ELSE "sweepStage"

RollbackPlan(d) ==
    IF d.journal.existed
    THEN IF Exists(d.backup) THEN "rollback" ELSE "noBackup"
    ELSE IF Exists(d.target) THEN "discard" ELSE "sweepStage"

Plan(d) ==
    IF d.journal.phase = "none" THEN "sweepStage"
    ELSE IF d.journal.phase = "stage-complete" THEN StageCompletePlan(d)
    ELSE IF Installed(d) THEN "sweepStage"
    ELSE RollbackPlan(d)

RecoveryErrors == {"noOriginal", "unexpectedTarget", "noBackup"}

\* The tree that recovery makes of d: the folder's logical content.
Save(d) == CASE Plan(d) \in {"putBack", "rollback"} -> d.backup
             [] Plan(d) = "discard" -> Absent
             [] OTHER -> d.target

(***************************************************************************)
(* State                                                                   *)
(***************************************************************************)
Pc == {"idle", "waiting", "recover", "rollback", "discard", "putBack",
       "syncRollback", "sweepStage", "sweepJournal", "syncSweep", "recovered",
       "fill", "syncTree", "journalStage", "syncStage", "clearBackup",
       "setAside", "syncAside", "journalAside", "syncJournal", "install",
       "syncInstall", "journalInstall", "syncInstalled", "dropJournal",
       "syncDrop"}

Outcome == {"none", "restored", "recovered", "refused"} \cup RecoveryErrors

TypeOK ==
    /\ dir \in Directory
    /\ lost \subseteq Directory
    /\ ordered \in Orders
    /\ holder \in Proc \cup {NoProc}
    /\ pc \in [Proc -> Pc]
    /\ want \in [Proc -> Rev \cup {NoRev}]
    /\ outcome \in Outcome
    /\ game \in {"stopped", "running"}

\* A target that may or may not exist yet, perhaps with the backup an earlier
\* restore left beside it.
Init ==
    /\ dir \in [target : {Absent} \cup {Whole(r) : r \in Rev},
                backup : {Absent} \cup {Whole(r) : r \in Rev},
                stage : {Absent}, journal : {NoJournal}]
    /\ lost = {}
    /\ ordered \in Orders
    /\ holder = NoProc
    /\ pc = [p \in Proc |-> "idle"]
    /\ want = [p \in Proc |-> NoRev]
    /\ outcome = "none"
    /\ game = "stopped"

(***************************************************************************)
(* Steps a process takes                                                   *)
(***************************************************************************)
Goto(p, at, next) == pc[p] = at /\ pc' = [pc EXCEPT ![p] = next]

\* The change of the directory to d, on disk without an earlier one: e is a
\* state that lacks the earlier one.
Overtaking(d, e) ==
    [target |-> IF d.target # dir.target THEN d.target ELSE e.target,
     backup |-> IF d.backup # dir.backup THEN d.backup ELSE e.backup,
     stage |-> IF d.stage # dir.stage THEN d.stage ELSE e.stage,
     journal |-> IF d.journal # dir.journal THEN d.journal ELSE e.journal]

\* The directory changes in the page cache.  A power loss may forget the change
\* and, where the order is not kept, forget earlier ones and not this one.
Becomes(d) ==
    /\ dir' = d
    /\ lost' = IF d = dir THEN lost
               ELSE lost \cup {dir} \cup
                    {Overtaking(d, e) : e \in IF ordered THEN {} ELSE lost}
    /\ UNCHANGED ordered

\* Files change inside the stage; the directory's own entries do not.  A stage
\* that a lost state names stays as it was there: recovery only removes it.
Writes(d) == dir' = d /\ UNCHANGED <<lost, ordered>>

\* sync_dir(parent): nothing before this can come back.
Sync(p, at, next) ==
    /\ Goto(p, at, next)
    /\ lost' = {}
    /\ UNCHANGED <<dir, ordered, holder, want, outcome, game>>

\* The call ends with result r, and its lock guard is dropped.
Return(p, r) ==
    /\ pc' = [pc EXCEPT ![p] = "idle"]
    /\ want' = [want EXCEPT ![p] = NoRev]
    /\ holder' = NoProc
    /\ outcome' = r

CallRestore(p, r) ==
    /\ game = "stopped"
    /\ Goto(p, "idle", "waiting")
    /\ want' = [want EXCEPT ![p] = r]
    /\ UNCHANGED <<dir, lost, ordered, holder, outcome, game>>

CallRecover(p) ==
    /\ Goto(p, "idle", "waiting")
    /\ UNCHANGED <<dir, lost, ordered, holder, want, outcome, game>>

AcquireLock(p) ==
    /\ holder = NoProc
    /\ Cardinality(lost) <= MaxUnsynced
    /\ WrittenBack => ordered \/ lost = {}
    /\ Goto(p, "waiting", "recover")
    /\ holder' = p
    /\ outcome' = "none"
    /\ UNCHANGED <<dir, lost, ordered, want, game>>

\* Mutant: an error of recovery does not end the call.
DecideIgnoresErrors(p) ==
    /\ Goto(p, "recover", Plan(dir))
    /\ UNCHANGED <<dir, lost, ordered, holder, want, outcome, game>>

\* recover_interrupted_restore_locked reads the journal and takes a branch.
Decide(p) ==
    /\ pc[p] = "recover"
    /\ IF Plan(dir) \in RecoveryErrors
       THEN Return(p, Plan(dir))
       ELSE /\ pc' = [pc EXCEPT ![p] = Plan(dir)]
            /\ UNCHANGED <<want, holder, outcome>>
    /\ UNCHANGED <<dir, lost, ordered, game>>

\* remove_dir_all(target): before the backup is put back, or for good when
\* there was no target.
ClearTarget(p) ==
    \E t \in Removal(dir.target) :
        /\ pc[p] \in {"rollback", "discard"}
        /\ pc' = [pc EXCEPT ![p] = IF t # Absent THEN @
                                  ELSE IF @ = "rollback" THEN "putBack"
                                  ELSE "syncRollback"]
        /\ Becomes([dir EXCEPT !.target = t])
        /\ UNCHANGED <<holder, want, outcome, game>>

\* rename(backup, target)
PutBack(p) ==
    /\ Goto(p, "putBack", "syncRollback")
    /\ Becomes([dir EXCEPT !.target = dir.backup, !.backup = Absent])
    /\ UNCHANGED <<holder, want, outcome, game>>

SweepStage(p) ==
    \E t \in Removal(dir.stage) :
        /\ Goto(p, "sweepStage", IF t # Absent THEN "sweepStage"
                                 ELSE IF dir.journal.phase = "none"
                                 THEN "recovered" ELSE "sweepJournal")
        /\ Becomes([dir EXCEPT !.stage = t])
        /\ UNCHANGED <<holder, want, outcome, game>>

SweepJournal(p) ==
    /\ Goto(p, "sweepJournal", "syncSweep")
    /\ Becomes([dir EXCEPT !.journal = NoJournal])
    /\ UNCHANGED <<holder, want, outcome, game>>

\* A call of recover_interrupted_restore ends here.
ReturnRecovered(p) ==
    /\ pc[p] = "recovered"
    /\ want[p] = NoRev
    /\ Return(p, "recovered")
    /\ UNCHANGED <<dir, lost, ordered, game>>

\* The snapshot does not decrypt or its manifest is not valid.
RefuseSnapshot(p) ==
    /\ pc[p] = "recovered"
    /\ want[p] # NoRev
    /\ Return(p, "refused")
    /\ UNCHANGED <<dir, lost, ordered, game>>

\* Mutant: the old backup makes room as soon as the stage is created.
CreateStageInPlaceOfBackup(p) ==
    /\ want[p] # NoRev
    /\ Goto(p, "recovered", "fill")
    /\ Becomes([dir EXCEPT !.stage = Torn, !.backup = Absent])
    /\ UNCHANGED <<holder, want, outcome, game>>

CreateStage(p) ==
    /\ want[p] # NoRev
    /\ Goto(p, "recovered", "fill")
    /\ Becomes([dir EXCEPT !.stage = Torn])
    /\ UNCHANGED <<holder, want, outcome, game>>

\* Every file is written and its size and hash compared with the manifest.
FillStage(p) ==
    /\ Goto(p, "fill", "syncTree")
    /\ Writes([dir EXCEPT !.stage = Soft(want[p])])
    /\ UNCHANGED <<holder, want, outcome, game>>

\* A chunk is missing or an integrity check fails: the stage is removed.
AbandonStage(p) ==
    /\ pc[p] = "fill"
    /\ Return(p, "refused")
    /\ Becomes([dir EXCEPT !.stage = Absent])
    /\ UNCHANGED game

\* Mutant: the stage is not fsynced.
SkipSyncTree(p) ==
    /\ Goto(p, "syncTree", "journalStage")
    /\ UNCHANGED <<dir, lost, ordered, holder, want, outcome, game>>

\* sync_tree(stage): its bytes are on disk, its name need not be.
SyncTree(p) ==
    /\ Goto(p, "syncTree", "journalStage")
    /\ Writes([dir EXCEPT !.stage = Whole(want[p])])
    /\ UNCHANGED <<holder, want, outcome, game>>

\* write_restore_journal: the new journal is renamed over the old one.
WriteJournal(p, at, next, phase) ==
    /\ Goto(p, at, next)
    /\ Becomes([dir EXCEPT !.journal.phase = phase])
    /\ UNCHANGED <<holder, want, outcome, game>>

\* Mutant: the journal always says that there was a target.
JournalStageExisting(p) ==
    /\ Goto(p, "journalStage", "syncStage")
    /\ Becomes([dir EXCEPT !.journal = [phase |-> "stage-complete", existed |-> TRUE,
                                        expected |-> dir.stage.rev]])
    /\ UNCHANGED <<holder, want, outcome, game>>

JournalStage(p) ==
    /\ Goto(p, "journalStage", "syncStage")
    /\ Becomes([dir EXCEPT !.journal = [phase |-> "stage-complete",
                                        existed |-> Exists(dir.target),
                                        expected |-> dir.stage.rev]])
    /\ UNCHANGED <<holder, want, outcome, game>>

ClearBackup(p) ==
    \E t \in Removal(dir.backup) :
        /\ Goto(p, "clearBackup", IF t = Absent THEN "setAside" ELSE "clearBackup")
        /\ Becomes([dir EXCEPT !.backup = t])
        /\ UNCHANGED <<holder, want, outcome, game>>

\* rename(target, backup), when there is a target.
SetAside(p) ==
    /\ Goto(p, "setAside", IF Exists(dir.target) THEN "syncAside" ELSE "journalAside")
    /\ Becomes([dir EXCEPT !.target = Absent, !.backup = dir.target])
    /\ UNCHANGED <<holder, want, outcome, game>>

\* rename(stage, target)
Install(p) ==
    /\ Goto(p, "install", "syncInstall")
    /\ Becomes([dir EXCEPT !.target = dir.stage, !.stage = Absent])
    /\ UNCHANGED <<holder, want, outcome, game>>

DropJournal(p) ==
    /\ Goto(p, "dropJournal", "syncDrop")
    /\ Becomes([dir EXCEPT !.journal = NoJournal])
    /\ UNCHANGED <<holder, want, outcome, game>>

\* Mutant: the last sync_dir is left out.
ReturnUnsynced(p) ==
    /\ pc[p] = "syncDrop"
    /\ Return(p, "restored")
    /\ UNCHANGED <<dir, lost, ordered, game>>

\* The last sync_dir, and the call returns the backup's path.
ReturnRestored(p) ==
    /\ pc[p] = "syncDrop"
    /\ Return(p, "restored")
    /\ lost' = {}
    /\ UNCHANGED <<dir, ordered, game>>

RecoveryStep(p) ==
    \/ Decide(p)
    \/ ClearTarget(p)
    \/ PutBack(p)
    \/ Sync(p, "syncRollback", "sweepStage")
    \/ SweepStage(p)
    \/ SweepJournal(p)
    \/ Sync(p, "syncSweep", "recovered")
    \/ ReturnRecovered(p)

InstallStep(p) ==
    \/ RefuseSnapshot(p)
    \/ CreateStage(p)
    \/ FillStage(p)
    \/ AbandonStage(p)
    \/ SyncTree(p)
    \/ JournalStage(p)
    \/ Sync(p, "syncStage", "clearBackup")
    \/ ClearBackup(p)
    \/ SetAside(p)
    \/ Sync(p, "syncAside", "journalAside")
    \/ WriteJournal(p, "journalAside", "syncJournal", "target-backed-up")
    \/ Sync(p, "syncJournal", "install")
    \/ Install(p)
    \/ Sync(p, "syncInstall", "journalInstall")
    \/ WriteJournal(p, "journalInstall", "syncInstalled", "stage-installed")
    \/ Sync(p, "syncInstalled", "dropJournal")
    \/ DropJournal(p)
    \/ ReturnRestored(p)

Step(p) == RecoveryStep(p) \/ InstallStep(p)

(***************************************************************************)
(* Failures and the emulator                                               *)
(***************************************************************************)
\* The process is killed, or an I/O error ends its call: the kernel (or the
\* guard) drops its lock and nothing is cleaned up.
Crash(p) ==
    /\ pc[p] # "idle"
    /\ pc' = [pc EXCEPT ![p] = "idle"]
    /\ want' = [want EXCEPT ![p] = NoRev]
    /\ holder' = IF holder = p THEN NoProc ELSE holder
    /\ UNCHANGED <<dir, lost, ordered, outcome, game>>

PowerLoss ==
    /\ \E d \in lost \cup {dir} : dir' = Survivor(d)
    /\ lost' = {}
    /\ holder' = NoProc
    /\ pc' = [p \in Proc |-> "idle"]
    /\ want' = [p \in Proc |-> NoRev]
    /\ outcome' = "none"
    /\ game' = "stopped"
    /\ UNCHANGED ordered

\* Between calls the kernel writes the directory back on its own.
Writeback ==
    /\ holder = NoProc
    /\ lost' = {}
    /\ UNCHANGED <<dir, ordered, holder, pc, want, outcome, game>>

\* Clients recover every target before they allow a launch, so no journal is
\* left; the directory is taken to have been written back by then.
Launch ==
    /\ game = "stopped"
    /\ holder = NoProc
    /\ GatedLaunch => \A p \in Proc : pc[p] = "idle"
    /\ dir.journal.phase = "none"
    /\ lost = {}
    /\ game' = "running"
    /\ UNCHANGED <<dir, lost, ordered, holder, pc, want, outcome>>

\* The game saves.  Its own writes are taken to be whole.
Play(r) ==
    /\ game = "running"
    /\ dir' = [dir EXCEPT !.target = Whole(r)]
    /\ lost' = {[d EXCEPT !.target = Whole(r)] : d \in lost}
    /\ UNCHANGED <<ordered, holder, pc, want, outcome, game>>

Exit ==
    /\ game = "running"
    /\ game' = "stopped"
    /\ UNCHANGED <<dir, lost, ordered, holder, pc, want, outcome>>

Next ==
    \/ \E p \in Proc :
        \/ \E r \in Rev : CallRestore(p, r)
        \/ CallRecover(p)
        \/ AcquireLock(p)
        \/ Step(p)
        \/ Crash(p)
    \/ PowerLoss
    \/ Writeback
    \/ Launch
    \/ \E r \in Rev : Play(r)
    \/ Exit

Spec == Init /\ [][Next]_vars

(***************************************************************************)
(* Properties                                                              *)
(***************************************************************************)
Survivors == {Survivor(d) : d \in lost \cup {dir}}

\* What a power loss would undo: a logical content some lost state still has.
Undone == {Save(Survivor(d)) : d \in lost} \ {Save(dir)}

Prev == IF Undone = {} THEN Save(dir) ELSE CHOOSE t \in Undone : TRUE

\* What the calls that are under way restore.
Asked == {Whole(want[p]) : p \in {q \in Proc : want[q] # NoRev}}

\* A target that a game may find: a whole tree or none.
Settled == {Absent} \cup {Whole(r) : r \in Rev}

Promise == INSTANCE AtomicReplace WITH
    Content <- Settled, save <- Save(dir), prev <- Prev,
    asked <- Asked, playing <- game = "running"

\* The restore transaction, with its kills, power losses and recoveries,
\* implements an atomic replacement of the folder's logical content: for a
\* power loss that forgets the latest directory changes, and for one that
\* reorders those of one call (WrittenBack).  Recovery unlinks the journal
\* without a sync_dir before it, so it does not hold when a power loss keeps
\* that and forgets the rename of a call that was killed before.
ImplementsAtomicReplace == Promise!Spec

\* A game never starts on a half-written, half-removed or missing-by-accident
\* tree: what it reads is exactly what recovery would have settled on.
GameReadsSettledTree ==
    game = "running" => /\ dir.target = Save(dir)
                        /\ dir.target.kind \in {"absent", "whole"}

\* Recovery never finds the original in neither place, nor a target that
\* should not be there (recover_stage_complete's two errors).
StageCompleteAlwaysRecovers == outcome \notin {"noOriginal", "unexpectedTarget"}

\* When restore_snapshot_to_folder returns Ok, no power loss can take the
\* restored tree back, nor make a later recovery roll it back.  (Not on Windows,
\* where sync_dir does nothing.)
RestoredIsDurable ==
    [][\A p \in Proc :
        (pc[p] = "syncDrop" /\ pc'[p] = "idle" /\ outcome' = "restored" /\ holder = p)
        => \A d \in Survivors' : Save(d) = Whole(want[p]) /\ d.journal = NoJournal]_vars

\* The tree a restore replaced stays beside the target as its backup, until
\* the next restore of that target has staged its own tree.
BackupKeptUntilNextStage ==
    [][dir.backup.kind = "whole" /\ dir'.backup # dir.backup /\ dir'.target # dir.backup
       => dir.journal.phase = "stage-complete" /\ Exists(dir.stage)]_vars

\* "retrying a restore remains safe and idempotent": a recovery that is itself
\* interrupted can be run again, and does not end in rollback_interrupted_restore's
\* "restore rollback requires the original backup".
RecoveryIsRetryable == outcome # "noBackup"
=============================================================================
