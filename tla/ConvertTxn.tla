----------------------------- MODULE ConvertTxn -----------------------------
(***************************************************************************)
(* mh3g-save-convert's installation of one converted save file beside its  *)
(* emulator, and the roll-back of that installation.  There are two such   *)
(* transactions, of the same shape: the save slot's                        *)
(* (crates/mh3g-save-convert/src/transaction.rs, install_with_backend and  *)
(* rollback_with; also the shared "system" file) and the StreetPass        *)
(* cache's (cec.rs, install_cec_transaction and rollback_cec_with).  No    *)
(* two managed files share a directory entry, so one file is modelled, and *)
(* Init says which of the two kinds it is.                                 *)
(*                                                                         *)
(* Several processes install and roll back; each may be killed at any step *)
(* (its lock file then stays), and each step may fail.  A hash stands for  *)
(* the bytes, and a file under a temporary name, which nobody reads, for   *)
(* nothing.                                                                *)
(*                                                                         *)
(* Two things that a slot's calls do not guard against may cost a save: a  *)
(* roll-back takes no lock, and an undoing removes the backup although the *)
(* target could not be put back.  Both are among the steps; excused notes  *)
(* that they have happened, for the properties to say what holds           *)
(* otherwise.  Nothing is excused of a cache.                              *)
(***************************************************************************)
EXTENDS FiniteSets, Naturals

CONSTANTS
    Proc,           \* processes of the converter
    Played,         \* saves that the game writes
    Converted,      \* saves that the converter produces
    Absent,         \* what is read of a file that does not exist
    Free,           \* the lock file does not exist
    Stale,          \* it exists, and the process that created it is gone
    Kind,           \* which of the kinds "slot" and "cec" are looked at
    MaxHistory      \* bound: archived manifests

ASSUME ConvertAssumption ==
    /\ Absent \notin Played \cup Converted
    /\ Played \cap Converted = {} \* what the converter wrote, it can write again
    /\ {Free, Stale} \cap Proc = {}
    /\ Kind \subseteq {"slot", "cec"}
    /\ MaxHistory \in Nat

VARIABLES
    kind,  \* the managed file's kind; it never changes
    dir,   \* the directory entries that belong to it
    lock,  \* its lock file: who created it
    task,  \* the call each process makes
    game,  \* whether the emulator runs
    owed,  \* played saves that nobody but the game itself may destroy
    excused \* what a slot's calls have met that they do not guard against

vars == <<kind, dir, lock, task, game, owed, excused>>

(***************************************************************************)
(* The directory and the calls                                             *)
(***************************************************************************)
Save == Played \cup Converted
File == Save \cup {Absent}

\* A manifest names what was installed over what.  One written directly to
\* its own name (cec.rs) is torn if its writer is killed.
Manifest == [state : {"whole"}, installed : Converted, previous : File]
NoManifest == [state |-> "none", installed |-> Absent, previous |-> Absent]
TornManifest == [NoManifest EXCEPT !.state = "torn"]
\* Mutant: the two saves change places in the manifest.
RecordedSwapped(x, s) == [state |-> "whole", installed |-> s, previous |-> x]
Recorded(x, s) == [state |-> "whole", installed |-> x, previous |-> s]

Directory == [target : File,
              backup : [Save -> {"none", "torn", "whole"}], \* by content hash
              manifest : Manifest \cup {NoManifest, TornManifest},
              history : SUBSET Manifest,      \* archived manifests (slot)
              tornHistory : SUBSET Manifest]

InstallPc == {"locked", "read", "archive", "backup", "stage", "publish", "sync"}
UndoPc == {"undoManifest", "undoTarget", "undoBackup", "undoHistory",
           "recover", "failed"}
RollbackPc == {"rollback", "inspect", "putBack", "dropBackup", "dropManifest"}
Pc == {"idle", "planned"} \cup InstallPc \cup UndoPc \cup RollbackPc

\* What an installation has done and must undo if it fails.
Deed == {"history", "backup", "target", "manifest"}

Empty == [target |-> Absent, backup |-> [s \in Save |-> "none"],
          manifest |-> NoManifest, history |-> {}, tornHistory |-> {}]

Task == [pc : Pc,
         want : File,       \* the bytes to install
         seen : File,       \* the target when the dry run looked
         old : Manifest \cup {NoManifest}, \* the manifest the call has read
         previous : File,   \* the target the call has read
         made : SUBSET Deed,
         before : Directory, \* the directory when the call read it (history)
         botched : BOOLEAN]  \* whether an undo step failed

Idle == [pc |-> "idle", want |-> Absent, seen |-> Absent, old |-> NoManifest,
         previous |-> Absent, made |-> {}, before |-> Empty, botched |-> FALSE]

TypeOK ==
    /\ kind \in {"slot", "cec"}
    /\ dir \in Directory
    /\ lock \in Proc \cup {Free, Stale}
    /\ task \in [Proc -> Task]
    /\ game \in BOOLEAN
    /\ owed \subseteq Played
    /\ excused \subseteq {"overlap", "undoFailed"}

Init ==
    /\ kind \in Kind
    /\ \E f \in Played \cup {Absent} :
        /\ dir = [Empty EXCEPT !.target = f]
        /\ owed = {f} \ {Absent}
    /\ lock = Free
    /\ task = [p \in Proc |-> Idle]
    /\ game = FALSE
    /\ excused = {}

(***************************************************************************)
(* Helpers                                                                 *)
(***************************************************************************)
At(p, pc) == task[p].pc = pc
Running(p) == task[p].pc \notin {"idle", "planned"}
RollingBack(p) == task[p].pc \in RollbackPc

\* A call begins its work beside the running ones of a set of processes.
BeginsBeside(calls) ==
    excused' = IF kind = "slot" /\ calls # {} THEN excused \cup {"overlap"} ELSE excused

\* A slot's target could not be put back.
UndoFailed ==
    excused' = IF kind = "slot" THEN excused \cup {"undoFailed"} ELSE excused

Goto(p, pc) == task' = [task EXCEPT ![p].pc = pc]
\* The call has made an entry, and goes on.
GotoMaking(p, pc, deed) ==
    task' = [task EXCEPT ![p].pc = pc, ![p].made = @ \cup {deed}]
\* An undo step has failed; the undoing goes on all the same.
GotoBotched(p, pc) ==
    task' = [task EXCEPT ![p].pc = pc, ![p].botched = TRUE]
Finish(p) == task' = [task EXCEPT ![p] = Idle]

\* The lock file goes with its guard.
Return(p) == /\ Finish(p)
             /\ lock' = IF lock = p THEN Free ELSE lock
             /\ UNCHANGED dir

\* A step of the installation fails: the undoing starts.
FirstUndo == IF kind = "slot" THEN "undoManifest" ELSE "undoTarget"

Outside == <<kind, game, owed, excused>>

(***************************************************************************)
(* Files that write_new_file has begun and not finished                    *)
(***************************************************************************)
HistoryRoom == Cardinality(dir.history \cup dir.tornHistory) < MaxHistory

\* What is left of the file that p's next step creates, if it gets no further.
Unfinished(p) ==
    LET t == task[p]
        torn == CASE t.pc = "archive" /\ t.old \notin dir.history /\ HistoryRoom ->
                         [dir EXCEPT !.tornHistory = @ \cup {t.old}]
                  [] t.pc = "backup" /\ dir.backup[t.previous] = "none" ->
                         [dir EXCEPT !.backup[t.previous] = "torn"]
                  [] /\ t.pc \in {"publish", "recover"}
                     /\ kind = "cec" /\ dir.manifest = NoManifest ->
                         [dir EXCEPT !.manifest = TornManifest]
                  [] OTHER -> dir
    IN torn

\* A failed write removes what it has written, if it can.
WriteFails(p, pc) == \/ Goto(p, pc) /\ UNCHANGED dir
                     \/ GotoBotched(p, pc) /\ dir' = Unfinished(p)

(***************************************************************************)
(* An installation                                                         *)
(***************************************************************************)
\* The user has a save converted and looks at what it would replace.  (Both
\* applications then pass the target's hash on, or that it must be absent;
\* the hash of an absent cache is that of an empty one.)
DryRun(p, x) ==
    /\ At(p, "idle")
    /\ task' = [task EXCEPT ![p] = [Idle EXCEPT !.pc = "planned", !.want = x,
                                                !.seen = dir.target]]
    /\ UNCHANGED <<dir, lock, Outside>>

\* The lock file is created; one that exists, stale or not, refuses the call.
Acquire(p) ==
    /\ At(p, "planned")
    /\ \/ /\ lock = Free /\ lock' = p /\ Goto(p, "locked")
          /\ BeginsBeside({q \in Proc : Running(q)})
       \/ lock # Free /\ Finish(p) /\ UNCHANGED <<lock, excused>>
    /\ UNCHANGED <<kind, dir, game, owed>>

\* A slot's manifest is replaced only if it could be rolled back, and if it
\* can be archived; a cache's is not replaced at all.
Replaceable(m) ==
    \/ m = NoManifest
    \/ /\ kind = "slot"
       /\ m.state = "whole"
       /\ m.previous # Absent => dir.backup[m.previous] = "whole"
       /\ m \notin dir.tornHistory

ReadManifest(p) ==
    /\ At(p, "locked")
    /\ \/ /\ ~game
          /\ Replaceable(dir.manifest)
          /\ task' = [task EXCEPT ![p].pc = "read", ![p].old = dir.manifest]
          /\ UNCHANGED <<dir, lock>>
       \/ (game \/ ~Replaceable(dir.manifest)) /\ Return(p)
    /\ UNCHANGED Outside

ReadTarget(p) ==
    /\ At(p, "read")
    /\ \/ /\ dir.target = task[p].seen
          /\ task' = [task EXCEPT ![p].previous = dir.target, ![p].before = dir,
                 ![p].pc = IF task[p].old # NoManifest THEN "archive"
                           ELSE IF dir.target # Absent THEN "backup" ELSE "stage"]
          /\ UNCHANGED <<dir, lock>>
       \/ dir.target # task[p].seen /\ Return(p)
    /\ UNCHANGED Outside

\* Mutant: what replaces an installation is not backed up.
AfterArchiveSkipsBackup(p) ==
    IF task[p].previous # Absent /\ task[p].old = NoManifest THEN "backup" ELSE "stage"
AfterArchive(p) == IF task[p].previous # Absent THEN "backup" ELSE "stage"

\* The manifest about to be replaced is copied under the name of its hash.
Archive(p) ==
    /\ At(p, "archive")
    /\ \/ task[p].old \in dir.history /\ Goto(p, AfterArchive(p)) /\ UNCHANGED dir
       \/ /\ task[p].old \notin dir.history
          /\ HistoryRoom
          /\ dir' = [dir EXCEPT !.history = @ \cup {task[p].old}]
          /\ GotoMaking(p, AfterArchive(p), "history")
    /\ UNCHANGED <<lock, Outside>>

\* The target's bytes are copied under the name of their hash.  A cache may
\* use a copy that is there already.
Backup(p) ==
    LET s == task[p].previous IN
    /\ At(p, "backup")
    /\ \/ /\ dir.backup[s] = "none"
          /\ dir' = [dir EXCEPT !.backup[s] = "whole"]
          /\ GotoMaking(p, "stage", "backup")
       \/ /\ kind = "cec" /\ dir.backup[s] = "whole"
          /\ Goto(p, "stage")
          /\ UNCHANGED dir
    /\ UNCHANGED <<lock, Outside>>

\* The new bytes are written beside the target, read back, validated and
\* renamed onto it.
Swap(p) ==
    /\ At(p, "stage")
    /\ dir' = [dir EXCEPT !.target = task[p].want]
    /\ GotoMaking(p, "publish", "target")
    /\ UNCHANGED <<lock, Outside>>

\* A slot's manifest is renamed into place, a cache's is created there.
Publish(p) ==
    /\ At(p, "publish")
    /\ kind = "cec" => dir.manifest = NoManifest
    /\ dir' = [dir EXCEPT !.manifest = Recorded(task[p].want, task[p].previous)]
    /\ GotoMaking(p, "sync", "manifest")
    /\ UNCHANGED <<lock, Outside>>

Installed(p) == At(p, "sync") /\ Return(p) /\ UNCHANGED Outside

\* Any step may fail.  The archived manifest may be there although it could
\* not be synced; a slot's undoing restores the manifest once its publication
\* was tried.
StepFails(p) ==
    /\ \/ task[p].pc \in {"archive", "backup", "publish"} /\ WriteFails(p, FirstUndo)
       \/ /\ At(p, "archive")
          /\ HistoryRoom
          /\ dir' = [dir EXCEPT !.history = @ \cup {task[p].old}]
          /\ Goto(p, FirstUndo)
       \/ task[p].pc \in {"stage", "sync"} /\ Goto(p, FirstUndo) /\ UNCHANGED dir
       \/ /\ At(p, "publish") /\ kind = "slot"
          /\ GotoMaking(p, FirstUndo, "manifest")
          /\ UNCHANGED dir
    /\ UNCHANGED <<lock, Outside>>

(***************************************************************************)
(* Undoing a failed installation.  A slot's undoing goes on to the end     *)
(* whatever fails; a cache's removes the manifest and the backup only if   *)
(* the target is back, and otherwise makes sure there is a manifest.       *)
(***************************************************************************)
Made(p, deed) == deed \in task[p].made

\* Mutant: an undone installation leaves no manifest, whatever was there.
UndoManifestRemoves(p) ==
    /\ At(p, "undoManifest")
    /\ Goto(p, IF kind = "slot" THEN "undoTarget" ELSE "undoBackup")
    /\ dir' = IF Made(p, "manifest") THEN [dir EXCEPT !.manifest = NoManifest] ELSE dir
    /\ UNCHANGED <<lock, Outside>>

UndoManifest(p) ==
    LET next == IF kind = "slot" THEN "undoTarget" ELSE "undoBackup" IN
    /\ At(p, "undoManifest")
    /\ \/ /\ Goto(p, next)
          /\ dir' = IF Made(p, "manifest")
                    THEN [dir EXCEPT !.manifest = task[p].old] ELSE dir
       \/ Made(p, "manifest") /\ GotoBotched(p, next) /\ UNCHANGED dir
    /\ UNCHANGED <<lock, Outside>>

TargetBack(p) == [dir EXCEPT !.target = task[p].previous]

\* Mutant: the backup goes although the target could not be put back.
UndoTargetThenCleanUp(p) ==
    /\ At(p, "undoTarget")
    /\ \/ /\ Goto(p, IF kind = "slot" THEN "undoBackup" ELSE "undoManifest")
          /\ dir' = IF Made(p, "target") THEN TargetBack(p) ELSE dir
          /\ UNCHANGED excused
       \/ /\ Made(p, "target")
          /\ UndoFailed
          /\ GotoBotched(p, IF kind = "slot" THEN "undoBackup" ELSE "undoManifest")
          /\ dir' \in {dir, TargetBack(p)}
    /\ UNCHANGED <<kind, lock, game, owed>>

\* The rename may have happened and only its sync failed.
UndoTarget(p) ==
    /\ At(p, "undoTarget")
    /\ \/ /\ Goto(p, IF kind = "slot" THEN "undoBackup" ELSE "undoManifest")
          /\ dir' = IF Made(p, "target") THEN TargetBack(p) ELSE dir
          /\ UNCHANGED excused
       \/ /\ Made(p, "target")
          /\ UndoFailed
          /\ GotoBotched(p, IF kind = "slot" THEN "undoBackup"
                            ELSE IF Made(p, "manifest") THEN "failed"
                            ELSE "recover")
          /\ dir' \in {dir, TargetBack(p)}
    /\ UNCHANGED <<kind, lock, game, owed>>

UndoBackup(p) ==
    LET next == IF kind = "slot" THEN "undoHistory" ELSE "failed" IN
    /\ At(p, "undoBackup")
    /\ \/ /\ Goto(p, next)
          /\ dir' = IF Made(p, "backup")
                    THEN [dir EXCEPT !.backup[task[p].previous] = "none"] ELSE dir
       \/ Made(p, "backup") /\ GotoBotched(p, next) /\ UNCHANGED dir
    /\ UNCHANGED <<lock, Outside>>

UndoHistory(p) ==
    /\ At(p, "undoHistory")
    /\ \/ /\ Goto(p, "failed")
          /\ dir' = IF Made(p, "history")
                    THEN [dir EXCEPT !.history = @ \ {task[p].old}] ELSE dir
       \/ Made(p, "history") /\ GotoBotched(p, "failed") /\ UNCHANGED dir
    /\ UNCHANGED <<lock, Outside>>

\* The cache could not be put back: a manifest lets a roll-back do it later.
Recover(p) ==
    /\ At(p, "recover")
    /\ \/ /\ dir.manifest = NoManifest
          /\ dir' = [dir EXCEPT !.manifest = Recorded(task[p].want, task[p].previous)]
          /\ Goto(p, "failed")
       \/ WriteFails(p, "failed")
    /\ UNCHANGED <<lock, Outside>>

Failed(p) == At(p, "failed") /\ Return(p) /\ UNCHANGED Outside

(***************************************************************************)
(* A roll-back                                                             *)
(***************************************************************************)
\* Mutant: no roll-back takes the lock.
StartRollbackUnlocked(p) ==
    /\ At(p, "idle")
    /\ ~game
    /\ Goto(p, "rollback")
    /\ BeginsBeside({q \in Proc : Running(q)})
    /\ UNCHANGED <<kind, dir, lock, game, owed>>

\* Only a cache's roll-back takes the lock.  It looks for the emulator here,
\* or a few reads later (nothing starts it meanwhile, see Launch).
StartRollback(p) ==
    /\ At(p, "idle")
    /\ ~game
    /\ kind = "cec" => lock = Free
    /\ Goto(p, "rollback")
    /\ lock' = IF kind = "cec" THEN p ELSE lock
    /\ BeginsBeside({q \in Proc : Running(q)})
    /\ UNCHANGED <<kind, dir, game, owed>>

RollbackRead(p) ==
    /\ At(p, "rollback")
    /\ \/ /\ dir.manifest.state = "whole"
          /\ task' = [task EXCEPT ![p].pc = "inspect", ![p].old = dir.manifest]
          /\ UNCHANGED <<dir, lock>>
       \/ dir.manifest.state # "whole" /\ Return(p)
    /\ UNCHANGED Outside

\* Mutant: a roll-back wants its backup even where the target is back already.
RollbackPlanNeedsBackup(m, d) ==
    IF m.previous = Absent
    THEN CASE d.target = m.installed -> "putBack"
           [] d.target = Absent -> "dropManifest"
           [] OTHER -> "error"
    ELSE CASE d.backup[m.previous] # "whole" -> "error"
           [] d.target = m.installed -> "putBack"
           [] d.target = m.previous -> "dropBackup"
           [] OTHER -> "error"

\* What a roll-back of manifest m does to the directory d first.
RollbackPlan(m, d) ==
    IF m.previous = Absent
    THEN CASE d.target = m.installed -> "putBack"
           [] d.target = Absent -> "dropManifest"
           [] OTHER -> "error"
    ELSE CASE d.target = m.installed /\ d.backup[m.previous] = "whole" -> "putBack"
           [] d.target = m.previous /\ d.target # m.installed ->
                  CASE d.backup[m.previous] = "whole" -> "dropBackup"
                    [] d.backup[m.previous] = "none" -> "dropManifest"
                    [] OTHER -> "error"
           [] OTHER -> "error"

Inspect(p) ==
    LET plan == RollbackPlan(task[p].old, dir) IN
    /\ At(p, "inspect")
    /\ \/ plan # "error" /\ Goto(p, plan) /\ UNCHANGED <<dir, lock>>
       \/ plan = "error" /\ Return(p)
    /\ UNCHANGED Outside

\* The backup's bytes replace the target, or the new target is removed.
PutBack(p) ==
    LET s == task[p].old.previous IN
    /\ At(p, "putBack")
    /\ dir' = [dir EXCEPT !.target = s]
    /\ Goto(p, IF s = Absent THEN "dropManifest" ELSE "dropBackup")
    /\ UNCHANGED <<lock, Outside>>

\* A backup that is gone is an error to a slot's roll-back only.
DropBackup(p) ==
    LET s == task[p].old.previous IN
    /\ At(p, "dropBackup")
    /\ \/ /\ kind = "cec" \/ dir.backup[s] # "none"
          /\ dir' = [dir EXCEPT !.backup[s] = "none"]
          /\ Goto(p, "dropManifest")
          /\ UNCHANGED lock
       \/ kind = "slot" /\ dir.backup[s] = "none" /\ Return(p)
    /\ UNCHANGED Outside

DropManifest(p) ==
    /\ At(p, "dropManifest")
    /\ dir' = [dir EXCEPT !.manifest = NoManifest]
    /\ Finish(p)
    /\ lock' = IF lock = p THEN Free ELSE lock
    /\ UNCHANGED Outside

\* Any step may fail; nothing is undone, and the call can be made again.
RollbackFails(p) == RollingBack(p) /\ Return(p) /\ UNCHANGED Outside

(***************************************************************************)
(* What is not the converter's: kills, the user, the game                  *)
(***************************************************************************)
\* The lock file outlives its process.
Kill(p) ==
    /\ Running(p)
    /\ Finish(p)
    /\ lock' = IF lock = p THEN Stale ELSE lock
    /\ dir' \in {dir, Unfinished(p)}
    /\ UNCHANGED Outside

ClearStaleLock ==
    /\ lock = Stale
    /\ lock' = Free
    /\ UNCHANGED <<dir, task, Outside>>

\* The emulator is not started while a conversion runs; every call refuses
\* to begin while it runs.
Launch ==
    /\ ~game
    /\ \A p \in Proc : ~Running(p)
    /\ game' = TRUE
    /\ UNCHANGED <<kind, dir, lock, task, owed, excused>>

Exit == game /\ game' = FALSE /\ UNCHANGED <<kind, dir, lock, task, owed, excused>>

\* The game saves: only it may destroy what a player has saved.
Play(s) ==
    /\ game
    /\ dir' = [dir EXCEPT !.target = s]
    /\ owed' = (owed \ {dir.target}) \cup {s}
    /\ UNCHANGED <<kind, lock, task, game, excused>>

Install(p) ==
    \/ \E x \in Converted : DryRun(p, x)
    \/ Acquire(p) \/ ReadManifest(p) \/ ReadTarget(p)
    \/ Archive(p) \/ Backup(p) \/ Swap(p) \/ Publish(p) \/ Installed(p)
    \/ StepFails(p)
    \/ UndoManifest(p) \/ UndoTarget(p) \/ UndoBackup(p) \/ UndoHistory(p)
    \/ Recover(p) \/ Failed(p)

Rollback(p) ==
    \/ StartRollback(p) \/ RollbackRead(p) \/ Inspect(p)
    \/ PutBack(p) \/ DropBackup(p) \/ DropManifest(p)
    \/ RollbackFails(p)

Next ==
    \/ \E p \in Proc : Install(p) \/ Rollback(p) \/ Kill(p)
    \/ ClearStaleLock
    \/ Launch \/ Exit \/ \E s \in Played : Play(s)

Spec == Init /\ [][Next]_vars

(***************************************************************************)
(* Properties                                                              *)
(***************************************************************************)
\* No call has overlapped a slot's roll-back.
Alone == "overlap" \notin excused

\* A save of the player's that the converter has taken out of its place is
\* whole in a backup (README.md, "keep the backup"): whatever is killed or fails
\* for a cache; for a slot, unless a roll-back of it has overlapped another call
\* or its target could not be put back, where the code may lose the save.
PriorSaveKept ==
    excused = {} =>
        \A s \in owed : dir.target = s \/ dir.backup[s] = "whole"

\* A manifest in place whose installation is still in place can be rolled
\* back: its backup is whole.  (Every step that removes or fails to write a
\* backup, of this or of an earlier installation, could break it; the excused
\* steps of a slot do.)
RollbackPossible ==
    LET m == dir.manifest IN
    excused = {} /\ m.state = "whole" /\ dir.target = m.installed =>
        m.previous \in {Absent, m.installed} \/ dir.backup[m.previous] = "whole"

\* A roll-back that stops after it has put the save back can be made again,
\* unless it put back the very bytes it replaced.  (For a slot, if it is alone.)
KilledRollbackCanFinish ==
    \A p \in Proc :
        LET m == task[p].old IN
        /\ Alone
        /\ task[p].pc \in {"dropBackup", "dropManifest"}
        /\ m.installed # m.previous
        => RollbackPlan(m, dir) # "error"

\* An installation that reports a failure, and whose undoing has not failed
\* as well, has left the target, its manifest and its backups as they were;
\* at most its manifest is archived too (docs/adr/0013, "A failed installation
\* restores the prior target and removes new transaction artifacts").  (For a
\* slot, if no roll-back changes them meanwhile.)
FailedInstallRestores ==
    \A p \in Proc : Alone /\ At(p, "failed") /\ ~task[p].botched =>
        LET b == task[p].before IN
        /\ dir.target = b.target
        /\ dir.manifest = b.manifest
        /\ dir.backup = b.backup
        /\ dir.history \subseteq b.history \cup {task[p].old}

\* What a process replaces is the save that it has read and that its user saw in
\* the dry run, and that save is whole in a backup.  Other installations are kept
\* out by the lock; a slot's roll-back is not, so that the promise ends with
\* the first call it overlaps.
SwapsOnlyWhatWasSeen ==
    [][\A p \in Proc : Alone /\ At(p, "stage") /\ task'[p].pc = "publish" =>
          /\ dir.target = task[p].seen
          /\ dir.target = task[p].previous
          /\ dir.target = Absent \/ dir.backup[dir.target] = "whole"]_vars
=============================================================================
