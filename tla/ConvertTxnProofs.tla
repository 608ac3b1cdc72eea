-------------------------- MODULE ConvertTxnProofs --------------------------
(***************************************************************************)
(* For any processes, saves and number of archived manifests, installing a *)
(* converted save and rolling it back keep every property of ConvertTxn.   *)
(* Nothing is assumed of what is killed, fails or overlaps: the two things *)
(* that a save slot is excused for are conditions in the properties        *)
(* themselves, and Inv is shown to hold until a call overlaps a slot's     *)
(* roll-back (Always).  A StreetPass cache is never excused.               *)
(***************************************************************************)
EXTENDS ConvertTxn, TLAPS

(***************************************************************************)
(* The inductive invariant                                                 *)
(***************************************************************************)
\* One call is under way at a time, and the game runs only beside one that has
\* not read anything yet.
OneCall ==
    /\ \A p, q \in Proc : Running(p) /\ Running(q) => p = q
    /\ \A p \in Proc : Running(p) /\ (kind = "cec" \/ ~RollingBack(p)) => lock = p
    /\ game => \A p \in Proc : Running(p) => At(p, "locked")

\* The backup of a manifest that a call replaces, or rolls back.
BackedUp(m) == m.previous # Absent => dir.backup[m.previous] = "whole"

\* What an installation that has read the target knows of the directory, and of
\* the directory that it found: only its own backup and manifest differ.
Sole(t) ==
    /\ t.want \in Converted
    /\ t.previous = t.seen /\ t.previous = t.before.target /\ t.old = t.before.manifest
    /\ \/ t.old = NoManifest
       \/ /\ kind = "slot" /\ t.old \in Manifest /\ BackedUp(t.old)
          /\ t.old.previous # Absent => t.before.backup[t.old.previous] = "whole"
    /\ dir.history \subseteq t.before.history \cup {t.old}
    /\ \A s \in Save \ {t.previous} : dir.backup[s] = t.before.backup[s]
    /\ "backup" \in t.made => t.previous # Absent /\ t.before.backup[t.previous] = "none"

\* The backup is the one it made, or as it found it.
BackupKnown(t) ==
    IF "backup" \in t.made THEN dir.backup[t.previous] = "whole"
    ELSE t.botched \/ dir.backup = t.before.backup
TargetKnown(t) ==
    /\ dir.target = IF "target" \in t.made THEN t.want ELSE t.previous
    /\ "target" \in t.made /\ t.previous # Absent => dir.backup[t.previous] = "whole"
ManifestKnown(t) ==
    \/ dir.manifest = t.old
    \/ "manifest" \in t.made /\ dir.manifest = Recorded(t.want, t.previous)
    \/ t.botched /\ dir.manifest = TornManifest
ManifestBack(t) ==
    \/ dir.manifest = t.old
    \/ t.botched /\ dir.manifest \in {TornManifest, Recorded(t.want, t.previous)}

\* Only a slot's undoing comes so far without having put the target back.
PutBackOrExcused(t) ==
    \/ dir.target = t.previous
    \/ t.botched /\ "undoFailed" \in excused

\* Nothing has failed yet.
Forward(t) ==
    /\ Sole(t) /\ ~t.botched
    /\ BackupKnown(t) /\ TargetKnown(t)

\* An undone installation.
Undone(t) ==
    /\ dir.target = t.before.target
    /\ dir.manifest = t.before.manifest
    /\ dir.backup = t.before.backup
    /\ dir.history \subseteq t.before.history \cup {t.old}

\* What a call knows of the directory at each of its steps.
PcInv(t) ==
    LET at == t.pc
        m == t.old IN
    /\ at \in {"planned", "locked", "read"} =>
           t.want \in Converted /\ t.made = {} /\ ~t.botched
    /\ at = "read" => m = dir.manifest /\ Replaceable(m)
    /\ at \in {"archive", "backup", "stage", "publish", "sync"} => Forward(t)
    /\ at \in {"archive", "backup", "stage"} => "target" \notin t.made
    /\ at \in {"archive", "backup"} => "backup" \notin t.made
    /\ at \in {"archive", "backup", "stage", "publish"} =>
           dir.manifest = m /\ "manifest" \notin t.made
    /\ at = "archive" => m # NoManifest
    /\ at = "backup" => t.previous # Absent
    /\ at = "stage" => (t.previous # Absent => dir.backup[t.previous] = "whole")
    /\ at \in {"publish", "sync"} => "target" \in t.made
    /\ at = "sync" => "manifest" \in t.made /\ dir.manifest = Recorded(t.want, t.previous)
    /\ at \in {"undoManifest", "undoTarget", "undoBackup", "undoHistory", "recover"} => Sole(t)
    /\ at \in {"undoManifest", "undoTarget", "undoBackup"} => BackupKnown(t)
    /\ at = "undoManifest" => ManifestKnown(t)
    /\ at = "undoManifest" /\ kind = "slot" => TargetKnown(t)
    /\ at = "undoManifest" /\ kind = "cec" => dir.target = t.previous
    /\ at = "undoTarget" => TargetKnown(t)
    /\ at = "undoTarget" /\ kind = "slot" => ManifestBack(t)
    /\ at = "undoTarget" /\ kind = "cec" => ManifestKnown(t)
    /\ at \in {"undoBackup", "undoHistory"} => PutBackOrExcused(t) /\ ManifestBack(t)
    /\ at = "undoHistory" => kind = "slot" /\ (t.botched \/ dir.backup = t.before.backup)
    /\ at = "recover" =>
           /\ kind = "cec" /\ t.botched /\ dir.manifest \in {NoManifest, TornManifest}
           /\ dir.target \in {t.want, t.previous}
           /\ t.previous # Absent => dir.backup[t.previous] = "whole"
    /\ at = "failed" => t.botched \/ Undone(t)
    /\ at \in RollbackPc \ {"rollback"} => m = dir.manifest /\ m \in Manifest
    /\ at = "putBack" => dir.target = m.installed /\ BackedUp(m)
    /\ at \in {"dropBackup", "dropManifest"} => dir.target = m.previous
    /\ at = "dropBackup" => m.previous # Absent /\ dir.backup[m.previous] = "whole"
    /\ at = "dropManifest" => (m.previous # Absent => dir.backup[m.previous] = "none")

Inv ==
    /\ TypeOK
    /\ kind \in Kind
    /\ OneCall
    /\ PriorSaveKept
    /\ RollbackPossible
    /\ \A p \in Proc : PcInv(task[p])

(***************************************************************************)
(* The data                                                                *)
(***************************************************************************)
\* A manifest is whole, or none, or torn.
LEMMA Manifests ==
    /\ \A m \in Manifest : m.state = "whole" /\ m.installed \in Converted /\ m.previous \in File
    /\ NoManifest \notin Manifest /\ TornManifest \notin Manifest /\ TornManifest # NoManifest
    /\ NoManifest.state # "whole" /\ TornManifest.state # "whole"
    /\ \A x \in Converted : \A s \in File :
           /\ Recorded(x, s) \in Manifest
           /\ Recorded(x, s).installed = x /\ Recorded(x, s).previous = s
BY DEF Manifest, NoManifest, TornManifest, Recorded

\* A directory's entries.
LEMMA Entries ==
    ASSUME NEW d \in Directory
    PROVE  /\ d.target \in File /\ d.backup \in [Save -> {"none", "torn", "whole"}]
           /\ d.manifest \in Manifest \cup {NoManifest, TornManifest}
           /\ d.history \subseteq Manifest /\ d.tornHistory \subseteq Manifest
           /\ (d.manifest.state = "whole" <=> d.manifest \in Manifest)
BY Manifests DEF Directory

\* What the invariant says about the process that takes a step.
LEMMA Known ==
    ASSUME Inv, NEW p \in Proc
    PROVE  /\ dir \in Directory /\ task[p] \in Task /\ PcInv(task[p]) /\ kind \in {"slot", "cec"}
           /\ task[p].pc \in Pc /\ task[p].want \in File /\ task[p].previous \in File
           /\ task[p].old \in Manifest \cup {NoManifest} /\ task[p].before \in Directory
           /\ task[p].made \subseteq Deed /\ task[p].botched \in BOOLEAN
BY DEF Inv, TypeOK, Task

(***************************************************************************)
(* What every step of a call needs                                         *)
(***************************************************************************)
\* The other processes have no call under way, and know nothing of the directory.
LEMMA OthersRest ==
    ASSUME Inv, NEW p \in Proc, Running(p), NEW t \in Task, task' = [task EXCEPT ![p] = t],
           kind' = kind
    PROVE  /\ task' \in [Proc -> Task] /\ task'[p] = t
           /\ \A q \in Proc \ {p} : task'[q] = task[q] /\ ~Running(q) /\ PcInv(task[q])'
<1>1. /\ task \in [Proc -> Task] /\ \A q \in Proc \ {p} : ~Running(q)
  BY DEF Inv, TypeOK, OneCall
<1>2. ASSUME NEW q \in Proc \ {p} PROVE PcInv(task[q])'
  <2>1. task'[q] = task[q] /\ task[q].pc \in {"idle", "planned"} /\ PcInv(task[q])
    BY <1>1 DEF Running, Inv
  <2>2. PICK t0 \in Task : t0 = task[q]
    BY <1>1
  <2>3. PcInv(t0)'
    BY <2>1, <2>2 DEF PcInv, RollbackPc
  <2>4. QED
    BY <2>1, <2>2, <2>3
<1>3. QED
  BY <1>1, <1>2

\* A call takes a step, which may be one to be excused, and goes on.
LEMMA GoesOnExcused ==
    ASSUME Inv, NEW p \in Proc, Running(p), NEW t \in Task, task' = [task EXCEPT ![p] = t],
           UNCHANGED <<kind, lock, game, owed>>, dir' \in Directory,
           excused' \subseteq {"overlap", "undoFailed"},
           t.pc \notin {"idle", "planned"}, t.pc \in RollbackPc <=> RollingBack(p),
           game => t.pc = "locked",
           PriorSaveKept', RollbackPossible', PcInv(t)'
    PROVE  Inv'
<1>1. /\ task' \in [Proc -> Task] /\ task'[p] = t /\ UNCHANGED <<kind, lock, game, owed>>
      /\ \A q \in Proc \ {p} : task'[q] = task[q] /\ ~Running(q) /\ PcInv(task[q])'
  BY OthersRest
<1>2. OneCall'
  BY <1>1 DEF Inv, OneCall, Running, RollingBack, At
<1>3. \A q \in Proc : PcInv(task[q])'
  BY <1>1
<1>4. QED
  BY <1>1, <1>2, <1>3 DEF Inv, TypeOK

\* A call takes a step and goes on.
LEMMA GoesOn ==
    ASSUME Inv, NEW p \in Proc, Running(p), NEW t \in Task, task' = [task EXCEPT ![p] = t],
           UNCHANGED <<lock, Outside>>, dir' \in Directory,
           t.pc \notin {"idle", "planned"}, t.pc \in RollbackPc <=> RollingBack(p),
           game => t.pc = "locked",
           PriorSaveKept', RollbackPossible', PcInv(t)'
    PROVE  Inv'
<1>1. UNCHANGED <<kind, lock, game, owed>> /\ excused' \subseteq {"overlap", "undoFailed"}
  BY DEF Inv, TypeOK, Outside
<1>2. QED
  BY <1>1, GoesOnExcused

\* A call ends; its lock file is removed, or is left behind by a kill.
LEMMA Ends ==
    ASSUME Inv, NEW p \in Proc, Running(p), Finish(p), UNCHANGED Outside,
           lock' \in {lock, Free, Stale}, dir' \in Directory,
           PriorSaveKept', RollbackPossible'
    PROVE  Inv'
<1>1. Idle \in Task /\ Idle.pc = "idle"
  <2>1. NoManifest \in Manifest \cup {NoManifest} /\ Empty \in Directory
    BY DEF Empty, Directory, File
  <2>2. QED
    BY <2>1 DEF Idle, Task, Pc, File
<1>2. PICK t \in Task : t = Idle
  BY <1>1
<1>3. /\ task' \in [Proc -> Task] /\ task'[p] = t /\ UNCHANGED Outside
      /\ \A q \in Proc \ {p} : task'[q] = task[q] /\ ~Running(q) /\ PcInv(task[q])'
  BY <1>2, OthersRest DEF Outside, Finish
<1>4. t.pc = "idle"
  BY <1>1, <1>2
<1>5. \A q \in Proc : ~Running(q)'
  BY <1>3, <1>4 DEF Running
<1>6. PcInv(t)'
  BY <1>4 DEF PcInv, RollbackPc
<1>7. \A q \in Proc : PcInv(task[q])'
  BY <1>3, <1>6
<1>8. QED
  BY <1>3, <1>5, <1>7 DEF Inv, TypeOK, OneCall, Outside

\* A call that returns leaves the directory as it is.
LEMMA Returns ==
    ASSUME Inv, NEW p \in Proc, Running(p), Return(p), UNCHANGED Outside
    PROVE  Inv'
<1>1. Finish(p) /\ dir' = dir /\ lock' \in {lock, Free} /\ UNCHANGED <<owed, excused>>
  BY DEF Return, Outside
<1>2. PriorSaveKept' /\ RollbackPossible' /\ dir' \in Directory
  BY <1>1 DEF Inv, TypeOK, PriorSaveKept, RollbackPossible
<1>3. QED
  BY <1>1, <1>2, Ends

\* What a call remembers from step to step.
Same(t, u) == /\ t.want = u.want /\ t.seen = u.seen /\ t.old = u.old
              /\ t.previous = u.previous /\ t.before = u.before

\* The task after a step that changes its place only,
LEMMA Moves ==
    ASSUME Inv, NEW p \in Proc, NEW x \in Pc, Goto(p, x)
    PROVE  \E t \in Task : /\ task' = [task EXCEPT ![p] = t]
                           /\ Same(t, task[p]) /\ t.pc = x
                           /\ t.made = task[p].made /\ t.botched = task[p].botched
<1> DEFINE t == [task[p] EXCEPT !.pc = x]
<1>1. task[p] \in Task /\ task' = [task EXCEPT ![p] = t]
  BY DEF Inv, TypeOK, Goto
<1>2. t \in Task /\ Same(t, task[p]) /\ t.pc = x
      /\ t.made = task[p].made /\ t.botched = task[p].botched
  BY <1>1 DEF Task, Same
<1>3. QED
  BY <1>1, <1>2

\* that has made an entry,
LEMMA MovesMaking ==
    ASSUME Inv, NEW p \in Proc, NEW x \in Pc, NEW deed \in Deed, GotoMaking(p, x, deed)
    PROVE  \E t \in Task : /\ task' = [task EXCEPT ![p] = t]
                           /\ Same(t, task[p]) /\ t.pc = x
                           /\ t.made = task[p].made \cup {deed} /\ t.botched = task[p].botched
<1> DEFINE t == [task[p] EXCEPT !.pc = x, !.made = @ \cup {deed}]
<1>1. task[p] \in Task /\ task' = [task EXCEPT ![p] = t]
  BY DEF Inv, TypeOK, GotoMaking
<1>2. t \in Task /\ Same(t, task[p]) /\ t.pc = x
      /\ t.made = task[p].made \cup {deed} /\ t.botched = task[p].botched
  BY <1>1 DEF Task, Same
<1>3. QED
  BY <1>1, <1>2

\* or that could not undo one.
LEMMA MovesBotched ==
    ASSUME Inv, NEW p \in Proc, NEW x \in Pc, GotoBotched(p, x)
    PROVE  \E t \in Task : /\ task' = [task EXCEPT ![p] = t]
                           /\ Same(t, task[p]) /\ t.pc = x
                           /\ t.made = task[p].made /\ t.botched
<1> DEFINE t == [task[p] EXCEPT !.pc = x, !.botched = TRUE]
<1>1. task[p] \in Task /\ task' = [task EXCEPT ![p] = t]
  BY DEF Inv, TypeOK, GotoBotched
<1>2. t \in Task /\ Same(t, task[p]) /\ t.pc = x
      /\ t.made = task[p].made /\ t.botched
  BY <1>1 DEF Task, Same
<1>3. QED
  BY <1>1, <1>2

\* Backups may come, as long as none goes.
LEMMA BackupsKept ==
    ASSUME Inv, UNCHANGED <<owed, excused>>, dir'.target = dir.target, dir'.manifest = dir.manifest,
           \A s \in Save : dir.backup[s] = "whole" => dir'.backup[s] = "whole"
    PROVE  PriorSaveKept' /\ RollbackPossible'
<1>1. /\ PriorSaveKept /\ RollbackPossible /\ owed \subseteq Save
      /\ dir.manifest.state = "whole" => dir.manifest.previous \in File
  BY Entries, Manifests DEF Inv, TypeOK, Save
<1>2. PriorSaveKept'
  BY <1>1 DEF PriorSaveKept
<1>3. RollbackPossible'
  BY <1>1 DEF RollbackPossible, File
<1>4. QED
  BY <1>2, <1>3

\* A file that is begun and not finished is one that nobody relies on.
LEMMA UnfinishedKeeps ==
    ASSUME Inv, NEW p \in Proc, dir' = Unfinished(p), UNCHANGED <<owed, excused>>
    PROVE  /\ dir' \in Directory /\ PriorSaveKept' /\ RollbackPossible'
           /\ \/ dir' = dir
              \/ /\ At(p, "archive")
                 /\ dir'.target = dir.target /\ dir'.backup = dir.backup
                 /\ dir'.manifest = dir.manifest /\ dir'.history = dir.history
              \/ /\ At(p, "backup") /\ dir.backup[task[p].previous] = "none"
                 /\ dir'.target = dir.target /\ dir'.manifest = dir.manifest
                 /\ dir'.backup = [dir.backup EXCEPT ![task[p].previous] = "torn"]
                 /\ dir'.history = dir.history
              \/ /\ task[p].pc \in {"publish", "recover"} /\ kind = "cec"
                 /\ dir.manifest = NoManifest /\ dir'.manifest = TornManifest
                 /\ dir'.target = dir.target /\ dir'.backup = dir.backup
                 /\ dir'.history = dir.history
<1> DEFINE t == task[p]
<1>1. /\ dir \in Directory /\ PcInv(t) /\ PriorSaveKept /\ RollbackPossible
      /\ t.previous \in File /\ t.old \in Manifest \cup {NoManifest}
  BY Known DEF Inv
<1>2. CASE dir' = dir
  BY <1>1, <1>2 DEF PriorSaveKept, RollbackPossible
<1>3. CASE t.pc = "archive" /\ dir' = [dir EXCEPT !.tornHistory = @ \cup {t.old}]
  <2>1. t.old \in Manifest
    BY <1>1, <1>3 DEF PcInv
  <2>2. /\ dir' \in Directory /\ dir'.target = dir.target /\ dir'.backup = dir.backup
        /\ dir'.manifest = dir.manifest /\ dir'.history = dir.history
    BY <1>1, <1>3, <2>1 DEF Directory
  <2>3. PriorSaveKept' /\ RollbackPossible'
    BY <1>1, <2>2 DEF PriorSaveKept, RollbackPossible
  <2>4. QED
    BY <1>3, <2>2, <2>3 DEF At
<1>4. CASE /\ t.pc = "backup" /\ dir.backup[t.previous] = "none"
           /\ dir' = [dir EXCEPT !.backup[t.previous] = "torn"]
  <2>1. t.previous \in Save
    BY <1>1, <1>4 DEF PcInv, File
  <2>2. /\ dir' \in Directory /\ dir'.target = dir.target /\ dir'.manifest = dir.manifest
        /\ dir'.backup = [dir.backup EXCEPT ![t.previous] = "torn"]
        /\ dir'.history = dir.history
    BY <1>1, <1>4, <2>1 DEF Directory
  <2>3. \A s \in Save : dir.backup[s] = "whole" => dir'.backup[s] = "whole"
    BY <1>1, <1>4, <2>1, <2>2, Entries
  <2>4. PriorSaveKept' /\ RollbackPossible'
    BY <2>2, <2>3, BackupsKept
  <2>5. QED
    BY <1>4, <2>2, <2>4 DEF At
<1>5. CASE /\ t.pc \in {"publish", "recover"} /\ kind = "cec" /\ dir.manifest = NoManifest
           /\ dir' = [dir EXCEPT !.manifest = TornManifest]
  <2>1. /\ dir' \in Directory /\ dir'.target = dir.target /\ dir'.backup = dir.backup
        /\ dir'.manifest = TornManifest /\ dir'.history = dir.history
    BY <1>1, <1>5 DEF Directory
  <2>2. PriorSaveKept' /\ RollbackPossible'
    BY <1>1, <2>1, Manifests DEF PriorSaveKept, RollbackPossible
  <2>3. QED
    BY <1>5, <2>1, <2>2
<1>6. QED
  BY <1>2, <1>3, <1>4, <1>5 DEF Unfinished

\* A failed write leaves nothing behind, or what it could not remove.
LEMMA WriteFailsKeeps ==
    ASSUME Inv, NEW p \in Proc, Running(p), NEW x \in Pc, WriteFails(p, x),
           UNCHANGED <<lock, Outside>>,
           x \notin {"idle", "planned"}, x \notin RollbackPc, ~RollingBack(p), ~game,
           \A t \in Task :
               /\ Same(t, task[p]) /\ t.pc = x /\ t.made = task[p].made
               /\ \/ t.botched = task[p].botched /\ dir' = dir
                  \/ t.botched /\ dir' = Unfinished(p)
               => PcInv(t)'
    PROVE  Inv'
<1>1. CASE Goto(p, x) /\ UNCHANGED dir
  <2>1. PICK t \in Task : /\ task' = [task EXCEPT ![p] = t]
                          /\ Same(t, task[p]) /\ t.pc = x
                          /\ t.made = task[p].made /\ t.botched = task[p].botched
    BY <1>1, Moves
  <2>2. PriorSaveKept' /\ RollbackPossible' /\ dir' \in Directory
    BY <1>1 DEF Inv, TypeOK, PriorSaveKept, RollbackPossible, Outside
  <2>3. PcInv(t)'
    BY <1>1, <2>1
  <2>4. QED
    BY <2>1, <2>2, <2>3, GoesOn
<1>2. CASE GotoBotched(p, x) /\ dir' = Unfinished(p)
  <2>1. PICK t \in Task : /\ task' = [task EXCEPT ![p] = t]
                          /\ Same(t, task[p]) /\ t.pc = x
                          /\ t.made = task[p].made /\ t.botched
    BY <1>2, MovesBotched
  <2>2. PriorSaveKept' /\ RollbackPossible' /\ dir' \in Directory
    BY <1>2, UnfinishedKeeps DEF Outside
  <2>3. PcInv(t)'
    BY <1>2, <2>1
  <2>4. QED
    BY <2>1, <2>2, <2>3, GoesOn
<1>3. QED
  BY <1>1, <1>2 DEF WriteFails

\* A call that has read something runs alone, and not beside the game.
LEMMA Quiet ==
    ASSUME Inv, NEW p \in Proc, Running(p), task[p].pc # "locked"
    PROVE  ~game
BY DEF Inv, OneCall, At

(***************************************************************************)
(* The installation                                                        *)
(***************************************************************************)
\* What a call knows it still knows while the directory is unchanged.
LEMMA StillKnown ==
    ASSUME NEW t, PcInv(t), UNCHANGED <<dir, kind, excused>>
    PROVE  PcInv(t)'
BY DEF PcInv, Forward, Sole, BackupKnown, TargetKnown, ManifestKnown, ManifestBack, Undone,
   Replaceable, BackedUp, PutBackOrExcused

\* A process that has no call under way plans or begins one.
LEMMA Begins ==
    ASSUME Inv, NEW p \in Proc, NEW t \in Task, task' = [task EXCEPT ![p] = t],
           UNCHANGED <<dir, Outside>>, lock' \in Proc \cup {Free, Stale}, OneCall', PcInv(t)
    PROVE  Inv'
<1>1. task \in [Proc -> Task] /\ UNCHANGED <<dir, kind, game, owed, excused>>
  BY DEF Inv, TypeOK, Outside
<1>2. TypeOK'
  BY <1>1 DEF Inv, TypeOK
<1>3. PriorSaveKept' /\ RollbackPossible'
  BY <1>1 DEF Inv, PriorSaveKept, RollbackPossible
<1>4. ASSUME NEW q \in Proc PROVE PcInv(task[q])'
  <2>1. PICK v \in Task : v = task'[q]
    BY <1>1
  <2>2. PcInv(v)
    BY <1>1, <2>1 DEF Inv
  <2>3. PcInv(v)'
    BY <1>1, <2>2, StillKnown
  <2>4. QED
    BY <2>1, <2>3
<1>5. QED
  BY <1>1, <1>2, <1>3, <1>4 DEF Inv

\* A slot's call that begins alone is not noted, nor is a cache's.
LEMMA BesideNone ==
    ASSUME BeginsBeside({q \in Proc : Running(q)})
    PROVE  /\ excused' \in {excused, excused \cup {"overlap"}}
           /\ Alone' /\ kind = "slot" => \A q \in Proc : ~Running(q)
           /\ (\A q \in Proc : ~Running(q)) => excused' = excused
BY DEF BeginsBeside, Alone

\* A dry run, and the creation of the lock file.
LEMMA BeginKeeps ==
    ASSUME Inv, Alone', NEW p \in Proc, (\E x \in Converted : DryRun(p, x)) \/ Acquire(p)
    PROVE  Inv'
<1>1. /\ dir \in Directory /\ PcInv(task[p]) /\ kind \in {"slot", "cec"} /\ kind \in Kind
      /\ task \in [Proc -> Task] /\ OneCall /\ lock \in Proc \cup {Free, Stale}
  BY Known DEF Inv, TypeOK
<1>2. ASSUME NEW x \in Converted, DryRun(p, x) PROVE Inv'
  <2> DEFINE t == [Idle EXCEPT !.pc = "planned", !.want = x, !.seen = dir.target]
  <2>1. /\ At(p, "idle") /\ task' = [task EXCEPT ![p] = t]
        /\ UNCHANGED <<dir, lock, kind, game, owed, excused>>
    BY <1>2 DEF DryRun, Outside
  <2>2. t \in Task /\ t.pc = "planned" /\ t.want = x /\ t.made = {} /\ ~t.botched
    <3>1. NoManifest \in Manifest \cup {NoManifest} /\ Empty \in Directory
      BY DEF Empty, Directory, File
    <3>2. x \in File /\ dir.target \in File
      BY <1>1, Entries DEF File, Save
    <3>3. QED
      BY <3>1, <3>2 DEF Idle, Task, Pc, File
  <2> HIDE DEF t
  <2>3. PcInv(t)
    BY <2>2 DEF PcInv, RollbackPc
  <2>4. OneCall'
    BY <1>1, <2>1, <2>2 DEF OneCall, Running, RollingBack, At, RollbackPc
  <2>5. QED
    BY <1>1, <2>1, <2>2, <2>3, <2>4, Begins DEF Outside
<1>3. CASE Acquire(p)
  <2>1. At(p, "planned") /\ UNCHANGED <<dir, kind, game, owed>>
    BY <1>3 DEF Acquire
  <2>2. CASE /\ lock = Free /\ lock' = p /\ Goto(p, "locked")
             /\ BeginsBeside({q \in Proc : Running(q)})
    <3>1. PICK t \in Task : /\ task' = [task EXCEPT ![p] = t]
                            /\ Same(t, task[p]) /\ t.pc = "locked"
                            /\ t.made = task[p].made /\ t.botched = task[p].botched
      BY <2>2, Moves DEF Pc, InstallPc
    <3>2. PcInv(t)
      BY <1>1, <2>1, <3>1 DEF PcInv, At, Same, RollbackPc
    <3>3. \A q \in Proc : ~Running(q)
      BY <1>1, <2>2, ConvertAssumption, BesideNone DEF OneCall
    <3>4. OneCall'
      BY <1>1, <2>1, <2>2, <3>1, <3>3 DEF OneCall, Running, RollingBack, At
    <3>5. QED
      BY <2>1, <2>2, <3>1, <3>2, <3>3, <3>4, BesideNone, Begins DEF Outside
  <2>3. CASE lock # Free /\ Finish(p) /\ UNCHANGED <<lock, excused>>
    <3>1. Idle \in Task /\ Idle.pc = "idle"
      <4>1. NoManifest \in Manifest \cup {NoManifest} /\ Empty \in Directory
        BY DEF Empty, Directory, File
      <4>2. QED
        BY <4>1 DEF Idle, Task, Pc, File
    <3>2. PcInv(Idle)
      BY <3>1 DEF PcInv, RollbackPc
    <3>3. OneCall'
      BY <1>1, <2>1, <2>3, <3>1 DEF OneCall, Running, RollingBack, At, Finish
    <3>4. QED
      BY <1>1, <2>1, <2>3, <3>1, <3>2, <3>3, Begins DEF Finish, Outside
  <2>4. QED
    BY <1>3, <2>2, <2>3 DEF Acquire
<1>4. QED
  BY <1>2, <1>3

\* Reading ends the call, or shows it what it may rely on.
LEMMA ReadKeeps ==
    ASSUME Inv, NEW p \in Proc, ReadManifest(p) \/ ReadTarget(p)
    PROVE  Inv'
<1> DEFINE u == task[p]
<1>1. /\ dir \in Directory /\ PcInv(u) /\ u \in Task /\ kind \in {"slot", "cec"}
      /\ PriorSaveKept /\ RollbackPossible /\ task \in [Proc -> Task] /\ UNCHANGED Outside
      /\ u.pc \in {"locked", "read"} /\ Running(p) /\ ~RollingBack(p)
  BY Known DEF Inv, TypeOK, ReadManifest, ReadTarget, At, Running, RollingBack, RollbackPc
<1>2. CASE Return(p)
  BY <1>1, <1>2, Returns
<1>3. CASE ReadManifest(p) /\ ~Return(p)
  <2> DEFINE e == [u EXCEPT !.pc = "read", !.old = dir.manifest]
  <2>1. /\ u.pc = "locked" /\ ~game /\ Replaceable(dir.manifest)
        /\ task' = [task EXCEPT ![p] = e] /\ UNCHANGED <<dir, lock>>
    BY <1>3 DEF ReadManifest, At
  <2>2. dir.manifest \in Manifest \cup {NoManifest}
    BY <1>1, <2>1, Entries DEF Replaceable
  <2>3. PICK t \in Task : /\ t = e /\ t.pc = "read" /\ t.old = dir.manifest
                          /\ t.want = u.want /\ t.made = u.made /\ t.botched = u.botched
    <3>1. e \in Task /\ e.pc = "read" /\ e.old = dir.manifest
          /\ e.want = u.want /\ e.made = u.made /\ e.botched = u.botched
      BY <1>1, <2>2 DEF Task, Pc, InstallPc
    <3>2. QED
      BY <3>1
  <2> HIDE DEF e
  <2>4. PcInv(t)
    BY <1>1, <2>1, <2>3 DEF PcInv, RollbackPc
  <2>5. PcInv(t)'
    BY <1>1, <2>1, <2>4, StillKnown DEF Outside
  <2>6. PriorSaveKept' /\ RollbackPossible' /\ dir' \in Directory
    BY <1>1, <2>1 DEF PriorSaveKept, RollbackPossible, Outside
  <2>7. QED
    BY <1>1, <2>1, <2>3, <2>5, <2>6, GoesOn DEF RollbackPc
<1>4. CASE ReadTarget(p) /\ ~Return(p)
  <2> DEFINE at == IF u.old # NoManifest THEN "archive"
                   ELSE IF dir.target # Absent THEN "backup" ELSE "stage"
             e == [u EXCEPT !.previous = dir.target, !.before = dir, !.pc = at]
  <2>1. /\ u.pc = "read" /\ dir.target = u.seen /\ UNCHANGED <<dir, lock>>
        /\ task' = [task EXCEPT ![p] = e]
    BY <1>4 DEF ReadTarget, At
  <2>2. /\ at \in {"archive", "backup", "stage"}
        /\ at = "archive" <=> u.old # NoManifest
        /\ at = "backup" => dir.target # Absent
        /\ at = "stage" => dir.target = Absent
    OBVIOUS
  <2> HIDE DEF at
  <2>3. /\ e \in Task /\ e.pc = at /\ e.old = u.old /\ e.want = u.want
        /\ e.made = u.made /\ e.botched = u.botched /\ e.previous = dir.target
        /\ e.before = dir /\ e.seen = dir.target
    BY <1>1, <2>1, <2>2, Entries DEF Task, Pc, InstallPc
  <2> HIDE DEF e
  <2> PICK t \in Task : t = e
    BY <2>3
  <2>4. /\ u.old = dir.manifest /\ Replaceable(u.old) /\ u.want \in Converted /\ u.made = {}
        /\ ~u.botched /\ u.old \in Manifest \cup {NoManifest}
    BY <1>1, <2>1, Known DEF PcInv
  <2>5. Sole(t)
    BY <1>1, <2>3, <2>4 DEF Sole, Replaceable, BackedUp
  <2>6. PcInv(t)
    BY <1>1, <2>2, <2>3, <2>4, <2>5
    DEF PcInv, Forward, BackupKnown, TargetKnown, RollbackPc
  <2>7. PcInv(t)'
    BY <1>1, <2>1, <2>6, StillKnown DEF Outside
  <2>8. PriorSaveKept' /\ RollbackPossible' /\ dir' \in Directory
    BY <1>1, <2>1 DEF PriorSaveKept, RollbackPossible, Outside
  <2>9. ~game
    BY <1>1, <2>1, Quiet
  <2>10. QED
    BY <1>1, <2>1, <2>2, <2>3, <2>7, <2>8, <2>9, GoesOn DEF RollbackPc
<1>5. QED
  BY <1>2, <1>3, <1>4

\* Whatever the installation does but to its own backup and manifest.
LEMMA SoleKept ==
    ASSUME NEW u, NEW t, Sole(u), Same(t, u), kind' = kind, dir'.backup = dir.backup,
           dir'.history \subseteq dir.history \cup {u.old},
           "backup" \in t.made => "backup" \in u.made
    PROVE  Sole(t)'
BY DEF Sole, Same, BackedUp

\* One archive, one backup: each is there before the save is replaced.
LEMMA PrepareKeeps ==
    ASSUME Inv, NEW p \in Proc, Archive(p) \/ Backup(p)
    PROVE  Inv'
<1> DEFINE u == task[p]
<1>1. /\ dir \in Directory /\ PcInv(u) /\ u \in Task /\ u.old \in Manifest \cup {NoManifest}
      /\ u.previous \in File /\ PriorSaveKept /\ RollbackPossible
      /\ UNCHANGED <<lock, Outside>> /\ u.pc \in {"archive", "backup"} /\ Running(p)
      /\ ~RollingBack(p) /\ ~game
  BY Known, Quiet DEF Inv, Archive, Backup, At, Running, RollingBack, RollbackPc
<1>2. /\ Forward(u) /\ "target" \notin u.made /\ "backup" \notin u.made
      /\ dir.manifest = u.old /\ "manifest" \notin u.made
      /\ Sole(u) /\ dir.target = u.previous /\ dir.backup = u.before.backup /\ ~u.botched
  BY <1>1 DEF PcInv, Forward, BackupKnown, TargetKnown
<1>3. CASE Archive(p)
  <2>1. /\ AfterArchive(p) \in {"backup", "stage"}
        /\ AfterArchive(p) = "backup" <=> u.previous # Absent
    BY DEF AfterArchive
  <2>2. u.old \in Manifest
    BY <1>1, <1>3 DEF PcInv, Archive, At
  <2>3. PICK t \in Task : /\ task' = [task EXCEPT ![p] = t]
                          /\ Same(t, u) /\ t.pc = AfterArchive(p)
                          /\ t.made \in {u.made, u.made \cup {"history"}}
                          /\ t.botched = u.botched
    BY <1>3, <2>1, Moves, MovesMaking DEF Archive, Pc, InstallPc, Deed
  <2>4. /\ dir' \in Directory /\ dir'.target = dir.target /\ dir'.backup = dir.backup
        /\ dir'.manifest = dir.manifest /\ dir'.history \subseteq dir.history \cup {u.old}
    BY <1>1, <1>3, <2>2 DEF Archive, Directory
  <2>5. PriorSaveKept' /\ RollbackPossible'
    BY <1>1, <2>4, BackupsKept DEF Outside
  <2>6. Sole(t)'
    BY <1>1, <1>2, <2>3, <2>4, SoleKept DEF Outside
  <2>7. PcInv(t)'
    BY <1>2, <2>1, <2>3, <2>4, <2>6
    DEF PcInv, Forward, BackupKnown, TargetKnown, Same, RollbackPc
  <2>8. QED
    BY <1>1, <2>1, <2>3, <2>4, <2>5, <2>7, GoesOn DEF RollbackPc
<1>4. CASE Backup(p)
  <2>1. u.previous \in Save /\ u.previous # Absent
    BY <1>1, <1>4 DEF PcInv, Backup, At, File
  <2>2. CASE /\ dir.backup[u.previous] = "none"
             /\ dir' = [dir EXCEPT !.backup[u.previous] = "whole"]
             /\ GotoMaking(p, "stage", "backup")
    <3>1. PICK t \in Task : /\ task' = [task EXCEPT ![p] = t]
                            /\ Same(t, u) /\ t.pc = "stage"
                            /\ t.made = u.made \cup {"backup"} /\ t.botched = u.botched
      BY <2>2, MovesMaking DEF Pc, InstallPc, Deed
    <3>2. /\ dir' \in Directory /\ dir'.target = dir.target /\ dir'.manifest = dir.manifest
          /\ dir'.backup = [dir.backup EXCEPT ![u.previous] = "whole"]
          /\ dir'.history = dir.history
      BY <1>1, <2>1, <2>2 DEF Directory
    <3>3. /\ dir'.backup[u.previous] = "whole"
          /\ \A s \in Save \ {u.previous} : dir'.backup[s] = dir.backup[s]
      BY <1>1, <2>1, <3>2, Entries
    <3>4. PriorSaveKept' /\ RollbackPossible'
      BY <1>1, <3>2, <3>3, BackupsKept DEF Outside
    <3>5. Sole(t)'
      <4>1. \A s \in Save : dir.backup[s] = "whole" => dir'.backup[s] = "whole"
        BY <3>3
      <4>2. t.old = u.old /\ (t.old \in Manifest => (BackedUp(t.old) => BackedUp(t.old)'))
        BY <3>1, <4>1, Manifests DEF BackedUp, File, Same
      <4>3. /\ t.want = u.want /\ t.seen = u.seen /\ t.old = u.old
            /\ t.previous = u.previous /\ t.before = u.before /\ kind' = kind
        BY <1>1, <3>1 DEF Same, Outside
      <4>4. /\ t.want \in Converted
            /\ t.previous = t.seen /\ t.previous = t.before.target /\ t.old = t.before.manifest
            /\ \/ t.old = NoManifest
               \/ /\ kind' = "slot" /\ t.old \in Manifest /\ BackedUp(t.old)'
                  /\ t.old.previous # Absent => t.before.backup[t.old.previous] = "whole"
        BY <1>2, <4>2, <4>3 DEF Sole
      <4>5. dir'.history \subseteq t.before.history \cup {t.old}
        BY <1>2, <3>2, <4>3 DEF Sole
      <4>6. \A s \in Save \ {t.previous} : dir'.backup[s] = t.before.backup[s]
        BY <1>2, <3>3, <4>3
      <4>7. t.previous # Absent /\ t.before.backup[t.previous] = "none"
        BY <1>2, <2>1, <2>2, <4>3
      <4>8. QED
        BY <4>4, <4>5, <4>6, <4>7 DEF Sole
    <3>6. PcInv(t)'
      BY <1>2, <2>1, <3>1, <3>2, <3>3, <3>5
      DEF PcInv, Forward, BackupKnown, TargetKnown, Same, RollbackPc
    <3>7. QED
      BY <1>1, <3>1, <3>2, <3>4, <3>6, GoesOn DEF RollbackPc
  <2>3. CASE /\ dir.backup[u.previous] = "whole" /\ Goto(p, "stage") /\ UNCHANGED dir
    <3>1. PICK t \in Task : /\ task' = [task EXCEPT ![p] = t]
                            /\ Same(t, u) /\ t.pc = "stage"
                            /\ t.made = u.made /\ t.botched = u.botched
      BY <2>3, Moves DEF Pc, InstallPc
    <3>2. PriorSaveKept' /\ RollbackPossible'
      BY <1>1, <2>3, BackupsKept DEF Outside
    <3>3. Sole(t)'
      BY <1>1, <1>2, <2>3, <3>1, SoleKept DEF Outside
    <3>4. PcInv(t)'
      BY <1>2, <2>1, <2>3, <3>1, <3>3
      DEF PcInv, Forward, BackupKnown, TargetKnown, Same, RollbackPc
    <3>5. QED
      BY <1>1, <2>3, <3>1, <3>2, <3>4, GoesOn DEF RollbackPc
  <2>4. QED
    BY <1>4, <2>2, <2>3 DEF Backup
<1>5. QED
  BY <1>3, <1>4

\* The save is replaced when it is backed up, the manifest when that is true of it.
LEMMA ReplaceKeeps ==
    ASSUME Inv, NEW p \in Proc, Swap(p) \/ Publish(p) \/ Installed(p)
    PROVE  Inv'
<1> DEFINE u == task[p]
<1>1. /\ dir \in Directory /\ PcInv(u) /\ u \in Task /\ u.old \in Manifest \cup {NoManifest}
      /\ u.previous \in File /\ PriorSaveKept /\ RollbackPossible /\ owed \subseteq Played
      /\ UNCHANGED Outside /\ u.pc \in {"stage", "publish", "sync"} /\ Running(p)
      /\ ~RollingBack(p) /\ ~game
  BY Known, Quiet
  DEF Inv, TypeOK, Swap, Publish, Installed, At, Running, RollingBack, RollbackPc
<1>2. /\ Forward(u) /\ Sole(u) /\ BackupKnown(u) /\ TargetKnown(u) /\ ~u.botched
      /\ u.want \in Converted
  BY <1>1 DEF PcInv, Forward, Sole
<1>3. CASE Swap(p)
  <2>1. u.pc = "stage" /\ UNCHANGED lock
    BY <1>3 DEF Swap, At
  <2>2. /\ dir.target = u.previous /\ dir.manifest = u.old /\ "manifest" \notin u.made
        /\ u.previous # Absent => dir.backup[u.previous] = "whole"
    BY <1>1, <1>2, <2>1 DEF PcInv, TargetKnown
  <2>3. PICK t \in Task : /\ task' = [task EXCEPT ![p] = t]
                          /\ Same(t, u) /\ t.pc = "publish"
                          /\ t.made = u.made \cup {"target"} /\ t.botched = u.botched
    BY <1>3, MovesMaking DEF Swap, Pc, InstallPc, Deed
  <2>4. /\ dir' \in Directory /\ dir'.target = u.want /\ dir'.backup = dir.backup
        /\ dir'.manifest = dir.manifest /\ dir'.history = dir.history
    BY <1>1, <1>2, <1>3 DEF Swap, Directory, File, Save
  <2>5. PriorSaveKept'
    BY <1>1, <2>2, <2>4, ConvertAssumption DEF PriorSaveKept, Outside
  <2>6. RollbackPossible'
    BY <1>2, <2>2, <2>4, Manifests DEF RollbackPossible, Sole, BackedUp
  <2>7. Sole(t)'
    BY <1>1, <1>2, <2>3, <2>4, SoleKept DEF Outside
  <2>8. PcInv(t)'
    BY <1>2, <2>2, <2>3, <2>4, <2>7
    DEF PcInv, Forward, BackupKnown, TargetKnown, Same, RollbackPc
  <2>9. QED
    BY <1>1, <2>1, <2>3, <2>4, <2>5, <2>6, <2>8, GoesOn DEF RollbackPc
<1>4. CASE Publish(p)
  <2>1. u.pc = "publish" /\ UNCHANGED lock
    BY <1>4 DEF Publish, At
  <2>2. "target" \in u.made
    BY <1>1, <2>1 DEF PcInv
  <2>3. PICK t \in Task : /\ task' = [task EXCEPT ![p] = t]
                          /\ Same(t, u) /\ t.pc = "sync"
                          /\ t.made = u.made \cup {"manifest"} /\ t.botched = u.botched
    BY <1>4, MovesMaking DEF Publish, Pc, InstallPc, Deed
  <2>4. /\ Recorded(u.want, u.previous) \in Manifest
        /\ Recorded(u.want, u.previous).previous = u.previous
    BY <1>1, <1>2, Manifests
  <2>5. /\ dir' \in Directory /\ dir'.target = dir.target /\ dir'.backup = dir.backup
        /\ dir'.manifest = Recorded(u.want, u.previous) /\ dir'.history = dir.history
    BY <1>1, <1>4, <2>4 DEF Publish, Directory
  <2>6. PriorSaveKept'
    BY <1>1, <2>5 DEF PriorSaveKept, Outside
  <2>7. RollbackPossible'
    BY <1>2, <2>2, <2>4, <2>5 DEF RollbackPossible, TargetKnown
  <2>8. Sole(t)'
    BY <1>1, <1>2, <2>3, <2>5, SoleKept DEF Outside
  <2>9. PcInv(t)'
    BY <1>2, <2>2, <2>3, <2>5, <2>8
    DEF PcInv, Forward, BackupKnown, TargetKnown, Same, RollbackPc
  <2>10. QED
    BY <1>1, <2>1, <2>3, <2>5, <2>6, <2>7, <2>9, GoesOn DEF RollbackPc
<1>5. CASE Installed(p)
  BY <1>1, <1>5, Returns DEF Installed
<1>6. QED
  BY <1>3, <1>4, <1>5

(***************************************************************************)
(* A failed installation                                                   *)
(***************************************************************************)
\* What the undoing of an installation starts from.
LEMMA UndoStarts ==
    ASSUME NEW t \in Task, t.pc = FirstUndo, kind \in {"slot", "cec"}, kind' = kind,
           Sole(t)', BackupKnown(t)', TargetKnown(t)', ManifestKnown(t)'
    PROVE  PcInv(t)'
BY DEF FirstUndo, PcInv, RollbackPc

\* Whichever step fails, and whatever it leaves behind, the undoing knows enough.
LEMMA FailKeeps ==
    ASSUME Inv, NEW p \in Proc, StepFails(p)
    PROVE  Inv'
<1> DEFINE u == task[p]
<1>1. /\ dir \in Directory /\ PcInv(u) /\ u \in Task /\ u.old \in Manifest \cup {NoManifest}
      /\ u.previous \in File /\ PriorSaveKept /\ RollbackPossible /\ kind \in {"slot", "cec"}
      /\ UNCHANGED <<lock, Outside>> /\ UNCHANGED <<kind, owed, excused>>
      /\ u.pc \in {"archive", "backup", "stage", "publish", "sync"}
      /\ Running(p) /\ ~RollingBack(p) /\ ~game
  BY Known, Quiet DEF Inv, StepFails, At, Running, RollingBack, RollbackPc, Outside
<1>2. /\ Forward(u) /\ Sole(u) /\ BackupKnown(u) /\ TargetKnown(u) /\ ~u.botched
      /\ u.want \in Converted /\ ManifestKnown(u)
      /\ u.pc # "sync" => dir.manifest = u.old
      /\ u.pc \in {"archive", "backup"} => u.made \cap {"backup", "target", "manifest"} = {}
  BY <1>1 DEF PcInv, Forward, Sole, ManifestKnown
<1>3. /\ FirstUndo \in {"undoManifest", "undoTarget"} /\ FirstUndo \in Pc
      /\ FirstUndo \notin RollbackPc
  BY DEF FirstUndo, Pc, UndoPc, RollbackPc
<1>4. ASSUME NEW t \in Task, Same(t, u), t.pc = FirstUndo, UNCHANGED dir,
             t.made \in {u.made, u.made \cup {"manifest"}}, t.botched \in {u.botched, TRUE}
      PROVE  PcInv(t)'
  <2>1. Sole(t)'
    BY <1>1, <1>2, <1>4, SoleKept
  <2>2. BackupKnown(t)' /\ TargetKnown(t)' /\ ManifestKnown(t)'
    BY <1>2, <1>4 DEF BackupKnown, TargetKnown, ManifestKnown, Same
  <2>3. QED
    BY <1>1, <1>4, <2>1, <2>2, UndoStarts
<1>5. CASE u.pc \in {"archive", "backup", "publish"} /\ WriteFails(p, FirstUndo)
  <2>1. ASSUME NEW t \in Task, Same(t, u), t.pc = FirstUndo, t.made = u.made, t.botched,
               dir' = Unfinished(p)
        PROVE  PcInv(t)'
    <3>1. CASE dir' = dir
      BY <1>4, <2>1, <3>1
    <3>2. CASE /\ u.pc = "archive"
               /\ dir'.target = dir.target /\ dir'.backup = dir.backup
               /\ dir'.manifest = dir.manifest /\ dir'.history = dir.history
      <4>1. Sole(t)'
        BY <1>1, <1>2, <2>1, <3>2, SoleKept
      <4>2. BackupKnown(t)' /\ TargetKnown(t)' /\ ManifestKnown(t)'
        BY <1>2, <2>1, <3>2 DEF BackupKnown, TargetKnown, ManifestKnown, Same
      <4>3. QED
        BY <1>1, <2>1, <4>1, <4>2, UndoStarts
    <3>3. CASE /\ u.pc = "backup" /\ dir.backup[u.previous] = "none"
               /\ dir'.target = dir.target /\ dir'.manifest = dir.manifest
               /\ dir'.backup = [dir.backup EXCEPT ![u.previous] = "torn"]
               /\ dir'.history = dir.history
      <4>1. /\ t.want = u.want /\ t.seen = u.seen /\ t.old = u.old
            /\ t.previous = u.previous /\ t.before = u.before /\ kind' = kind
        BY <1>1, <2>1 DEF Same
      <4>2. /\ \A s \in Save \ {u.previous} : dir'.backup[s] = dir.backup[s]
            /\ \A s \in Save : dir.backup[s] = "whole" => dir'.backup[s] = "whole"
        BY <1>1, <3>3, Entries
      <4>3. t.old \in Manifest => (BackedUp(t.old) => BackedUp(t.old)')
        BY <4>2, Manifests DEF BackedUp, File
      <4>4. /\ t.want \in Converted
            /\ t.previous = t.seen /\ t.previous = t.before.target /\ t.old = t.before.manifest
            /\ \/ t.old = NoManifest
               \/ /\ kind' = "slot" /\ t.old \in Manifest /\ BackedUp(t.old)'
                  /\ t.old.previous # Absent => t.before.backup[t.old.previous] = "whole"
        BY <1>2, <4>1, <4>3 DEF Sole
      <4>5. /\ dir'.history \subseteq t.before.history \cup {t.old}
            /\ \A s \in Save \ {t.previous} : dir'.backup[s] = t.before.backup[s]
        BY <1>2, <3>3, <4>1, <4>2 DEF Sole
      <4>6. Sole(t)'
        BY <1>2, <2>1, <3>3, <4>4, <4>5 DEF Sole
      <4>7. BackupKnown(t)' /\ TargetKnown(t)' /\ ManifestKnown(t)'
        BY <1>2, <2>1, <3>3, <4>1 DEF BackupKnown, TargetKnown, ManifestKnown
      <4>8. QED
        BY <1>1, <2>1, <4>6, <4>7, UndoStarts
    <3>4. CASE /\ dir.manifest = NoManifest /\ dir'.manifest = TornManifest
               /\ dir'.target = dir.target /\ dir'.backup = dir.backup
               /\ dir'.history = dir.history
      <4>1. Sole(t)'
        BY <1>1, <1>2, <2>1, <3>4, SoleKept
      <4>2. BackupKnown(t)' /\ TargetKnown(t)' /\ ManifestKnown(t)'
        BY <1>2, <2>1, <3>4 DEF BackupKnown, TargetKnown, ManifestKnown, Same
      <4>3. QED
        BY <1>1, <2>1, <4>1, <4>2, UndoStarts
    <3>5. QED
      BY <1>1, <2>1, <3>1, <3>2, <3>3, <3>4, UnfinishedKeeps DEF At
  <2>2. \A t \in Task :
            /\ Same(t, u) /\ t.pc = FirstUndo /\ t.made = u.made
            /\ \/ t.botched = u.botched /\ dir' = dir
               \/ t.botched /\ dir' = Unfinished(p)
            => PcInv(t)'
    BY <1>4, <2>1
  <2>3. QED
    BY <1>1, <1>3, <1>5, <2>2, WriteFailsKeeps
<1>6. CASE /\ u.pc = "archive" /\ dir' = [dir EXCEPT !.history = @ \cup {u.old}]
           /\ Goto(p, FirstUndo)
  <2>1. PICK t \in Task : /\ task' = [task EXCEPT ![p] = t]
                          /\ Same(t, u) /\ t.pc = FirstUndo
                          /\ t.made = u.made /\ t.botched = u.botched
    BY <1>3, <1>6, Moves
  <2>2. u.old \in Manifest
    BY <1>1, <1>6 DEF PcInv
  <2>3. /\ dir' \in Directory /\ dir'.target = dir.target /\ dir'.backup = dir.backup
        /\ dir'.manifest = dir.manifest /\ dir'.history \subseteq dir.history \cup {u.old}
    BY <1>1, <1>6, <2>2 DEF Directory
  <2>4. PriorSaveKept' /\ RollbackPossible'
    BY <1>1, <2>3, BackupsKept
  <2>5. Sole(t)'
    BY <1>1, <1>2, <2>1, <2>3, SoleKept
  <2>6. BackupKnown(t)' /\ TargetKnown(t)' /\ ManifestKnown(t)'
    BY <1>2, <2>1, <2>3 DEF BackupKnown, TargetKnown, ManifestKnown, Same
  <2>7. PcInv(t)'
    BY <1>1, <2>1, <2>5, <2>6, UndoStarts
  <2>8. QED
    BY <1>1, <1>3, <2>1, <2>3, <2>4, <2>7, GoesOn
<1>7. CASE (Goto(p, FirstUndo) \/ GotoMaking(p, FirstUndo, "manifest")) /\ UNCHANGED dir
  <2>1. PICK t \in Task : /\ task' = [task EXCEPT ![p] = t]
                          /\ Same(t, u) /\ t.pc = FirstUndo
                          /\ t.made \in {u.made, u.made \cup {"manifest"}}
                          /\ t.botched = u.botched
    BY <1>3, <1>7, Moves, MovesMaking DEF Deed
  <2>2. PriorSaveKept' /\ RollbackPossible'
    BY <1>1, <1>7, BackupsKept
  <2>3. PcInv(t)'
    BY <1>4, <1>7, <2>1
  <2>4. QED
    BY <1>1, <1>3, <1>7, <2>1, <2>2, <2>3, GoesOn
<1>8. QED
  BY <1>5, <1>6, <1>7 DEF StepFails, At

\* The manifest that was replaced comes back, with its own backup still whole.
LEMMA UndoManifestKeeps ==
    ASSUME Inv, NEW p \in Proc, UndoManifest(p)
    PROVE  Inv'
<1> DEFINE u == task[p]
           next == IF kind = "slot" THEN "undoTarget" ELSE "undoBackup"
<1>1. /\ dir \in Directory /\ PcInv(u) /\ u.old \in Manifest \cup {NoManifest}
      /\ PriorSaveKept /\ RollbackPossible /\ kind \in {"slot", "cec"}
      /\ UNCHANGED <<lock, Outside>> /\ UNCHANGED <<kind, owed, excused>> /\ u.pc = "undoManifest"
      /\ Running(p) /\ ~RollingBack(p) /\ ~game
  BY Known, Quiet DEF Inv, UndoManifest, At, Running, RollingBack, RollbackPc, Outside
<1>2. /\ Sole(u) /\ BackupKnown(u) /\ ManifestKnown(u)
      /\ kind = "slot" => TargetKnown(u)
      /\ kind = "cec" => dir.target = u.previous
  BY <1>1 DEF PcInv
<1>3. next \in Pc \ {"idle", "planned"} /\ next \notin RollbackPc
  BY DEF Pc, UndoPc, RollbackPc
<1>4. PICK t \in Task : /\ task' = [task EXCEPT ![p] = t]
                        /\ Same(t, u) /\ t.pc = next /\ t.made = u.made
                        /\ \/ /\ t.botched = u.botched
                              /\ dir' = IF "manifest" \in u.made
                                        THEN [dir EXCEPT !.manifest = u.old] ELSE dir
                           \/ t.botched /\ dir' = dir
  BY <1>3, Moves, MovesBotched DEF UndoManifest, Made
<1>5. /\ dir' \in Directory /\ dir'.target = dir.target /\ dir'.backup = dir.backup
      /\ dir'.history = dir.history
      /\ \/ dir'.manifest = u.old
         \/ dir'.manifest = dir.manifest /\ ("manifest" \notin u.made \/ t.botched)
  BY <1>1, <1>4 DEF Directory
<1>6. PriorSaveKept'
  BY <1>1, <1>5 DEF PriorSaveKept
<1>7. RollbackPossible'
  <2>1. CASE dir'.manifest = u.old
    BY <1>2, <1>5, <2>1, Manifests DEF RollbackPossible, Sole, BackedUp
  <2>2. CASE dir'.manifest = dir.manifest
    BY <1>1, <1>5, <2>2 DEF RollbackPossible
  <2>3. QED
    BY <1>5, <2>1, <2>2
<1>8. Sole(t)'
  BY <1>1, <1>2, <1>4, <1>5, SoleKept
<1>9. BackupKnown(t)' /\ ManifestBack(t)'
  BY <1>2, <1>4, <1>5 DEF BackupKnown, ManifestKnown, ManifestBack, Same
<1>10. PcInv(t)'
  BY <1>1, <1>2, <1>4, <1>5, <1>8, <1>9
  DEF PcInv, TargetKnown, PutBackOrExcused, Same, RollbackPc
<1>11. QED
  BY <1>1, <1>3, <1>4, <1>5, <1>6, <1>7, <1>10, GoesOn

\* The save that was replaced comes back from memory; if it cannot, a cache's
\* backup and a manifest stay, and a slot is excused.
LEMMA UndoTargetKeeps ==
    ASSUME Inv, NEW p \in Proc, UndoTarget(p)
    PROVE  Inv'
<1> DEFINE u == task[p]
<1>1. /\ dir \in Directory /\ PcInv(u) /\ u.old \in Manifest \cup {NoManifest}
      /\ u.previous \in File /\ u.want \in File
      /\ PriorSaveKept /\ RollbackPossible /\ kind \in {"slot", "cec"} /\ kind \in Kind
      /\ UNCHANGED <<kind, lock, game, owed>> /\ u.pc = "undoTarget"
      /\ Running(p) /\ ~RollingBack(p) /\ ~game /\ owed \subseteq Played
      /\ excused \subseteq {"overlap", "undoFailed"}
  BY Known, Quiet DEF Inv, TypeOK, UndoTarget, At, Running, RollingBack, RollbackPc
<1>2. /\ Sole(u) /\ BackupKnown(u) /\ TargetKnown(u) /\ u.want \in Converted
      /\ kind = "slot" => ManifestBack(u)
      /\ kind = "cec" => ManifestKnown(u) /\ u.old = NoManifest
      /\ ManifestKnown(u) \/ ManifestBack(u)
  BY <1>1 DEF PcInv, Sole
<1>3. /\ TargetBack(p) \in Directory /\ TargetBack(p).target = u.previous
      /\ TargetBack(p).backup = dir.backup /\ TargetBack(p).history = dir.history
      /\ TargetBack(p).manifest = dir.manifest
  BY <1>1 DEF TargetBack, Directory
<1>4. ASSUME dir' \in {dir, TargetBack(p)}, excused' = excused
      PROVE  /\ dir' \in Directory /\ dir'.target \in {dir.target, u.previous}
             /\ dir'.backup = dir.backup /\ dir'.history = dir.history
             /\ dir'.manifest = dir.manifest /\ PriorSaveKept' /\ RollbackPossible'
  <2>1. /\ dir' \in Directory /\ dir'.target \in {dir.target, u.previous}
        /\ dir'.backup = dir.backup /\ dir'.history = dir.history
        /\ dir'.manifest = dir.manifest
    BY <1>1, <1>3, <1>4
  <2>2. PriorSaveKept'
    BY <1>1, <1>2, <1>4, <2>1, ConvertAssumption DEF PriorSaveKept, TargetKnown
  <2>3. RollbackPossible'
    <3>1. CASE dir.manifest = u.old
      BY <1>1, <1>2, <1>4, <2>1, <3>1, Manifests DEF RollbackPossible, Sole, BackedUp
    <3>2. CASE dir.manifest = Recorded(u.want, u.previous)
      BY <1>1, <1>2, <2>1, <3>2, Manifests DEF RollbackPossible, TargetKnown
    <3>3. CASE dir.manifest = TornManifest
      BY <2>1, <3>3, Manifests DEF RollbackPossible
    <3>4. QED
      BY <1>2, <3>1, <3>2, <3>3 DEF ManifestKnown, ManifestBack
  <2>4. QED
    BY <2>1, <2>2, <2>3
<1>5. CASE /\ Goto(p, IF kind = "slot" THEN "undoBackup" ELSE "undoManifest")
           /\ dir' = IF "target" \in u.made THEN TargetBack(p) ELSE dir
           /\ UNCHANGED excused
  <2>1. PICK t \in Task : /\ task' = [task EXCEPT ![p] = t]
                          /\ Same(t, u) /\ t.made = u.made /\ t.botched = u.botched
                          /\ t.pc = IF kind = "slot" THEN "undoBackup" ELSE "undoManifest"
    BY <1>5, Moves DEF Pc, UndoPc
  <2>2. /\ dir' \in Directory /\ dir'.target = u.previous
        /\ dir'.backup = dir.backup /\ dir'.history = dir.history
        /\ dir'.manifest = dir.manifest /\ PriorSaveKept' /\ RollbackPossible'
    BY <1>2, <1>3, <1>4, <1>5 DEF TargetKnown
  <2>3. Sole(t)'
    BY <1>1, <1>2, <2>1, <2>2, SoleKept
  <2>4. PcInv(t)'
    BY <1>1, <1>2, <2>1, <2>2, <2>3
    DEF PcInv, BackupKnown, ManifestKnown, ManifestBack, PutBackOrExcused, Same, RollbackPc
  <2>5. QED
    BY <1>1, <1>5, <2>1, <2>2, <2>4, GoesOnExcused DEF RollbackPc
<1>6. CASE /\ kind = "cec" /\ "target" \in u.made
           /\ GotoBotched(p, IF "manifest" \in u.made THEN "failed" ELSE "recover")
           /\ dir' \in {dir, TargetBack(p)} /\ UNCHANGED excused
  <2>1. PICK t \in Task : /\ task' = [task EXCEPT ![p] = t]
                          /\ Same(t, u) /\ t.made = u.made /\ t.botched
                          /\ t.pc = IF "manifest" \in u.made THEN "failed" ELSE "recover"
    BY <1>6, MovesBotched DEF Pc, UndoPc
  <2>2. /\ dir' \in Directory /\ dir'.target \in {dir.target, u.previous}
        /\ dir'.backup = dir.backup /\ dir'.history = dir.history
        /\ dir'.manifest = dir.manifest /\ PriorSaveKept' /\ RollbackPossible'
    BY <1>4, <1>6
  <2>3. Sole(t)'
    BY <1>1, <1>2, <2>1, <2>2, SoleKept
  <2>4. t.pc = "recover" => dir.manifest \in {NoManifest, TornManifest}
    BY <1>2, <1>6, <2>1 DEF ManifestKnown
  <2>5. PcInv(t)'
    BY <1>1, <1>2, <1>6, <2>1, <2>2, <2>3, <2>4 DEF PcInv, TargetKnown, Same, RollbackPc
  <2>6. QED
    BY <1>1, <1>6, <2>1, <2>2, <2>5, GoesOnExcused DEF RollbackPc
<1>7. CASE /\ kind = "slot" /\ "target" \in u.made
           /\ GotoBotched(p, "undoBackup")
           /\ dir' \in {dir, TargetBack(p)} /\ excused' = excused \cup {"undoFailed"}
  <2>1. PICK t \in Task : /\ task' = [task EXCEPT ![p] = t]
                          /\ Same(t, u) /\ t.made = u.made /\ t.botched
                          /\ t.pc = "undoBackup"
    BY <1>7, MovesBotched DEF Pc, UndoPc
  <2>2. /\ dir' \in Directory /\ dir'.backup = dir.backup
        /\ dir'.history = dir.history /\ dir'.manifest = dir.manifest
    BY <1>1, <1>3, <1>7
  <2>3. PriorSaveKept' /\ RollbackPossible'
    BY <1>7 DEF PriorSaveKept, RollbackPossible
  <2>4. Sole(t)'
    BY <1>1, <1>2, <2>1, <2>2, SoleKept
  <2>5. PcInv(t)'
    BY <1>1, <1>2, <1>7, <2>1, <2>2, <2>4
    DEF PcInv, BackupKnown, ManifestBack, PutBackOrExcused, Same, RollbackPc
  <2>6. QED
    BY <1>1, <1>7, <2>1, <2>2, <2>3, <2>5, GoesOnExcused DEF RollbackPc
<1>8. QED
  BY <1>1, <1>5, <1>6, <1>7 DEF UndoTarget, UndoFailed, Made

\* The backup goes once the save is back, and with it nothing that a manifest in
\* place may need.
LEMMA UndoBackupKeeps ==
    ASSUME Inv, NEW p \in Proc, UndoBackup(p)
    PROVE  Inv'
<1> DEFINE u == task[p]
           next == IF kind = "slot" THEN "undoHistory" ELSE "failed"
<1>1. /\ dir \in Directory /\ PcInv(u) /\ u.old \in Manifest \cup {NoManifest}
      /\ u.previous \in File /\ u.before \in Directory
      /\ PriorSaveKept /\ RollbackPossible /\ kind \in {"slot", "cec"}
      /\ UNCHANGED <<lock, Outside>> /\ UNCHANGED <<kind, owed, excused>> /\ u.pc = "undoBackup"
      /\ Running(p) /\ ~RollingBack(p) /\ ~game
  BY Known, Quiet DEF Inv, UndoBackup, At, Running, RollingBack, RollbackPc, Outside
<1>2. Sole(u) /\ BackupKnown(u) /\ ManifestBack(u) /\ PutBackOrExcused(u)
  BY <1>1 DEF PcInv
<1>3. next \in Pc \ {"idle", "planned"} /\ next \notin RollbackPc
  BY DEF Pc, UndoPc, RollbackPc
<1>4. PICK t \in Task : /\ task' = [task EXCEPT ![p] = t]
                        /\ Same(t, u) /\ t.pc = next /\ t.made = u.made
                        /\ \/ /\ t.botched = u.botched
                              /\ dir' = IF "backup" \in u.made
                                        THEN [dir EXCEPT !.backup[u.previous] = "none"] ELSE dir
                           \/ t.botched /\ dir' = dir
  BY <1>3, Moves, MovesBotched DEF UndoBackup, Made
<1>5. /\ t.want = u.want /\ t.seen = u.seen /\ t.old = u.old
      /\ t.previous = u.previous /\ t.before = u.before
  BY <1>4 DEF Same
<1>6. /\ dir' \in Directory /\ dir'.target = dir.target /\ dir'.manifest = dir.manifest
      /\ dir'.history = dir.history
      /\ \/ /\ "backup" \in u.made /\ u.previous \in Save
            /\ dir'.backup = [dir.backup EXCEPT ![u.previous] = "none"]
         \/ dir'.backup = dir.backup /\ ("backup" \notin u.made \/ t.botched)
  <2>1. "backup" \in u.made => u.previous \in Save
    BY <1>1, <1>2 DEF Sole, File
  <2>2. QED
    BY <1>1, <1>4, <2>1 DEF Directory
<1>7. \A s \in Save \ {u.previous} : dir'.backup[s] = dir.backup[s]
  BY <1>1, <1>6, Entries
<1>8. t.old \in Manifest => BackedUp(t.old)'
  <2>1. t.old \in Manifest => BackedUp(t.old) /\ t.old.previous \in File
    BY <1>2, <1>5, Manifests DEF Sole
  <2>2. t.old \in Manifest /\ t.old.previous # Absent /\ "backup" \in u.made
        => t.old.previous # u.previous
    BY <1>2, <1>5, Manifests DEF Sole
  <2>3. QED
    BY <1>6, <1>7, <2>1, <2>2 DEF BackedUp, File
<1>9. PriorSaveKept'
  <2>1. \A s \in owed : s \in Save
    BY DEF Inv, TypeOK, Save
  <2>2. QED
    BY <1>1, <1>2, <1>6, <1>7, <2>1 DEF PriorSaveKept, PutBackOrExcused
<1>10. RollbackPossible'
  <2>1. CASE dir.manifest = u.old
    BY <1>2, <1>5, <1>6, <1>8, <2>1, Manifests DEF RollbackPossible, BackedUp, Sole
  <2>2. CASE dir.manifest = Recorded(u.want, u.previous)
    BY <1>1, <1>2, <1>6, <2>2, Manifests DEF RollbackPossible, Sole, PutBackOrExcused
  <2>3. CASE dir.manifest = TornManifest
    BY <1>6, <2>3, Manifests DEF RollbackPossible
  <2>4. QED
    BY <1>2, <2>1, <2>2, <2>3 DEF ManifestBack
<1>11. Sole(t)'
  <2>1. /\ t.want \in Converted
        /\ t.previous = t.seen /\ t.previous = t.before.target /\ t.old = t.before.manifest
        /\ \/ t.old = NoManifest
           \/ /\ kind' = "slot" /\ t.old \in Manifest /\ BackedUp(t.old)'
              /\ t.old.previous # Absent => t.before.backup[t.old.previous] = "whole"
    BY <1>1, <1>2, <1>5, <1>8 DEF Sole
  <2>2. /\ dir'.history \subseteq t.before.history \cup {t.old}
        /\ \A s \in Save \ {t.previous} : dir'.backup[s] = t.before.backup[s]
        /\ "backup" \in t.made => t.previous # Absent /\ t.before.backup[t.previous] = "none"
    BY <1>2, <1>4, <1>5, <1>6, <1>7 DEF Sole
  <2>3. QED
    BY <2>1, <2>2 DEF Sole
<1>12. t.botched \/ dir'.backup = t.before.backup
  <2>1. CASE "backup" \in u.made /\ u.previous \in Save
             /\ dir'.backup = [dir.backup EXCEPT ![u.previous] = "none"]
    <3>1. u.before.backup[u.previous] = "none"
      BY <1>2, <2>1 DEF Sole
    <3>2. dir'.backup[u.previous] = "none"
      BY <1>1, <2>1, Entries
    <3>3. \A s \in Save : dir'.backup[s] = u.before.backup[s]
      BY <1>2, <1>7, <3>1, <3>2 DEF Sole
    <3>4. /\ dir'.backup \in [Save -> {"none", "torn", "whole"}]
          /\ u.before.backup \in [Save -> {"none", "torn", "whole"}]
      BY <1>1, <1>6, Entries
    <3>5. dir'.backup = u.before.backup
      BY <3>3, <3>4
    <3>6. QED
      BY <1>5, <3>5
  <2>2. CASE dir'.backup = dir.backup /\ ("backup" \notin u.made \/ t.botched)
    BY <1>2, <1>4, <1>5, <2>2 DEF BackupKnown
  <2>3. QED
    BY <1>6, <2>1, <2>2
<1>13. PutBackOrExcused(t)' /\ ManifestBack(t)'
  BY <1>1, <1>2, <1>4, <1>5, <1>6 DEF ManifestBack, PutBackOrExcused
<1>14. t.botched \/ Undone(t)'
  BY <1>6, <1>11, <1>12, <1>13 DEF Undone, Sole, ManifestBack, PutBackOrExcused
<1>15. PcInv(t)'
  BY <1>1, <1>4, <1>11, <1>12, <1>13, <1>14 DEF PcInv, RollbackPc
<1>16. QED
  BY <1>1, <1>3, <1>4, <1>6, <1>9, <1>10, <1>15, GoesOn

\* The last of what a failed installation made goes, or stays archived.
LEMMA UndoHistoryKeeps ==
    ASSUME Inv, NEW p \in Proc, UndoHistory(p)
    PROVE  Inv'
<1> DEFINE u == task[p]
<1>1. /\ dir \in Directory /\ PcInv(u) /\ PriorSaveKept /\ RollbackPossible
      /\ UNCHANGED <<lock, Outside>> /\ UNCHANGED <<kind, owed, excused>> /\ u.pc = "undoHistory"
      /\ Running(p) /\ ~RollingBack(p) /\ ~game
  BY Known, Quiet DEF Inv, UndoHistory, At, Running, RollingBack, RollbackPc, Outside
<1>2. /\ Sole(u) /\ ManifestBack(u) /\ PutBackOrExcused(u)
      /\ u.botched \/ dir.backup = u.before.backup
  BY <1>1 DEF PcInv
<1>3. PICK t \in Task : /\ task' = [task EXCEPT ![p] = t]
                        /\ Same(t, u) /\ t.pc = "failed"
                        /\ t.botched = u.botched \/ t.botched
                        /\ dir' \in {dir, [dir EXCEPT !.history = @ \ {u.old}]}
  <2>1. "failed" \in Pc
    BY DEF Pc, UndoPc
  <2>2. CASE Goto(p, "failed")
    BY <2>1, <2>2, Moves DEF UndoHistory
  <2>3. CASE GotoBotched(p, "failed")
    BY <2>1, <2>3, MovesBotched DEF UndoHistory
  <2>4. QED
    BY <2>2, <2>3 DEF UndoHistory
<1>4. /\ dir' \in Directory /\ dir'.target = dir.target /\ dir'.manifest = dir.manifest
      /\ dir'.backup = dir.backup /\ dir'.history \subseteq dir.history
  BY <1>1, <1>3 DEF Directory
<1>5. PriorSaveKept' /\ RollbackPossible'
  BY <1>1, <1>4, BackupsKept
<1>6. t.botched \/ Undone(t)'
  BY <1>2, <1>3, <1>4 DEF Undone, Sole, ManifestBack, PutBackOrExcused, Same
<1>7. PcInv(t)'
  BY <1>3, <1>6 DEF PcInv, RollbackPc
<1>8. QED
  BY <1>1, <1>3, <1>4, <1>5, <1>7, GoesOn DEF RollbackPc

\* A manifest that can be rolled back is left in the place of none.
LEMMA RecoverKeeps ==
    ASSUME Inv, NEW p \in Proc, Recover(p)
    PROVE  Inv'
<1> DEFINE u == task[p]
<1>1. /\ dir \in Directory /\ PcInv(u) /\ PriorSaveKept /\ RollbackPossible
      /\ u.previous \in File /\ u.botched \in BOOLEAN
      /\ UNCHANGED <<lock, Outside>> /\ UNCHANGED <<kind, owed, excused>> /\ u.pc = "recover"
      /\ Running(p) /\ ~RollingBack(p) /\ ~game
  BY Known, Quiet DEF Inv, Recover, At, Running, RollingBack, RollbackPc, Outside
<1>2. /\ Sole(u) /\ u.botched /\ u.want \in Converted
      /\ u.previous # Absent => dir.backup[u.previous] = "whole"
  BY <1>1 DEF PcInv, Sole
<1>3. \A t \in Task : t.pc = "failed" /\ t.botched => PcInv(t)'
  BY DEF PcInv, RollbackPc
<1>4. "failed" \in Pc \ RollbackPc
  BY DEF Pc, UndoPc, RollbackPc
<1>5. CASE WriteFails(p, "failed")
  BY <1>1, <1>2, <1>3, <1>4, <1>5, WriteFailsKeeps
<1>6. CASE /\ dir' = [dir EXCEPT !.manifest = Recorded(u.want, u.previous)]
           /\ Goto(p, "failed")
  <2>1. PICK t \in Task : /\ task' = [task EXCEPT ![p] = t]
                          /\ Same(t, u) /\ t.pc = "failed"
                          /\ t.made = u.made /\ t.botched = u.botched
    BY <1>4, <1>6, Moves
  <2>2. /\ Recorded(u.want, u.previous) \in Manifest
        /\ Recorded(u.want, u.previous).previous = u.previous
    BY <1>1, <1>2, Manifests
  <2>3. /\ dir' \in Directory /\ dir'.target = dir.target /\ dir'.backup = dir.backup
        /\ dir'.manifest = Recorded(u.want, u.previous)
    BY <1>1, <1>6, <2>2 DEF Directory
  <2>4. PriorSaveKept' /\ RollbackPossible'
    BY <1>1, <1>2, <2>2, <2>3 DEF PriorSaveKept, RollbackPossible
  <2>5. PcInv(t)'
    BY <1>2, <1>3, <2>1
  <2>6. QED
    BY <1>1, <1>4, <2>1, <2>3, <2>4, <2>5, GoesOn
<1>7. QED
  BY <1>5, <1>6 DEF Recover

\* An installation that has failed ends.
LEMMA FailedKeeps ==
    ASSUME Inv, NEW p \in Proc, Failed(p)
    PROVE  Inv'
BY Returns DEF Failed, At, Running

(***************************************************************************)
(* The roll-back                                                           *)
(***************************************************************************)
\* A roll-back begins when nothing else is under way.
LEMMA StartRollbackKeeps ==
    ASSUME Inv, Alone', NEW p \in Proc, StartRollback(p)
    PROVE  Inv'
<1>1. /\ PcInv(task[p]) /\ kind \in {"slot", "cec"} /\ kind \in Kind
      /\ task \in [Proc -> Task] /\ OneCall /\ lock \in Proc \cup {Free, Stale}
      /\ UNCHANGED <<dir, kind, game, owed>> /\ ~game
      /\ BeginsBeside({q \in Proc : Running(q)})
  BY Known DEF Inv, TypeOK, StartRollback
<1>2. /\ \A q \in Proc : ~Running(q)
      /\ lock' = IF kind = "cec" THEN p ELSE lock
      /\ excused' = excused
  BY <1>1, ConvertAssumption, BesideNone DEF OneCall, StartRollback
<1>3. PICK t \in Task : /\ task' = [task EXCEPT ![p] = t] /\ t.pc = "rollback"
  <2>1. "rollback" \in Pc
    BY DEF Pc, RollbackPc
  <2>2. QED
    BY <2>1, Moves DEF StartRollback
<1>4. PcInv(t)
  BY <1>3 DEF PcInv, RollbackPc
<1>5. OneCall'
  <2>1. \A q \in Proc \ {p} : ~Running(q)'
    BY <1>1, <1>2, <1>3 DEF Running
  <2>2. RollingBack(p)'
    BY <1>1, <1>3 DEF RollingBack, RollbackPc
  <2>3. QED
    BY <1>1, <1>2, <2>1, <2>2 DEF OneCall
<1>6. QED
  BY <1>1, <1>2, <1>3, <1>4, <1>5, Begins DEF Outside

\* It reads the manifest, and does what that and the directory call for.
LEMMA InspectKeeps ==
    ASSUME Inv, NEW p \in Proc, RollbackRead(p) \/ Inspect(p)
    PROVE  Inv'
<1> DEFINE u == task[p]
<1>1. /\ dir \in Directory /\ PcInv(u) /\ u \in Task /\ PriorSaveKept /\ RollbackPossible
      /\ task \in [Proc -> Task] /\ UNCHANGED Outside /\ UNCHANGED <<kind, owed, excused>>
      /\ u.pc \in {"rollback", "inspect"} /\ Running(p) /\ RollingBack(p) /\ ~game
  BY Known, Quiet
  DEF Inv, TypeOK, RollbackRead, Inspect, At, Running, RollingBack, RollbackPc, Outside
<1>2. CASE Return(p)
  BY <1>1, <1>2, Returns
<1>3. CASE RollbackRead(p) /\ ~Return(p)
  <2> DEFINE e == [u EXCEPT !.pc = "inspect", !.old = dir.manifest]
  <2>1. /\ dir.manifest \in Manifest /\ task' = [task EXCEPT ![p] = e]
        /\ UNCHANGED <<dir, lock>>
    BY <1>1, <1>3, Entries DEF RollbackRead
  <2>2. PICK t \in Task : t = e /\ t.pc = "inspect" /\ t.old = dir.manifest
    <3>1. e \in Task /\ e.pc = "inspect" /\ e.old = dir.manifest
      BY <1>1, <2>1 DEF Task, Pc, RollbackPc
    <3>2. QED
      BY <3>1
  <2> HIDE DEF e
  <2>3. PcInv(t)'
    BY <2>1, <2>2 DEF PcInv
  <2>4. PriorSaveKept' /\ RollbackPossible' /\ dir' \in Directory
    BY <1>1, <2>1 DEF PriorSaveKept, RollbackPossible
  <2>5. QED
    BY <1>1, <2>1, <2>2, <2>3, <2>4, GoesOn DEF RollbackPc
<1>4. CASE Inspect(p) /\ ~Return(p)
  <2> DEFINE plan == RollbackPlan(u.old, dir)
  <2>1. /\ plan # "error" /\ Goto(p, plan) /\ UNCHANGED <<dir, lock>> /\ u.pc = "inspect"
    BY <1>4 DEF Inspect, At
  <2>2. u.old = dir.manifest /\ u.old \in Manifest
    BY <1>1, <2>1 DEF PcInv, RollbackPc
  <2>3. /\ plan \in {"putBack", "dropBackup", "dropManifest"}
        /\ plan = "putBack" => dir.target = u.old.installed /\ BackedUp(u.old)
        /\ plan \in {"dropBackup", "dropManifest"} => dir.target = u.old.previous
        /\ plan = "dropBackup" => /\ u.old.previous # Absent
                                  /\ dir.backup[u.old.previous] = "whole"
        /\ plan = "dropManifest" =>
               (u.old.previous # Absent => dir.backup[u.old.previous] = "none")
    BY <2>1 DEF RollbackPlan, BackedUp
  <2> HIDE DEF plan
  <2>4. PICK t \in Task : /\ task' = [task EXCEPT ![p] = t] /\ Same(t, u) /\ t.pc = plan
    BY <2>1, <2>3, Moves DEF Pc, RollbackPc
  <2>5. PcInv(t)'
    BY <2>1, <2>2, <2>3, <2>4 DEF PcInv, Same, BackedUp
  <2>6. PriorSaveKept' /\ RollbackPossible' /\ dir' \in Directory
    BY <1>1, <2>1 DEF PriorSaveKept, RollbackPossible
  <2>7. QED
    BY <1>1, <2>1, <2>3, <2>4, <2>5, <2>6, GoesOn DEF RollbackPc
<1>5. QED
  BY <1>2, <1>3, <1>4

\* What is destroyed is the converter's, the backup goes when its save is back,
\* and the manifest last.
LEMMA RollbackKeeps ==
    ASSUME Inv, NEW p \in Proc, PutBack(p) \/ DropBackup(p) \/ DropManifest(p) \/ RollbackFails(p)
    PROVE  Inv'
<1> DEFINE u == task[p]
           s == u.old.previous
<1>1. /\ dir \in Directory /\ PcInv(u) /\ u \in Task /\ PriorSaveKept /\ RollbackPossible
      /\ owed \subseteq Played /\ UNCHANGED Outside /\ UNCHANGED <<kind, owed, excused>>
      /\ Running(p) /\ RollingBack(p) /\ u.pc # "locked"
  BY Known
  DEF Inv, TypeOK, PutBack, DropBackup, DropManifest, RollbackFails, At, Running, RollingBack,
      RollbackPc, Outside
<1>2. ~game
  BY <1>1, Quiet
<1>3. u.pc \in {"putBack", "dropBackup", "dropManifest"} =>
          u.old = dir.manifest /\ u.old \in Manifest /\ u.old.installed \in Converted /\ s \in File
  BY <1>1, Manifests DEF PcInv, RollbackPc
<1>4. CASE PutBack(p)
  <2>1. /\ u.pc = "putBack" /\ UNCHANGED lock
        /\ dir.target = u.old.installed /\ BackedUp(u.old)
    BY <1>1, <1>4 DEF PutBack, PcInv, At
  <2>2. PICK t \in Task : /\ task' = [task EXCEPT ![p] = t] /\ Same(t, u)
                          /\ t.pc = IF s = Absent THEN "dropManifest" ELSE "dropBackup"
    BY <1>4, Moves DEF PutBack, Pc, RollbackPc
  <2>3. /\ dir' \in Directory /\ dir'.target = s /\ dir'.backup = dir.backup
        /\ dir'.manifest = dir.manifest
    BY <1>1, <1>3, <1>4, <2>1 DEF PutBack, Directory
  <2>4. PriorSaveKept'
    BY <1>1, <1>3, <2>1, <2>3, ConvertAssumption DEF PriorSaveKept
  <2>5. RollbackPossible'
    BY <1>3, <2>1, <2>3 DEF RollbackPossible
  <2>6. PcInv(t)'
    BY <1>3, <2>1, <2>2, <2>3 DEF PcInv, Same, BackedUp
  <2>7. QED
    BY <1>1, <1>2, <2>1, <2>2, <2>3, <2>4, <2>5, <2>6, GoesOn DEF RollbackPc
<1>5. CASE DropBackup(p)
  <2>1. /\ u.pc = "dropBackup" /\ dir.target = s /\ s # Absent /\ dir.backup[s] = "whole"
    BY <1>1, <1>5 DEF DropBackup, PcInv, At
  <2>2. /\ UNCHANGED lock /\ Goto(p, "dropManifest")
        /\ dir' = [dir EXCEPT !.backup[s] = "none"]
    BY <1>5, <2>1 DEF DropBackup
  <2>3. PICK t \in Task : /\ task' = [task EXCEPT ![p] = t] /\ Same(t, u)
                          /\ t.pc = "dropManifest"
    BY <2>2, Moves DEF Pc, RollbackPc
  <2>4. /\ dir' \in Directory /\ dir'.target = s /\ dir'.manifest = dir.manifest
        /\ dir'.backup = [dir.backup EXCEPT ![s] = "none"]
    BY <1>1, <2>1, <2>2 DEF Directory
  <2>5. s \in Save /\ dir'.backup[s] = "none" /\ \A x \in Save \ {s} : dir'.backup[x] = dir.backup[x]
    BY <1>1, <1>3, <2>1, <2>4, Entries DEF File
  <2>6. PriorSaveKept'
    <3>1. \A x \in owed : x \in Save
      BY <1>1 DEF Save
    <3>2. QED
      BY <1>1, <2>1, <2>4, <2>5, <3>1 DEF PriorSaveKept
  <2>7. RollbackPossible'
    BY <1>3, <2>1, <2>4 DEF RollbackPossible
  <2>8. PcInv(t)'
    BY <1>3, <2>1, <2>3, <2>4, <2>5 DEF PcInv, Same
  <2>9. QED
    BY <1>1, <1>2, <2>2, <2>3, <2>4, <2>6, <2>7, <2>8, GoesOn DEF RollbackPc
<1>6. CASE DropManifest(p)
  <2>1. /\ dir' \in Directory /\ dir'.target = dir.target /\ dir'.backup = dir.backup
        /\ dir'.manifest = NoManifest /\ lock' \in {lock, Free} /\ Finish(p)
    BY <1>1, <1>6 DEF DropManifest, Directory
  <2>2. PriorSaveKept' /\ RollbackPossible'
    BY <1>1, <2>1, Manifests DEF PriorSaveKept, RollbackPossible
  <2>3. QED
    BY <1>1, <2>1, <2>2, Ends
<1>7. CASE RollbackFails(p)
  BY <1>1, <1>7, Returns DEF RollbackFails
<1>8. QED
  BY <1>4, <1>5, <1>6, <1>7

(***************************************************************************)
(* What is not the converter's                                             *)
(***************************************************************************)
\* A kill leaves at most a file begun that nobody relies on.
LEMMA KillKeeps ==
    ASSUME Inv, NEW p \in Proc, Kill(p)
    PROVE  Inv'
<1>1. /\ Running(p) /\ Finish(p) /\ lock' \in {lock, Stale} /\ dir' \in {dir, Unfinished(p)}
      /\ UNCHANGED Outside /\ UNCHANGED <<owed, excused>>
  BY DEF Kill, Outside
<1>2. CASE dir' = dir
  <2>1. PriorSaveKept' /\ RollbackPossible' /\ dir' \in Directory
    BY <1>1, <1>2 DEF Inv, TypeOK, PriorSaveKept, RollbackPossible
  <2>2. QED
    BY <1>1, <2>1, Ends
<1>3. CASE dir' = Unfinished(p)
  BY <1>1, <1>3, UnfinishedKeeps, Ends
<1>4. QED
  BY <1>1, <1>2, <1>3

\* Neither the user, nor the emulator's start and end, nor the game's own saving
\* disturbs what a call relies on.
LEMMA OutsideKeeps ==
    ASSUME Inv, ClearStaleLock \/ Launch \/ Exit \/ (\E s \in Played : Play(s)) \/ UNCHANGED vars
    PROVE  Inv'
<1>1. /\ TypeOK /\ OneCall /\ PriorSaveKept /\ RollbackPossible /\ task' = task /\ UNCHANGED <<kind, excused>>
      /\ task \in [Proc -> Task] /\ dir \in Directory
      /\ \A p \in Proc : PcInv(task[p])
  BY DEF Inv, TypeOK, ClearStaleLock, Launch, Exit, Play, vars, Outside
<1>2. ASSUME UNCHANGED dir PROVE \A p \in Proc : PcInv(task[p])'
  <2> TAKE p \in Proc
  <2>1. PICK t \in Task : t = task[p]
    BY <1>1
  <2>2. PcInv(t)
    BY <1>1, <2>1
  <2>3. PcInv(t)'
    BY <1>1, <1>2, <2>2, StillKnown
  <2>4. QED
    BY <1>1, <2>1, <2>3
<1>3. CASE ClearStaleLock \/ Launch \/ Exit \/ UNCHANGED vars
  <2>1. UNCHANGED <<dir, kind, owed>>
    BY <1>3 DEF ClearStaleLock, Launch, Exit, vars, Outside
  <2>2. OneCall'
    <3>1. CASE ClearStaleLock
      BY <1>1, <3>1, ConvertAssumption DEF OneCall, ClearStaleLock, Outside, Running, RollingBack, At
    <3>2. CASE Launch \/ Exit \/ UNCHANGED vars
      BY <1>1, <3>2 DEF OneCall, Launch, Exit, vars, Running, RollingBack, At
    <3>3. QED
      BY <1>3, <3>1, <3>2
  <2>3. TypeOK' /\ PriorSaveKept' /\ RollbackPossible'
    BY <1>1, <1>3, <2>1
    DEF TypeOK, PriorSaveKept, RollbackPossible, ClearStaleLock, Launch, Exit, vars, Outside
  <2>4. QED
    BY <1>1, <1>2, <2>1, <2>2, <2>3 DEF Inv
<1>4. ASSUME NEW s \in Played, Play(s) PROVE Inv'
  <2>1. /\ game /\ game' = game /\ lock' = lock
        /\ owed' = (owed \ {dir.target}) \cup {s}
    BY <1>4 DEF Play
  <2>2. /\ dir' \in Directory /\ dir'.target = s /\ dir'.backup = dir.backup
        /\ dir'.manifest = dir.manifest
    BY <1>1, <1>4 DEF Play, Directory, File, Save
  <2>3. TypeOK' /\ OneCall'
    BY <1>1, <2>1, <2>2 DEF TypeOK, OneCall, Running, RollingBack, At
  <2>4. PriorSaveKept'
    BY <1>1, <2>1, <2>2 DEF PriorSaveKept
  <2>5. RollbackPossible'
    BY <1>1, <2>2, Entries, Manifests, ConvertAssumption DEF RollbackPossible
  <2>6. ASSUME NEW p \in Proc PROVE PcInv(task[p])'
    <3>1. task[p].pc \in {"idle", "planned", "locked"} /\ PcInv(task[p])
      BY <1>1, <2>1 DEF OneCall, Running, At
    <3>2. PICK t \in Task : t = task[p]
      BY <1>1
    <3>3. PcInv(t)'
      BY <3>1, <3>2 DEF PcInv, RollbackPc
    <3>4. QED
      BY <1>1, <3>2, <3>3
  <2>7. QED
    BY <1>1, <2>3, <2>4, <2>5, <2>6 DEF Inv
<1>5. QED
  BY <1>3, <1>4

(***************************************************************************)
(* The inductive invariant is one                                          *)
(***************************************************************************)
\* A directory that was never converted, and no call.
LEMMA InitInv == Init => Inv
<1> SUFFICES ASSUME Init PROVE Inv
  OBVIOUS
<1>1. NoManifest \in Manifest \cup {NoManifest} /\ Empty \in Directory
  BY DEF Empty, Directory, File
<1>2. Idle \in Task /\ Idle.pc = "idle"
  BY <1>1 DEF Idle, Task, Pc, File
<1>3. PICK f \in Played \cup {Absent} :
          dir = [Empty EXCEPT !.target = f] /\ owed = {f} \ {Absent}
  BY DEF Init
<1>4. /\ dir \in Directory /\ dir.target = f /\ dir.manifest = NoManifest
      /\ owed \subseteq Played /\ owed \subseteq {f}
  BY <1>1, <1>3 DEF Empty, Directory, File, Save
<1>5. TypeOK /\ kind \in Kind
  BY <1>2, <1>4, ConvertAssumption DEF Init, TypeOK
<1>6. OneCall
  BY <1>2 DEF Init, OneCall, Running
<1>7. PriorSaveKept /\ RollbackPossible
  BY <1>4, Manifests DEF PriorSaveKept, RollbackPossible
<1>8. PcInv(Idle)
  BY <1>2 DEF PcInv, RollbackPc
<1>9. QED
  BY <1>5, <1>6, <1>7, <1>8 DEF Inv, Init

\* Every step of every process keeps the invariant, unless it is the first to
\* overlap a slot's roll-back.
LEMMA NextInv == ASSUME Inv, [Next]_vars, Alone' PROVE Inv'
<1>1. ASSUME NEW p \in Proc, Install(p) PROVE Inv'
  BY <1>1, BeginKeeps, ReadKeeps, PrepareKeeps, ReplaceKeeps, FailKeeps, UndoManifestKeeps,
     UndoTargetKeeps, UndoBackupKeeps, UndoHistoryKeeps, RecoverKeeps, FailedKeeps DEF Install
<1>2. ASSUME NEW p \in Proc, Rollback(p) PROVE Inv'
  BY <1>2, StartRollbackKeeps, InspectKeeps, RollbackKeeps DEF Rollback
<1>3. ASSUME NEW p \in Proc, Kill(p) PROVE Inv'
  BY <1>3, KillKeeps
<1>4. QED
  BY <1>1, <1>2, <1>3, OutsideKeeps DEF Next

\* What is excused once stays excused.
LEMMA ExcusedGrows == ASSUME [Next]_vars PROVE excused \subseteq excused'
<1>1. ASSUME NEW p \in Proc, Install(p) PROVE excused \subseteq excused'
  BY <1>1
  DEF Install, DryRun, Acquire, ReadManifest, ReadTarget, Archive, Backup, Swap, Publish,
      Installed, StepFails, UndoManifest, UndoTarget, UndoBackup, UndoHistory, Recover,
      Failed, Outside, BeginsBeside, UndoFailed
<1>2. ASSUME NEW p \in Proc, Rollback(p) PROVE excused \subseteq excused'
  BY <1>2
  DEF Rollback, StartRollback, RollbackRead, Inspect, PutBack, DropBackup, DropManifest,
      RollbackFails, Outside, BeginsBeside
<1>3. QED
  BY <1>1, <1>2 DEF Next, Kill, ClearStaleLock, Launch, Exit, Play, Outside, vars

\* The inductive invariant holds until a call overlaps a slot's roll-back.
Always == Alone => Inv

\* It does in every reachable state.
THEOREM Invariance == Spec => []Always
<1>1. Init => Always
  BY InitInv DEF Always
<1>2. Always /\ [Next]_vars => Always'
  <2> SUFFICES ASSUME Always, [Next]_vars, Alone' PROVE Inv'
    BY DEF Always
  <2>1. Alone
    BY ExcusedGrows DEF Alone
  <2>2. QED
    BY <2>1, NextInv DEF Always
<1>3. QED
  BY <1>1, <1>2, PTL DEF Spec

(***************************************************************************)
(* The types, which hold whatever overlaps                                 *)
(***************************************************************************)
\* What a call must remember for its entries to be of their types.
Typed ==
    /\ TypeOK
    /\ \A p \in Proc :
           /\ task[p].pc \in {"planned"} \cup InstallPc \cup UndoPc => task[p].want \in Converted
           /\ At(p, "archive") => task[p].old \in Manifest

\* The task of one process changes, and the directory keeps its type.
LEMMA TypedStep ==
    ASSUME Typed, NEW p \in Proc, NEW t \in Task, task' = [task EXCEPT ![p] = t],
           dir' \in Directory, lock' \in Proc \cup {Free, Stale}, UNCHANGED <<kind, game, owed>>,
           excused' \subseteq {"overlap", "undoFailed"},
           t.pc \in {"planned"} \cup InstallPc \cup UndoPc => t.want \in Converted,
           t.pc = "archive" => t.old \in Manifest
    PROVE  Typed'
<1>1. /\ task \in [Proc -> Task] /\ task' \in [Proc -> Task] /\ task'[p] = t
      /\ \A q \in Proc \ {p} : task'[q] = task[q]
  BY DEF Typed, TypeOK
<1>2. TypeOK'
  BY <1>1 DEF Typed, TypeOK
<1>3. QED
  BY <1>1, <1>2 DEF Typed, At

\* A call goes on to its next step,
LEMMA TypedGoesOn ==
    ASSUME Typed, NEW p \in Proc, NEW x \in Pc,
           \/ Goto(p, x) \/ GotoBotched(p, x)
           \/ \E deed \in Deed : GotoMaking(p, x, deed),
           dir' \in Directory, lock' \in Proc \cup {Free, Stale}, UNCHANGED <<kind, game, owed>>,
           excused' \subseteq {"overlap", "undoFailed"},
           task[p].pc \in {"planned"} \cup InstallPc \cup UndoPc \/ x \in RollbackPc,
           x # "archive"
    PROVE  Typed'
<1>1. task[p] \in Task
  BY DEF Typed, TypeOK
<1>2. PICK t \in Task : /\ task' = [task EXCEPT ![p] = t]
                        /\ t.pc = x /\ t.want = task[p].want
  <2>1. CASE Goto(p, x)
    <3> DEFINE t == [task[p] EXCEPT !.pc = x]
    <3>1. task' = [task EXCEPT ![p] = t] /\ t \in Task /\ t.pc = x /\ t.want = task[p].want
      BY <1>1, <2>1 DEF Goto, Task, Typed, TypeOK
    <3>2. QED
      BY <3>1
  <2>2. CASE GotoBotched(p, x)
    <3> DEFINE t == [task[p] EXCEPT !.pc = x, !.botched = TRUE]
    <3>1. task' = [task EXCEPT ![p] = t] /\ t \in Task /\ t.pc = x /\ t.want = task[p].want
      BY <1>1, <2>2 DEF GotoBotched, Task, Typed, TypeOK
    <3>2. QED
      BY <3>1
  <2>3. ASSUME NEW deed \in Deed, GotoMaking(p, x, deed)
        PROVE  \E t \in Task : /\ task' = [task EXCEPT ![p] = t]
                               /\ t.pc = x /\ t.want = task[p].want
    <3> DEFINE t == [task[p] EXCEPT !.pc = x, !.made = @ \cup {deed}]
    <3>1. task' = [task EXCEPT ![p] = t] /\ t \in Task /\ t.pc = x /\ t.want = task[p].want
      BY <1>1, <2>3 DEF GotoMaking, Task, Typed, TypeOK
    <3>2. QED
      BY <3>1
  <2>4. QED
    BY <2>1, <2>2, <2>3
<1>3. x \in RollbackPc => x \notin {"planned"} \cup InstallPc \cup UndoPc
  BY DEF RollbackPc, InstallPc, UndoPc
<1>4. t.pc \in {"planned"} \cup InstallPc \cup UndoPc => t.want \in Converted
  BY <1>2, <1>3 DEF Typed
<1>5. QED
  BY <1>2, <1>4, TypedStep

\* or ends,
LEMMA TypedEnds ==
    ASSUME Typed, NEW p \in Proc, Finish(p),
           dir' \in Directory, lock' \in Proc \cup {Free, Stale}, UNCHANGED Outside
    PROVE  Typed'
<1>1. Idle \in Task /\ Idle.pc = "idle"
  <2>1. NoManifest \in Manifest \cup {NoManifest} /\ Empty \in Directory
    BY DEF Empty, Directory, File
  <2>2. QED
    BY <2>1 DEF Idle, Task, Pc, File
<1>2. PICK t \in Task : t = Idle
  BY <1>1
<1>3. t.pc \notin {"planned"} \cup InstallPc \cup UndoPc /\ t.pc # "archive"
  BY <1>1, <1>2 DEF InstallPc, UndoPc
<1>4. excused' \subseteq {"overlap", "undoFailed"} /\ UNCHANGED <<kind, game, owed>>
  BY DEF Typed, TypeOK, Outside
<1>5. QED
  BY <1>2, <1>3, <1>4, TypedStep DEF Finish

\* or returns.
LEMMA TypedReturns ==
    ASSUME Typed, NEW p \in Proc, Return(p), UNCHANGED Outside
    PROVE  Typed'
<1>1. Finish(p) /\ dir' \in Directory /\ lock' \in Proc \cup {Free, Stale}
  BY DEF Typed, TypeOK, Return
<1>2. QED
  BY <1>1, TypedEnds

\* What the process that takes a step remembers.
LEMMA TypedKnown ==
    ASSUME Typed, NEW p \in Proc
    PROVE  /\ dir \in Directory /\ lock \in Proc \cup {Free, Stale}
           /\ excused \subseteq {"overlap", "undoFailed"}
           /\ task[p] \in Task /\ task[p].previous \in File
           /\ task[p].old \in Manifest \cup {NoManifest} /\ task[p].old.previous \in File
           /\ task[p].pc \in {"planned"} \cup InstallPc \cup UndoPc => task[p].want \in Converted
           /\ At(p, "archive") => task[p].old \in Manifest
<1>1. /\ task[p] \in Task /\ task[p].previous \in File
      /\ task[p].old \in Manifest \cup {NoManifest}
  BY DEF Typed, TypeOK, Task
<1>2. task[p].old.previous \in File
  BY <1>1, Manifests DEF NoManifest, File
<1>3. QED
  BY <1>1, <1>2 DEF Typed, TypeOK

\* What a step leaves unfinished is a directory still.
LEMMA TypedUnfinished ==
    ASSUME Typed, NEW p \in Proc
    PROVE  Unfinished(p) \in Directory
<1> DEFINE t == task[p]
<1>1. dir \in Directory /\ (t.pc = "archive" => t.old \in Manifest)
  BY TypedKnown DEF At
<1>2. t.pc = "archive" => [dir EXCEPT !.tornHistory = @ \cup {t.old}] \in Directory
  BY <1>1 DEF Directory
<1>3. [dir EXCEPT !.backup[t.previous] = "torn"] \in Directory
  BY <1>1 DEF Directory
<1>4. [dir EXCEPT !.manifest = TornManifest] \in Directory
  BY <1>1 DEF Directory
<1>5. QED
  BY <1>1, <1>2, <1>3, <1>4 DEF Unfinished

\* The steps up to the backup.
LEMMA TypedPrepares ==
    ASSUME Typed, NEW p \in Proc,
           \/ (\E x \in Converted : DryRun(p, x)) \/ Acquire(p)
           \/ ReadManifest(p) \/ ReadTarget(p) \/ Archive(p) \/ Backup(p)
    PROVE  Typed'
<1> DEFINE u == task[p]
<1>1. /\ dir \in Directory /\ lock \in Proc \cup {Free, Stale} /\ u \in Task
      /\ excused \subseteq {"overlap", "undoFailed"} /\ u.old \in Manifest \cup {NoManifest}
      /\ u.pc \in {"planned"} \cup InstallPc \cup UndoPc => u.want \in Converted
      /\ u.pc = "archive" => u.old \in Manifest
  BY TypedKnown DEF At
<1>2. ASSUME NEW x \in Converted, DryRun(p, x) PROVE Typed'
  <2> DEFINE e == [Idle EXCEPT !.pc = "planned", !.want = x, !.seen = dir.target]
  <2>1. e \in Task /\ e.want = x /\ e.pc = "planned"
    <3>1. NoManifest \in Manifest \cup {NoManifest} /\ Empty \in Directory
      BY DEF Empty, Directory, File
    <3>2. x \in File /\ dir.target \in File
      BY <1>1, Entries DEF File, Save
    <3>3. QED
      BY <3>1, <3>2 DEF Idle, Task, Pc, File
  <2>2. PICK t \in Task : t = e
    BY <2>1
  <2>3. task' = [task EXCEPT ![p] = t] /\ UNCHANGED <<dir, lock, kind, game, owed, excused>>
    BY <1>2, <2>2 DEF DryRun, Outside
  <2>4. QED
    BY <1>1, <2>1, <2>2, <2>3, TypedStep
<1>3. CASE Acquire(p)
  <2>1. CASE Goto(p, "locked") /\ lock' = p /\ BeginsBeside({q \in Proc : Running(q)})
    BY <1>1, <1>3, <2>1, TypedGoesOn DEF Acquire, At, Pc, InstallPc, BeginsBeside
  <2>2. CASE Finish(p) /\ UNCHANGED <<lock, excused>>
    BY <1>1, <1>3, <2>2, TypedEnds DEF Acquire, Outside
  <2>3. QED
    BY <1>3, <2>1, <2>2 DEF Acquire
<1>4. CASE ReadManifest(p)
  <2>1. CASE Return(p)
    BY <1>4, <2>1, TypedReturns DEF ReadManifest
  <2>2. CASE ~Return(p)
    <3> DEFINE e == [u EXCEPT !.pc = "read", !.old = dir.manifest]
    <3>1. /\ u.pc = "locked" /\ Replaceable(dir.manifest) /\ task' = [task EXCEPT ![p] = e]
          /\ UNCHANGED <<dir, lock, kind, game, owed, excused>>
      BY <1>4, <2>2 DEF ReadManifest, At, Outside
    <3>2. dir.manifest \in Manifest \cup {NoManifest}
      BY <1>1, <3>1, Entries DEF Replaceable
    <3>3. e \in Task /\ e.pc = "read" /\ e.want = u.want
      BY <1>1, <3>2 DEF Task, Pc, InstallPc
    <3>4. PICK t \in Task : t = e
      BY <3>3
    <3>5. u.want \in Converted
      BY <1>1, <3>1 DEF InstallPc
    <3> HIDE DEF e
    <3>6. QED
      BY <1>1, <3>1, <3>3, <3>4, <3>5, TypedStep
  <2>3. QED
    BY <2>1, <2>2
<1>5. CASE ReadTarget(p)
  <2>1. CASE Return(p)
    BY <1>5, <2>1, TypedReturns DEF ReadTarget
  <2>2. CASE ~Return(p)
    <3> DEFINE at == IF u.old # NoManifest THEN "archive"
                     ELSE IF dir.target # Absent THEN "backup" ELSE "stage"
               e == [u EXCEPT !.previous = dir.target, !.before = dir, !.pc = at]
    <3>1. /\ u.pc = "read" /\ task' = [task EXCEPT ![p] = e]
          /\ UNCHANGED <<dir, lock, kind, game, owed, excused>>
      BY <1>5, <2>2 DEF ReadTarget, At, Outside
    <3>2. at \in {"archive", "backup", "stage"} /\ (at = "archive" => u.old \in Manifest)
      BY <1>1
    <3> HIDE DEF at
    <3>3. e \in Task /\ e.pc = at /\ e.want = u.want /\ e.old = u.old
      BY <1>1, <3>2, Entries DEF Task, Pc, InstallPc
    <3>4. PICK t \in Task : t = e
      BY <3>3
    <3>5. u.want \in Converted
      BY <1>1, <3>1 DEF InstallPc
    <3> HIDE DEF e
    <3>6. QED
      BY <1>1, <3>1, <3>2, <3>3, <3>4, <3>5, TypedStep
  <2>3. QED
    BY <2>1, <2>2
<1>6. CASE Archive(p)
  <2>1. AfterArchive(p) \in Pc /\ AfterArchive(p) # "archive" /\ "history" \in Deed
    BY DEF AfterArchive, Pc, InstallPc, Deed
  <2>2. /\ u.pc = "archive" /\ UNCHANGED <<lock, kind, game, owed, excused>>
        /\ Goto(p, AfterArchive(p)) \/ GotoMaking(p, AfterArchive(p), "history")
        /\ dir' \in {dir, [dir EXCEPT !.history = @ \cup {u.old}]}
    BY <1>6 DEF Archive, At, Outside
  <2>3. dir' \in Directory
    BY <1>1, <2>2 DEF Directory
  <2>4. QED
    BY <1>1, <2>1, <2>2, <2>3, TypedGoesOn DEF InstallPc
<1>7. CASE Backup(p)
  <2>1. /\ u.pc = "backup" /\ UNCHANGED <<lock, kind, game, owed, excused>>
        /\ Goto(p, "stage") \/ GotoMaking(p, "stage", "backup")
        /\ dir' \in {dir, [dir EXCEPT !.backup[u.previous] = "whole"]}
    BY <1>7 DEF Backup, At, Outside
  <2>2. dir' \in Directory
    BY <1>1, <2>1 DEF Directory
  <2>3. QED
    BY <1>1, <2>1, <2>2, TypedGoesOn DEF Pc, InstallPc, Deed
<1>8. QED
  BY <1>2, <1>3, <1>4, <1>5, <1>6, <1>7

\* The steps from the exchange on.
LEMMA TypedInstalls ==
    ASSUME Typed, NEW p \in Proc,
           \/ Swap(p) \/ Publish(p) \/ Installed(p) \/ StepFails(p)
           \/ UndoManifest(p) \/ UndoTarget(p) \/ UndoBackup(p) \/ UndoHistory(p)
           \/ Recover(p) \/ Failed(p)
    PROVE  Typed'
<1> DEFINE u == task[p]
<1>1. /\ dir \in Directory /\ lock \in Proc \cup {Free, Stale}
      /\ excused \subseteq {"overlap", "undoFailed"} /\ u.old \in Manifest \cup {NoManifest}
      /\ u.pc \in InstallPc \cup UndoPc => u.want \in Converted
      /\ u.pc = "archive" => u.old \in Manifest
      /\ u.previous \in File /\ Unfinished(p) \in Directory
  BY TypedKnown, TypedUnfinished DEF At
<1>2. Deed = {"history", "backup", "target", "manifest"} /\ FirstUndo \in UndoPc
      /\ UndoPc \subseteq Pc /\ InstallPc \subseteq Pc
      /\ "archive" \notin UndoPc /\ "archive" \notin {"publish", "sync"}
      /\ {"publish", "sync"} \subseteq InstallPc
  BY DEF Deed, FirstUndo, UndoPc, Pc, InstallPc
<1>3. ASSUME NEW x \in UndoPc \cup {"publish", "sync"}, u.pc \in InstallPc \cup UndoPc,
             \/ Goto(p, x) \/ GotoBotched(p, x)
             \/ \E deed \in Deed : GotoMaking(p, x, deed),
             dir' \in Directory, UNCHANGED <<lock, kind, game, owed>>,
             excused' \subseteq {"overlap", "undoFailed"}
      PROVE  Typed'
  BY <1>1, <1>2, <1>3, TypedGoesOn
<1>4. ASSUME u.pc \in InstallPc \cup UndoPc
      PROVE  /\ [dir EXCEPT !.target = u.want] \in Directory
             /\ [dir EXCEPT !.manifest = Recorded(u.want, u.previous)] \in Directory
             /\ [dir EXCEPT !.manifest = u.old] \in Directory
             /\ TargetBack(p) \in Directory
             /\ [dir EXCEPT !.backup[u.previous] = "none"] \in Directory
             /\ [dir EXCEPT !.history = @ \ {u.old}] \in Directory
             /\ u.pc = "archive" => [dir EXCEPT !.history = @ \cup {u.old}] \in Directory
  <2>1. u.want \in Converted /\ Recorded(u.want, u.previous) \in Manifest
    BY <1>1, <1>4, Manifests
  <2>2. QED
    BY <1>1, <2>1 DEF Directory, TargetBack, File, Save
<1>5. CASE Swap(p)
  BY <1>1, <1>2, <1>3, <1>4, <1>5 DEF Swap, At, InstallPc, Outside
<1>6. CASE Publish(p)
  BY <1>1, <1>2, <1>3, <1>4, <1>6 DEF Publish, At, InstallPc, Outside
<1>7. CASE Installed(p)
  BY <1>7, TypedReturns DEF Installed
<1>8. CASE StepFails(p)
  BY <1>1, <1>2, <1>3, <1>4, <1>8 DEF StepFails, WriteFails, At, InstallPc, Outside
<1>9. CASE UndoManifest(p)
  BY <1>1, <1>2, <1>3, <1>4, <1>9 DEF UndoManifest, At, UndoPc, Outside
<1>10. CASE UndoTarget(p)
  BY <1>1, <1>2, <1>3, <1>4, <1>10 DEF UndoTarget, UndoFailed, At, UndoPc, InstallPc
<1>11. CASE UndoBackup(p)
  BY <1>1, <1>2, <1>3, <1>4, <1>11 DEF UndoBackup, At, UndoPc, Outside
<1>12. CASE UndoHistory(p)
  BY <1>1, <1>2, <1>3, <1>4, <1>12 DEF UndoHistory, At, UndoPc, Outside
<1>13. CASE Recover(p)
  BY <1>1, <1>2, <1>3, <1>4, <1>13 DEF Recover, WriteFails, At, UndoPc, Outside
<1>14. CASE Failed(p)
  BY <1>14, TypedReturns DEF Failed
<1>15. QED
  BY <1>5, <1>6, <1>7, <1>8, <1>9, <1>10, <1>11, <1>12, <1>13, <1>14

\* The steps of a roll-back.
LEMMA TypedRollsBack ==
    ASSUME Typed, NEW p \in Proc, Rollback(p)
    PROVE  Typed'
<1> DEFINE u == task[p]
<1>1. /\ dir \in Directory /\ lock \in Proc \cup {Free, Stale} /\ u \in Task
      /\ excused \subseteq {"overlap", "undoFailed"} /\ u.old.previous \in File
  BY TypedKnown
<1>2. RollbackPc = {"rollback", "inspect", "putBack", "dropBackup", "dropManifest"}
      /\ RollbackPc \subseteq Pc /\ "archive" \notin RollbackPc
  BY DEF RollbackPc, Pc
<1>3. CASE StartRollback(p)
  BY <1>1, <1>2, <1>3, TypedGoesOn DEF StartRollback, BeginsBeside
<1>4. CASE RollbackRead(p)
  <2>1. CASE Return(p)
    BY <1>4, <2>1, TypedReturns DEF RollbackRead
  <2>2. CASE ~Return(p)
    <3> DEFINE e == [u EXCEPT !.pc = "inspect", !.old = dir.manifest]
    <3>1. /\ dir.manifest.state = "whole" /\ task' = [task EXCEPT ![p] = e]
          /\ UNCHANGED <<dir, lock, kind, game, owed, excused>>
      BY <1>4, <2>2 DEF RollbackRead, Outside
    <3>2. e \in Task /\ e.pc = "inspect"
      BY <1>1, <1>2, <3>1, Entries DEF Task
    <3>3. PICK t \in Task : t = e
      BY <3>2
    <3> HIDE DEF e
    <3>4. t.pc \notin {"planned"} \cup InstallPc \cup UndoPc /\ t.pc # "archive"
      BY <3>2, <3>3 DEF InstallPc, UndoPc
    <3>5. QED
      BY <1>1, <3>1, <3>3, <3>4, TypedStep
  <2>3. QED
    BY <2>1, <2>2
<1>5. CASE Inspect(p)
  <2>1. CASE Return(p)
    BY <1>5, <2>1, TypedReturns DEF Inspect
  <2>2. CASE ~Return(p)
    <3>1. RollbackPlan(u.old, dir) \in RollbackPc \cup {"error"}
      BY <1>2 DEF RollbackPlan
    <3>2. QED
      BY <1>1, <1>2, <1>5, <2>2, <3>1, TypedGoesOn DEF Inspect, Outside
  <2>3. QED
    BY <2>1, <2>2
<1>6. CASE PutBack(p)
  <2>1. [dir EXCEPT !.target = u.old.previous] \in Directory
    BY <1>1 DEF Directory
  <2>2. QED
    BY <1>1, <1>2, <1>6, <2>1, TypedGoesOn DEF PutBack, Outside
<1>7. CASE DropBackup(p)
  <2>1. CASE Return(p)
    BY <1>7, <2>1, TypedReturns DEF DropBackup
  <2>2. CASE ~Return(p)
    <3>1. [dir EXCEPT !.backup[u.old.previous] = "none"] \in Directory
      BY <1>1 DEF Directory
    <3>2. QED
      BY <1>1, <1>2, <1>7, <2>2, <3>1, TypedGoesOn DEF DropBackup, Outside
  <2>3. QED
    BY <2>1, <2>2
<1>8. CASE DropManifest(p)
  <2>1. [dir EXCEPT !.manifest = NoManifest] \in Directory
    BY <1>1 DEF Directory
  <2>2. QED
    BY <1>1, <1>8, <2>1, TypedEnds DEF DropManifest
<1>9. CASE RollbackFails(p)
  BY <1>9, TypedReturns DEF RollbackFails
<1>10. QED
  BY <1>3, <1>4, <1>5, <1>6, <1>7, <1>8, <1>9 DEF Rollback

\* Every step keeps the types, an overlapping one too.
LEMMA TypedNext == ASSUME Typed, [Next]_vars PROVE Typed'
<1>1. ASSUME NEW p \in Proc, Install(p) PROVE Typed'
  BY <1>1, TypedPrepares, TypedInstalls DEF Install
<1>2. ASSUME NEW p \in Proc, Rollback(p) PROVE Typed'
  BY <1>2, TypedRollsBack
<1>3. ASSUME NEW p \in Proc, Kill(p) PROVE Typed'
  BY <1>3, TypedKnown, TypedUnfinished, TypedEnds DEF Kill
<1>4. CASE ClearStaleLock \/ Launch \/ Exit \/ UNCHANGED vars
  BY <1>4 DEF ClearStaleLock, Launch, Exit, vars, Outside, Typed, TypeOK, At
<1>5. ASSUME NEW s \in Played, Play(s) PROVE Typed'
  <2>1. dir' \in Directory
    BY <1>5 DEF Play, Typed, TypeOK, Directory, File, Save
  <2>2. QED
    BY <1>5, <2>1 DEF Play, Typed, TypeOK, At
<1>6. QED
  BY <1>1, <1>2, <1>3, <1>4, <1>5 DEF Next

(***************************************************************************)
(* The theorems                                                            *)
(***************************************************************************)
\* The type invariant.
THEOREM TypeCorrect == Spec => []TypeOK
<1>1. Init => Typed
  <2> SUFFICES ASSUME Init PROVE Typed
    OBVIOUS
  <2>1. TypeOK
    BY InitInv DEF Inv
  <2>2. \A p \in Proc : task[p].pc = "idle"
    BY DEF Init, Idle
  <2>3. QED
    BY <2>1, <2>2 DEF Typed, At, InstallPc, UndoPc
<1>2. Typed => TypeOK
  BY DEF Typed
<1>3. QED
  BY <1>1, <1>2, TypedNext, PTL DEF Spec

\* Whatever calls are made, killed and fail, a save of the player's that is not in
\* its place any more is whole in a backup, as long as no slot is excused.
THEOREM SavesKept == Spec => []PriorSaveKept
<1>1. Always => PriorSaveKept
  BY DEF Always, Alone, Inv, PriorSaveKept
<1>2. QED
  BY <1>1, Invariance, PTL

\* An installation that is in place can be rolled back, as long as no slot is
\* excused.
THEOREM CanRollBack == Spec => []RollbackPossible
<1>1. Always => RollbackPossible
  BY DEF Always, Alone, Inv, RollbackPossible
<1>2. QED
  BY <1>1, Invariance, PTL

\* A roll-back that is killed after it has put the save back can be made again.
THEOREM KilledRollbackFinishes == Spec => []KilledRollbackCanFinish
<1>1. Always => KilledRollbackCanFinish
  <2> SUFFICES ASSUME Inv, NEW p \in Proc, task[p].pc \in {"dropBackup", "dropManifest"},
                      task[p].old.installed # task[p].old.previous
               PROVE  RollbackPlan(task[p].old, dir) # "error"
    BY DEF KilledRollbackCanFinish, Always
  <2> DEFINE m == task[p].old
  <2>1. /\ dir.target = m.previous
        /\ m.previous # Absent => dir.backup[m.previous] \in {"none", "whole"}
    BY Known DEF PcInv
  <2>2. QED
    BY <2>1 DEF RollbackPlan
<1>2. QED
  BY <1>1, Invariance, PTL

\* An installation that fails, and whose undoing does not, has undone everything.
THEOREM FailureRestores == Spec => []FailedInstallRestores
<1>1. Always => FailedInstallRestores
  BY Known DEF Always, FailedInstallRestores, PcInv, Undone, At
<1>2. QED
  BY <1>1, Invariance, PTL

\* The user saw the save that an installation replaces, the call read it, and it is
\* whole in a backup.
THEOREM OnlySeen == Spec => SwapsOnlyWhatWasSeen
<1> DEFINE Seen(p) == /\ dir.target = task[p].seen
                      /\ dir.target = task[p].previous
                      /\ dir.target = Absent \/ dir.backup[dir.target] = "whole"
<1>1. ASSUME Inv, NEW p \in Proc, At(p, "stage") PROVE Seen(p)
  BY <1>1, Known DEF PcInv, Forward, Sole, TargetKnown, At
<1>2. Always /\ [Next]_vars =>
          [\A p \in Proc : Alone /\ At(p, "stage") /\ task'[p].pc = "publish" => Seen(p)]_vars
  BY <1>1 DEF Always
<1>3. QED
  BY <1>2, Invariance, PTL DEF Spec, SwapsOnlyWhatWasSeen
=============================================================================
