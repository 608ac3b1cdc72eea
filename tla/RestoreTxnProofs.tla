-------------------------- MODULE RestoreTxnProofs --------------------------
(***************************************************************************)
(* For any processes, contents and bounds, the restore transaction keeps   *)
(* every invariant of RestoreTxn and implements AtomicReplace, as long as  *)
(* no client launches the game during a call (GatedLaunch) and, where a    *)
(* power loss reorders directory changes, those of a killed call are on    *)
(* disk before the next one starts (WrittenBack).                          *)
(***************************************************************************)
EXTENDS RestoreTxn, TLAPS

(***************************************************************************)
(* The inductive invariant                                                 *)
(***************************************************************************)
IsWhole(t) == t \in {Whole(r) : r \in Rev}

\* What each phase of the journal says of the directory, whoever was killed and
\* whatever power loss brought it back.  The target is never torn: it is only
\* ever renamed.
DirInv(d) ==
    /\ d.target \in Settled
    /\ d.backup \in Settled \cup {Torn}
    /\ d.journal.phase = "none" => d.journal = NoJournal
    /\ d.journal.phase = "stage-complete" =>
           IF d.journal.existed THEN Exists(d.target) \/ IsWhole(d.backup)
                                ELSE ~Exists(d.target)
    /\ d.journal.phase = "target-backed-up" =>
           IF Exists(d.target) THEN Installed(d) \/ (d.journal.existed /\ d.backup = Absent)
                               ELSE d.journal.existed => IsWhole(d.backup)
    /\ d.journal.phase = "stage-installed" => Installed(d)

\* A power loss may undo one restore at most, and it does not take a backup
\* away unless it puts it in the target's place.
LostInv ==
    /\ \A d \in lost : DirInv(d)
    /\ \A d, e \in lost : Save(d) \in {Save(dir), Save(e)} \/ Save(e) = Save(dir)
    /\ IsWhole(dir.backup) => \A d \in lost : dir.backup \in {d.backup, d.target}

\* A recovery may still run beside the game; it finds nothing but a stage.
GameInv ==
    game = "running" =>
        /\ dir.journal = NoJournal
        /\ \A p \in Proc : want[p] = NoRev
        /\ \A d \in lost : /\ d.target = dir.target
                           /\ d.backup = dir.backup
                           /\ d.journal = dir.journal

Waiting == {"idle", "waiting"}
LockInv == \A p \in Proc : pc[p] \notin Waiting <=> holder = p

\* The stage holds what is to be installed, and the journal says so.
Staged(p, phase) ==
    /\ want[p] \in Rev
    /\ dir.stage = Whole(want[p])
    /\ dir.journal.phase = phase
    /\ dir.journal.expected = want[p]
InPlace(p, phase) ==
    /\ want[p] \in Rev
    /\ dir.target = Whole(want[p])
    /\ dir.stage = Absent
    /\ dir.journal.phase = phase
    /\ dir.journal.expected = want[p]
Aside == ~Exists(dir.target) /\ (dir.journal.existed => IsWhole(dir.backup))
\* What can come back differs from the directory in its stage only, or in its
\* backup only.
BesideStage == \A e \in lost : /\ e.target = dir.target /\ e.backup = dir.backup
                               /\ e.journal = dir.journal
BesideBackup == \A e \in lost : /\ e.target = dir.target /\ e.stage = dir.stage
                                /\ e.journal = dir.journal
NoneRecorded(p) == want[p] \in Rev /\ dir.journal = NoJournal

\* What the holder of the lock knows of the directory at each of its steps.
PcInv(p) ==
    LET at == pc[p] IN
    /\ at = "idle" => want[p] = NoRev
    /\ at # "discard"
    /\ at \in {"rollback", "putBack"} =>
           /\ ~Exists(dir.target) /\ IsWhole(dir.backup)
           /\ dir.journal.existed /\ dir.journal.phase # "none"
    /\ at = "syncRollback" =>
           dir.journal.phase # "none" /\ Exists(dir.target) /\ dir.backup = Absent
    /\ at \in {"sweepStage", "sweepJournal"} =>
           (dir.journal.existed => Exists(dir.target))
    /\ at = "sweepJournal" => dir.journal.phase # "none"
    /\ at \in {"syncSweep", "recovered"} => dir.journal = NoJournal
    /\ at = "fill" => NoneRecorded(p)
    /\ at = "syncTree" => NoneRecorded(p) /\ dir.stage = Soft(want[p])
    /\ at = "journalStage" => NoneRecorded(p) /\ dir.stage = Whole(want[p])
    /\ at \in {"syncStage", "clearBackup", "setAside"} =>
           Staged(p, "stage-complete") /\ dir.journal.existed = Exists(dir.target)
    /\ at \in {"clearBackup", "setAside"} => \A d \in lost : d.target = dir.target
    /\ at = "setAside" => dir.backup = Absent
    /\ at \in {"recover", "rollback", "putBack", "journalInstall"} => ordered \/ lost = {}
    /\ at \in {"sweepStage", "sweepJournal", "recovered", "fill", "syncTree", "journalStage"} =>
           ordered \/ BesideStage
    /\ at \in {"clearBackup", "setAside", "journalAside"} => ordered \/ BesideBackup
    /\ at = "journalAside" /\ dir.journal.existed => ordered \/ lost = {}
    /\ at \in {"syncAside", "journalAside"} => Staged(p, "stage-complete") /\ Aside
    /\ at \in {"syncJournal", "install"} => Staged(p, "target-backed-up") /\ Aside
    /\ at = "install" => lost = {}
    /\ at \in {"syncInstall", "journalInstall"} => InPlace(p, "target-backed-up")
    /\ at \in {"syncInstalled", "dropJournal"} => InPlace(p, "stage-installed")
    /\ at = "dropJournal" => lost = {}
    /\ at = "syncDrop" =>
           /\ NoneRecorded(p) /\ dir.target = Whole(want[p])
           /\ \A d \in lost : Save(d) = Save(dir)

Inv ==
    /\ TypeOK
    /\ LockInv
    /\ GameInv
    /\ DirInv(dir)
    /\ LostInv
    /\ holder # NoProc => outcome = "none"
    /\ StageCompleteAlwaysRecovers
    /\ \A p \in Proc : PcInv(p)

(***************************************************************************)
(* What recovery makes of a directory                                      *)
(***************************************************************************)
\* The only errors left to recovery are those of a rollback without a backup,
\* and the logical content is the target, or the backup in its place.
LEMMA PlanOf ==
    ASSUME NEW d \in Directory, DirInv(d)
    PROVE  /\ Plan(d) \in {"sweepStage", "putBack", "rollback", "noBackup"}
           /\ Plan(d) = "sweepStage" => (d.journal.existed => Exists(d.target))
           /\ Plan(d) \in {"putBack", "rollback"} =>
                  /\ ~Exists(d.target) /\ IsWhole(d.backup)
                  /\ d.journal.existed /\ d.journal.phase # "none"
           /\ Save(d) = IF d.journal.existed /\ ~Exists(d.target) THEN d.backup ELSE d.target
           /\ Save(d) \in Settled
<1>1. /\ d.journal.phase \in Phase /\ d.journal.existed \in BOOLEAN
      /\ d.target \in Settled /\ d.backup \in Settled \cup {Torn}
  BY DEF Directory, Journal, DirInv
<1>2. \A r \in Rev : Exists(Whole(r)) /\ Whole(r) # Absent /\ Whole(r) # Torn
  BY DEF Exists, Whole, Absent, Torn
<1>3. ~Exists(Absent) /\ Exists(Torn)
  BY DEF Exists, Absent, Torn
<1>4. \A t : IsWhole(t) => Exists(t) /\ t \in Settled
  BY <1>2 DEF IsWhole, Settled
<1>5. CASE d.journal.phase = "none"
  BY <1>1, <1>5 DEF DirInv, Plan, Save, NoJournal
<1>6. CASE d.journal.phase = "stage-complete"
  BY <1>1, <1>4, <1>6 DEF DirInv, Plan, Save, StageCompletePlan
<1>7. CASE d.journal.phase = "target-backed-up"
  BY <1>1, <1>3, <1>4, <1>7 DEF DirInv, Plan, Save, RollbackPlan, Installed
<1>8. CASE d.journal.phase = "stage-installed"
  BY <1>1, <1>8 DEF DirInv, Plan, Save, Installed
<1>9. QED
  BY <1>1, <1>5, <1>6, <1>7, <1>8 DEF Phase

\* A power loss tears only the stage, which changes nothing for recovery.
LEMMA LossKeeps ==
    ASSUME NEW d \in Directory, DirInv(d)
    PROVE  /\ Survivor(d) \in Directory
           /\ Survivor(d).target = d.target /\ Survivor(d).backup = d.backup
           /\ Survivor(d).journal = d.journal
           /\ DirInv(Survivor(d)) /\ Save(Survivor(d)) = Save(d)
<1>1. d.target \in Tree /\ d.backup \in Tree /\ d.stage \in Tree
  BY DEF Directory
<1>2. \A t \in Tree : AfterLoss(t) \in Tree /\ (Exists(AfterLoss(t)) <=> Exists(t))
  BY DEF AfterLoss, Tree, Torn, Exists
<1>3. \A t \in Settled \cup {Torn} : AfterLoss(t) = t
  BY DEF Settled, Absent, Torn, Whole, AfterLoss
<1>4. /\ Survivor(d).target = d.target /\ Survivor(d).backup = d.backup
      /\ Survivor(d).stage = AfterLoss(d.stage) /\ Survivor(d).journal = d.journal
      /\ Survivor(d) \in Directory
  BY <1>1, <1>2, <1>3 DEF Survivor, Directory, DirInv
<1>5. Installed(Survivor(d)) <=> Installed(d)
  BY <1>1, <1>2, <1>4 DEF Installed
<1>6. DirInv(Survivor(d))
  BY <1>4, <1>5 DEF DirInv
<1>7. QED
  BY <1>4, <1>6, PlanOf

(***************************************************************************)
(* What every step needs                                                   *)
(***************************************************************************)
\* A step that leaves the logical content alone, and what a power loss makes of
\* it or would have.
Quietly ==
    /\ Save(dir') = Save(dir) /\ game' = game
    /\ \/ lost \subseteq lost' /\ \A e \in lost' : e \in lost \/ Save(e) = Save(dir)
       \/ lost' = {} /\ (want' = want \/ \A d \in lost : Save(d) = Save(dir))

\* e stands for the same folder as the directory d of the next state.
Alike(e, d) ==
    /\ e \in Directory /\ DirInv(e) /\ Save(e) = Save(dir)
    /\ IsWhole(d.backup) => d.backup \in {e.backup, e.target}
    /\ game = "running" => /\ e.target = d.target /\ e.backup = d.backup
                           /\ e.journal = d.journal

\* Whatever a step to d lets come back besides is the directory it changed, or
\* stands for the same folder.
Recalls(d) ==
    \/ lost' = {}
    \/ /\ lost \subseteq lost'
       /\ \A e \in lost' : e \in lost \cup {dir} \/ Alike(e, d)

\* So it is when the change is forgotten, and when it overtakes earlier ones.
LEMMA Recalled ==
    ASSUME NEW d \in Directory, Becomes(d),
           ~ordered /\ d # dir => \A e \in lost : Alike(Overtaking(d, e), d)
    PROVE  dir' = d /\ Recalls(d) /\ ordered' = ordered
BY DEF Becomes, Recalls

\* A change that overtakes an earlier one, entry by entry.
LEMMA OvertakingIs ==
    ASSUME NEW d \in Directory, NEW e \in Directory
    PROVE  LET o == Overtaking(d, e) IN
           /\ o \in Directory
           /\ o.target = IF d.target # dir.target THEN d.target ELSE e.target
           /\ o.backup = IF d.backup # dir.backup THEN d.backup ELSE e.backup
           /\ o.stage = IF d.stage # dir.stage THEN d.stage ELSE e.stage
           /\ o.journal = IF d.journal # dir.journal THEN d.journal ELSE e.journal
BY DEF Overtaking, Directory

\* Directories that agree in every entry are the same.
LEMMA SameDirectory ==
    ASSUME NEW d \in Directory, NEW e \in Directory, d.target = e.target,
           d.backup = e.backup, d.stage = e.stage, d.journal = e.journal
    PROVE  d = e
BY DEF Directory

\* A change of one entry, in the only entry in which anything else can come back,
\* is the same whether it overtakes or not.
LEMMA OneEntry ==
    ASSUME Inv, NEW d \in Directory, Becomes(d), DirInv(d), Save(d) = Save(dir),
           d.target = dir.target, d.journal = dir.journal,
           \/ d.backup = dir.backup /\ (ordered \/ BesideStage)
           \/ d.stage = dir.stage /\ (ordered \/ BesideBackup)
    PROVE  dir' = d /\ Recalls(d) /\ ordered' = ordered
<1>1. dir \in Directory /\ lost \subseteq Directory
  BY DEF Inv, TypeOK
<1>2. ASSUME ~ordered, d # dir, NEW e \in lost PROVE Alike(Overtaking(d, e), d)
  <2>1. d.stage # dir.stage \/ d.backup # dir.backup
    BY <1>1, <1>2, SameDirectory
  <2>2. Overtaking(d, e) = d
    <3> DEFINE o == Overtaking(d, e)
    <3>1. /\ o \in Directory
          /\ o.target = IF d.target # dir.target THEN d.target ELSE e.target
          /\ o.backup = IF d.backup # dir.backup THEN d.backup ELSE e.backup
          /\ o.stage = IF d.stage # dir.stage THEN d.stage ELSE e.stage
          /\ o.journal = IF d.journal # dir.journal THEN d.journal ELSE e.journal
      BY <1>1, <1>2, OvertakingIs
    <3> HIDE DEF o
    <3>2. o = d
      BY <1>2, <2>1, <3>1, SameDirectory DEF BesideStage, BesideBackup
    <3>3. QED
      BY <3>2 DEF o
  <2>3. QED
    BY <2>2 DEF Alike
<1>3. QED
  BY <1>2, Recalled

\* What can come back still differs in the stage only when the stage changes.
LEMMA StillBesideStage ==
    ASSUME Inv, NEW d \in Directory, Becomes(d), ordered \/ BesideStage,
           d.target = dir.target, d.backup = dir.backup, d.journal = dir.journal
    PROVE  (ordered \/ BesideStage)'
<1>1. lost \subseteq Directory
  BY DEF Inv, TypeOK
<1>2. CASE ordered
  BY <1>2 DEF Becomes
<1>3. ASSUME ~ordered, NEW e \in lost'
      PROVE  e.target = d.target /\ e.backup = d.backup /\ e.journal = d.journal
  <2>1. CASE e \in lost \cup {dir}
    BY <1>3, <2>1 DEF BesideStage
  <2>2. ASSUME NEW f \in lost, e = Overtaking(d, f)
        PROVE  e.target = d.target /\ e.backup = d.backup /\ e.journal = d.journal
    BY <1>1, <1>3, <2>2, OvertakingIs DEF BesideStage
  <2>3. QED
    BY <1>3, <2>1, <2>2 DEF Becomes
<1>4. QED
  BY <1>2, <1>3 DEF Becomes, BesideStage

\* What can come back still has the target when only the backup changes, and
\* still differs in the backup only.
LEMMA StillBesideBackup ==
    ASSUME Inv, NEW d \in Directory, Becomes(d), ordered \/ BesideBackup,
           \A e \in lost : e.target = dir.target,
           d.target = dir.target, d.stage = dir.stage, d.journal = dir.journal
    PROVE  (ordered \/ BesideBackup)' /\ \A e \in lost' : e.target = dir'.target
<1>1. lost \subseteq Directory
  BY DEF Inv, TypeOK
<1>2. CASE ordered
  BY <1>2 DEF Becomes
<1>3. ASSUME ~ordered, NEW e \in lost'
      PROVE  e.target = d.target /\ e.stage = d.stage /\ e.journal = d.journal
  <2>1. CASE e \in lost \cup {dir}
    BY <1>3, <2>1 DEF BesideBackup
  <2>2. ASSUME NEW f \in lost, e = Overtaking(d, f)
        PROVE  e.target = d.target /\ e.stage = d.stage /\ e.journal = d.journal
    BY <1>1, <1>3, <2>2, OvertakingIs DEF BesideBackup
  <2>3. QED
    BY <1>3, <2>1, <2>2 DEF Becomes
<1>4. QED
  BY <1>2, <1>3 DEF Becomes, BesideBackup

\* A journal may be on disk, or gone from it, before the stage: it says the same
\* of the target either way.
LEMMA JournalOvertakes ==
    ASSUME Inv, NEW d \in Directory, Becomes(d), Save(d) = Save(dir),
           ordered \/ BesideStage, game # "running",
           d.target = dir.target, d.backup = dir.backup, d.stage = dir.stage,
           d.journal # dir.journal,
           \/ d.journal = NoJournal
           \/ d.journal.phase = "stage-complete" /\ d.journal.existed = Exists(dir.target)
    PROVE  dir' = d /\ Recalls(d) /\ ordered' = ordered
<1>1. dir \in Directory /\ lost \subseteq Directory /\ DirInv(dir)
  BY DEF Inv, TypeOK
<1>2. ASSUME ~ordered, NEW e \in lost PROVE Alike(Overtaking(d, e), d)
  <2> DEFINE o == Overtaking(d, e)
  <2>1. o \in Directory /\ o.target = d.target /\ o.backup = d.backup /\ o.journal = d.journal
    BY <1>1, <1>2, OvertakingIs DEF BesideStage
  <2> HIDE DEF o
  <2>2. DirInv(o) /\ DirInv(d)
    BY <1>1, <2>1 DEF DirInv, NoJournal
  <2>3. Save(o) = Save(d)
    BY <2>1, <2>2, PlanOf
  <2>4. QED
    BY <2>1, <2>2, <2>3 DEF Alike, o
<1>3. QED
  BY <1>2, Recalled

\* A step that changes the directory without changing its logical content.
LEMMA WorldKept ==
    ASSUME Inv, NEW d \in Directory, dir' = d,
           Recalls(d), ordered' = ordered,
           game' = game, \A q \in Proc : want'[q] \in {want[q], NoRev},
           DirInv(d), Save(d) = Save(dir),
           game = "running" =>
               d.target = dir.target /\ d.backup = dir.backup /\ d.journal = dir.journal,
           IsWhole(d.backup) =>
               \/ d.backup = dir.backup /\ d.target = dir.target
               \/ d.backup = dir.target /\ \A e \in lost : e.target = dir.target
    PROVE  DirInv(dir)' /\ LostInv' /\ GameInv' /\ dir' \in Directory /\ lost' \subseteq Directory
<1>1. DirInv(dir)' /\ dir' \in Directory /\ lost' \subseteq Directory
  BY DEF Inv, TypeOK, Recalls, Alike
<1>2. LostInv'
  <2>1. \A e \in lost' : DirInv(e)
    BY DEF Inv, LostInv, Recalls, Alike
  <2>2. \A e, f \in lost' : Save(e) \in {Save(dir'), Save(f)} \/ Save(f) = Save(dir')
    BY DEF Inv, LostInv, Recalls, Alike
  <2>3. IsWhole(dir'.backup) => \A e \in lost' : dir'.backup \in {e.backup, e.target}
    BY DEF Inv, LostInv, Recalls, Alike
  <2>4. QED
    BY <2>1, <2>2, <2>3 DEF LostInv
<1>3. GameInv'
  BY DEF Inv, GameInv, Recalls, Alike
<1>4. QED
  BY <1>1, <1>2, <1>3

\* Only the holder of the lock is past its beginning; a step of its own leaves
\* every other process where it waits.
LEMMA OthersWait ==
    ASSUME Inv, NEW p \in Proc, pc[p] \notin Waiting, NEW at \in Pc, NEW w \in Rev \cup {NoRev},
           pc' = [pc EXCEPT ![p] = at], want' = [want EXCEPT ![p] = w]
    PROVE  /\ pc' \in [Proc -> Pc] /\ want' \in [Proc -> Rev \cup {NoRev}]
           /\ pc'[p] = at /\ want'[p] = w
           /\ holder = p /\ outcome = "none"
           /\ \A q \in Proc \ {p} : pc'[q] \in Waiting /\ PcInv(q)'
<1>1. pc \in [Proc -> Pc] /\ want \in [Proc -> Rev \cup {NoRev}]
  BY DEF Inv, TypeOK
<1>2. holder = p /\ outcome = "none"
  BY RestoreAssumption DEF Inv, LockInv
<1>3. ASSUME NEW q \in Proc \ {p} PROVE pc'[q] \in Waiting /\ PcInv(q)'
  <2>1. pc'[q] = pc[q] /\ want'[q] = want[q] /\ pc[q] \in Waiting
    BY <1>1, <1>2 DEF Inv, LockInv
  <2>2. PcInv(q)'
    BY <2>1 DEF Inv, PcInv, Waiting
  <2>3. QED
    BY <2>1, <2>2
<1>4. QED
  BY <1>1, <1>2, <1>3

\* The holder of the lock takes a step and goes on.
LEMMA HolderGoesOn ==
    ASSUME Inv, NEW p \in Proc, pc[p] \notin Waiting, NEW at \in Pc \ Waiting,
           pc' = [pc EXCEPT ![p] = at], UNCHANGED <<ordered, holder, want, outcome, game>>,
           DirInv(dir)', LostInv', GameInv', dir' \in Directory, lost' \subseteq Directory,
           PcInv(p)'
    PROVE  Inv'
<1>1. want' = [want EXCEPT ![p] = want[p]] /\ want[p] \in Rev \cup {NoRev}
  BY DEF Inv, TypeOK
<1>2. /\ pc' \in [Proc -> Pc] /\ pc'[p] = at /\ holder = p
      /\ \A q \in Proc \ {p} : pc'[q] \in Waiting /\ PcInv(q)'
  BY <1>1, OthersWait
<1>3. TypeOK'
  BY <1>2 DEF Inv, TypeOK
<1>4. LockInv'
  BY <1>2 DEF LockInv
<1>5. QED
  BY <1>2, <1>3, <1>4 DEF Inv, StageCompleteAlwaysRecovers

\* The call ends, and the lock with it.
LEMMA HolderReturns ==
    ASSUME Inv, NEW p \in Proc, pc[p] \notin Waiting,
           NEW r \in Outcome \ {"noOriginal", "unexpectedTarget"},
           Return(p, r), game' = game, ordered' = ordered,
           DirInv(dir)', LostInv', GameInv', dir' \in Directory, lost' \subseteq Directory
    PROVE  Inv'
<1>1. /\ pc' \in [Proc -> Pc] /\ want' \in [Proc -> Rev \cup {NoRev}]
      /\ pc'[p] = "idle" /\ want'[p] = NoRev
      /\ \A q \in Proc \ {p} : pc'[q] \in Waiting /\ PcInv(q)'
  BY OthersWait DEF Return, Pc
<1>2. TypeOK'
  BY <1>1 DEF Inv, TypeOK, Return
<1>3. LockInv'
  BY <1>1, RestoreAssumption DEF LockInv, Return, Waiting
<1>4. PcInv(p)'
  BY <1>1 DEF PcInv
<1>5. QED
  BY <1>1, <1>2, <1>3, <1>4 DEF Inv, StageCompleteAlwaysRecovers, Return

\* The holder of the lock changes the directory, but not what it stands for.
LEMMA QuietStep ==
    ASSUME Inv, NEW p \in Proc, pc[p] \notin Waiting, NEW at \in Pc \ Waiting,
           pc' = [pc EXCEPT ![p] = at], UNCHANGED <<ordered, holder, want, outcome, game>>,
           NEW d \in Directory, dir' = d, Recalls(d),
           DirInv(d), Save(d) = Save(dir),
           game = "running" =>
               d.target = dir.target /\ d.backup = dir.backup /\ d.journal = dir.journal,
           IsWhole(d.backup) =>
               \/ d.backup = dir.backup /\ d.target = dir.target
               \/ d.backup = dir.target /\ \A e \in lost : e.target = dir.target,
           PcInv(p)'
    PROVE  Inv' /\ Quietly
<1>1. DirInv(dir)' /\ LostInv' /\ GameInv' /\ dir' \in Directory /\ lost' \subseteq Directory
  BY WorldKept
<1>2. Quietly
  BY DEF Quietly, Recalls, Alike
<1>3. QED
  BY <1>1, <1>2, HolderGoesOn

\* The kinds of tree there are; a settled one exists exactly when it is whole.
LEMMA Trees ==
    /\ {Absent, Torn} \subseteq Tree /\ ~Exists(Absent) /\ Exists(Torn) /\ Torn \notin Settled
    /\ \A r \in Rev : /\ {Soft(r), Whole(r)} \subseteq Tree
                      /\ IsWhole(Whole(r)) /\ Whole(r).rev = r
    /\ Absent \in Settled
    /\ \A t : IsWhole(t) <=> t \in Settled /\ Exists(t)
    /\ \A t \in Settled : ~Exists(t) <=> t = Absent
<1>1. {Absent, Torn} \subseteq Tree /\ ~Exists(Absent) /\ Exists(Torn)
  BY DEF Absent, Torn, Tree, Exists
<1>2. \A r \in Rev : {Soft(r), Whole(r)} \subseteq Tree /\ Whole(r).rev = r
  BY DEF Soft, Whole, Tree
<1>3. \A r \in Rev : Exists(Whole(r)) /\ Whole(r) # Absent /\ Whole(r) # Torn
  BY DEF Whole, Exists, Absent, Torn
<1>4. Torn # Absent
  BY DEF Torn, Absent
<1>5. QED
  BY <1>1, <1>2, <1>3, <1>4 DEF Settled, IsWhole

\* pc'[p] and want'[p], for the steps in which the call goes on.
LEMMA Moved ==
    ASSUME Inv, NEW p \in Proc, NEW at \in Pc, pc' = [pc EXCEPT ![p] = at], want' = want
    PROVE  pc'[p] = at /\ want'[p] = want[p]
BY DEF Inv, TypeOK

\* What the invariant says about the process that takes a step.
LEMMA Known ==
    ASSUME Inv, NEW p \in Proc
    PROVE  /\ dir \in Directory /\ dir.target \in Settled /\ DirInv(dir) /\ PcInv(p)
           /\ dir.journal \in Journal /\ dir.stage \in Tree /\ dir.backup \in Tree
           /\ dir.backup \in Settled \cup {Torn}
           /\ pc[p] \in Pc /\ want[p] \in Rev \cup {NoRev}
           /\ (game = "running" => dir.journal = NoJournal /\ want[p] = NoRev)
BY DEF Inv, TypeOK, Directory, DirInv, GameInv

(***************************************************************************)
(* Recovery                                                                *)
(***************************************************************************)
\* A fsync of the directory lets nothing come back.
LEMMA SyncKeeps ==
    ASSUME Inv, NEW p \in Proc, NEW from \in Pc \ Waiting, NEW to \in Pc \ Waiting,
           Sync(p, from, to), dir' = dir /\ lost' = {} => PcInv(p)'
    PROVE  Inv' /\ Quietly
<1>1. dir \in Directory /\ DirInv(dir)
  BY DEF Inv, TypeOK
<1>2. QED
  BY <1>1, QuietStep DEF Sync, Goto, Recalls

\* Recovery, at every step, leaves the save it was going to leave.
LEMMA RecoveryKeeps ==
    ASSUME Inv, NEW p \in Proc, RecoveryStep(p)
    PROVE  Inv' /\ Quietly
<1>1. /\ dir \in Directory /\ dir.target \in Settled /\ DirInv(dir) /\ PcInv(p)
      /\ dir.journal \in Journal /\ dir.stage \in Tree /\ dir.backup \in Tree
      /\ dir.backup \in Settled \cup {Torn}
      /\ pc[p] \in Pc /\ want[p] \in Rev \cup {NoRev}
      /\ (game = "running" => dir.journal = NoJournal /\ want[p] = NoRev)
  BY Known
<1>2. CASE Decide(p)
  <2>1. UNCHANGED <<dir, lost, ordered, game>> /\ Recalls(dir) /\ pc[p] = "recover"
    BY <1>2 DEF Decide, Recalls
  <2>2. CASE Plan(dir) \in RecoveryErrors
    <3>1. Return(p, Plan(dir)) /\ Plan(dir) = "noBackup"
      BY <1>1, <1>2, <2>2, PlanOf DEF Decide, RecoveryErrors
    <3>2. DirInv(dir)' /\ LostInv' /\ GameInv' /\ dir' \in Directory /\ lost' \subseteq Directory
      <4>1. \A q \in Proc : want'[q] \in {want[q], NoRev}
        BY <3>1 DEF Return, Inv, TypeOK
      <4>2. QED
        BY <1>1, <2>1, <4>1, WorldKept
    <3>3. QED
      BY <2>1, <3>1, <3>2, HolderReturns DEF Waiting, Outcome, RecoveryErrors, Quietly
  <2>3. CASE Plan(dir) \notin RecoveryErrors
    <3>1. pc' = [pc EXCEPT ![p] = Plan(dir)] /\ UNCHANGED <<want, holder, outcome>>
      BY <1>2, <2>3 DEF Decide
    <3>2. Plan(dir) \in {"sweepStage", "putBack", "rollback"} /\ Plan(dir) \in Pc \ Waiting
      BY <1>1, <2>3, PlanOf DEF RecoveryErrors, Pc, Waiting
    <3>3. PcInv(p)'
      BY <1>1, <2>1, <3>1, <3>2, Moved, PlanOf DEF PcInv, BesideStage
    <3>4. QED
      BY <1>1, <2>1, <3>1, <3>2, <3>3, QuietStep DEF Waiting
  <2>4. QED
    BY <2>2, <2>3
<1>3. CASE ClearTarget(p)
  <2>1. pc[p] = "rollback" /\ ~Exists(dir.target)
    BY <1>1, <1>3 DEF ClearTarget, PcInv
  <2>2. /\ pc' = [pc EXCEPT ![p] = "putBack"]
        /\ Becomes([dir EXCEPT !.target = Absent]) /\ UNCHANGED <<holder, want, outcome, game>>
    BY <1>3, <2>1 DEF ClearTarget, Removal
  <2>3. [dir EXCEPT !.target = Absent] = dir
    BY <1>1, <2>1, Trees DEF Directory
  <2>4. UNCHANGED <<dir, lost, ordered>> /\ Recalls(dir)
    BY <2>2, <2>3 DEF Becomes, Recalls
  <2>5. PcInv(p)'
    BY <1>1, <2>1, <2>2, <2>4, Moved DEF PcInv, Pc
  <2>6. QED
    BY <1>1, <2>1, <2>2, <2>4, <2>5, QuietStep DEF Waiting, Pc
<1>4. CASE PutBack(p)
  <2> DEFINE d == [dir EXCEPT !.target = dir.backup, !.backup = Absent]
  <2>1. /\ pc[p] = "putBack" /\ pc' = [pc EXCEPT ![p] = "syncRollback"]
        /\ Becomes(d) /\ UNCHANGED <<holder, want, outcome, game>>
    BY <1>4 DEF PutBack, Goto
  <2>2. /\ ~Exists(dir.target) /\ IsWhole(dir.backup)
        /\ dir.journal.existed /\ dir.journal.phase # "none"
    BY <1>1, <2>1 DEF PcInv
  <2>3. /\ d \in Directory /\ d.target = dir.backup /\ d.backup = Absent
        /\ d.stage = dir.stage /\ d.journal = dir.journal
    BY <1>1, Trees DEF Directory
  <2> HIDE DEF d
  <2>4. DirInv(d)
    BY <1>1, <2>2, <2>3, Trees DEF DirInv, Installed
  <2>5. Save(d) = Save(dir)
    BY <1>1, <2>2, <2>3, <2>4, PlanOf, Trees
  <2>6. dir' = d /\ Recalls(d) /\ ordered' = ordered
    BY <1>1, <2>1, <2>3, Recalled DEF PcInv
  <2>7. PcInv(p)'
    <3>1. pc'[p] = "syncRollback"
      BY <2>1, Moved DEF Pc
    <3>2. dir'.journal.phase # "none" /\ Exists(dir'.target) /\ dir'.backup = Absent
      BY <2>2, <2>3, <2>6, Trees
    <3>3. QED
      BY <3>1, <3>2 DEF PcInv
  <2>8. game # "running" /\ ~IsWhole(d.backup)
    BY <1>1, <2>2, <2>3, Trees DEF NoJournal
  <2>9. QED
    BY <2>1, <2>3, <2>4, <2>5, <2>6, <2>7, <2>8, QuietStep DEF Waiting, Pc
<1>5. CASE Sync(p, "syncRollback", "sweepStage")
  <2>1. dir' = dir /\ lost' = {} => PcInv(p)'
    BY <1>1, <1>5, Moved DEF Sync, Goto, PcInv, BesideStage, Pc
  <2>2. QED
    BY <1>5, <2>1, SyncKeeps DEF Pc, Waiting
<1>6. CASE SweepStage(p)
  <2>1. PICK t \in Removal(dir.stage) :
          /\ Goto(p, "sweepStage", IF t # Absent THEN "sweepStage"
                                   ELSE IF dir.journal.phase = "none"
                                   THEN "recovered" ELSE "sweepJournal")
          /\ Becomes([dir EXCEPT !.stage = t])
          /\ UNCHANGED <<holder, want, outcome, game>>
    BY <1>6 DEF SweepStage
  <2> DEFINE d == [dir EXCEPT !.stage = t]
  <2>2. t \in {Absent, Torn} /\ (Exists(t) => Exists(dir.stage))
    BY <2>1, Trees DEF Removal
  <2>3. /\ d \in Directory /\ d.target = dir.target /\ d.backup = dir.backup
        /\ d.stage = t /\ d.journal = dir.journal
    BY <1>1, <2>2, Trees DEF Directory
  <2> HIDE DEF d
  <2>4. DirInv(d)
    BY <1>1, <2>2, <2>3 DEF DirInv, Installed
  <2>5. Save(d) = Save(dir)
    BY <1>1, <2>3, <2>4, PlanOf
  <2>6. dir' = d /\ Recalls(d) /\ ordered' = ordered
    <3>1. Becomes(d) /\ pc[p] = "sweepStage"
      BY <2>1 DEF d, Goto
    <3>2. QED
      BY <1>1, <2>3, <2>4, <2>5, <3>1, OneEntry DEF PcInv
  <2>7. PICK at \in {"sweepStage", "recovered", "sweepJournal"} :
          /\ pc[p] = "sweepStage" /\ pc' = [pc EXCEPT ![p] = at]
          /\ at = "recovered" => dir.journal.phase = "none"
          /\ at = "sweepJournal" => dir.journal.phase # "none"
    BY <2>1 DEF Goto
  <2>8. PcInv(p)'
    <3>1. Becomes(d)
      BY <2>1 DEF d
    <3>2. (ordered \/ BesideStage)'
      BY <1>1, <2>3, <2>6, <2>7, <3>1, StillBesideStage DEF PcInv
    <3>3. QED
      BY <1>1, <2>1, <2>3, <2>6, <2>7, <3>2, Moved DEF PcInv, Pc, DirInv
  <2>9. QED
    BY <2>1, <2>3, <2>4, <2>5, <2>6, <2>7, <2>8, QuietStep DEF Waiting, Pc
<1>7. CASE SweepJournal(p)
  <2> DEFINE d == [dir EXCEPT !.journal = NoJournal]
  <2>1. /\ pc[p] = "sweepJournal" /\ pc' = [pc EXCEPT ![p] = "syncSweep"]
        /\ Becomes(d) /\ UNCHANGED <<holder, want, outcome, game>>
    BY <1>7 DEF SweepJournal, Goto
  <2>2. (dir.journal.existed => Exists(dir.target)) /\ dir.journal.phase # "none"
    BY <1>1, <2>1 DEF PcInv
  <2>3. /\ d \in Directory /\ d.target = dir.target /\ d.backup = dir.backup
        /\ d.stage = dir.stage /\ d.journal = NoJournal
    BY <1>1 DEF Directory, Journal, NoJournal, Phase
  <2> HIDE DEF d
  <2>4. DirInv(d)
    BY <1>1, <2>3 DEF DirInv, NoJournal
  <2>5. Save(d) = Save(dir)
    <3>1. Save(d) = d.target
      BY <2>3, <2>4, PlanOf DEF NoJournal
    <3>2. QED
      BY <1>1, <2>2, <2>3, <3>1, PlanOf
  <2>6. dir' = d /\ Recalls(d) /\ ordered' = ordered
    <3>1. ordered \/ BesideStage
      BY <1>1, <2>1 DEF PcInv
    <3>2. game # "running" /\ d.journal # dir.journal
      BY <1>1, <2>2, <2>3 DEF NoJournal
    <3>3. QED
      BY <2>1, <2>3, <2>5, <3>1, <3>2, JournalOvertakes
  <2>7. PcInv(p)'
    BY <2>1, <2>3, <2>6, Moved DEF PcInv, Pc
  <2>8. game # "running"
    BY <1>1, <2>2 DEF NoJournal
  <2>9. QED
    BY <2>1, <2>3, <2>4, <2>5, <2>6, <2>7, <2>8, QuietStep DEF Waiting, Pc
<1>8. CASE Sync(p, "syncSweep", "recovered")
  <2>1. dir' = dir /\ lost' = {} => PcInv(p)'
    BY <1>1, <1>8, Moved DEF Sync, Goto, PcInv, BesideStage, Pc
  <2>2. QED
    BY <1>8, <2>1, SyncKeeps DEF Pc, Waiting
<1>9. CASE ReturnRecovered(p)
  <2>1. UNCHANGED <<dir, lost, ordered, game>> /\ Recalls(dir) /\ pc[p] = "recovered" /\ Return(p, "recovered")
    BY <1>9 DEF ReturnRecovered, Recalls
  <2>2. \A q \in Proc : want'[q] \in {want[q], NoRev}
    BY <2>1 DEF Return, Inv, TypeOK
  <2>3. QED
    BY <1>1, <2>1, <2>2, WorldKept, HolderReturns DEF Waiting, Outcome, Quietly
<1>10. QED
  BY <1>2, <1>3, <1>4, <1>5, <1>6, <1>7, <1>8, <1>9 DEF RecoveryStep

(***************************************************************************)
(* The installation                                                        *)
(***************************************************************************)
\* A restore that is still staging has not touched the target or its backup.
LEMMA StagingKeeps ==
    ASSUME Inv, NEW p \in Proc,
           \/ RefuseSnapshot(p) \/ CreateStage(p) \/ FillStage(p) \/ AbandonStage(p)
           \/ SyncTree(p) \/ JournalStage(p) \/ Sync(p, "syncStage", "clearBackup")
    PROVE  Inv' /\ Quietly
<1>1. /\ dir \in Directory /\ dir.target \in Settled /\ DirInv(dir) /\ PcInv(p)
      /\ dir.journal \in Journal /\ dir.stage \in Tree /\ dir.backup \in Tree
      /\ dir.backup \in Settled \cup {Torn}
      /\ pc[p] \in Pc /\ want[p] \in Rev \cup {NoRev}
      /\ (game = "running" => dir.journal = NoJournal /\ want[p] = NoRev)
  BY Known
\* Only the stage changes while no journal is written.
<1>2. ASSUME NEW t \in Tree, dir.journal = NoJournal
      PROVE  LET d == [dir EXCEPT !.stage = t] IN
             /\ d \in Directory /\ d.target = dir.target /\ d.backup = dir.backup
             /\ d.stage = t /\ d.journal = NoJournal
             /\ DirInv(d) /\ Save(d) = Save(dir)
  <2> DEFINE d == [dir EXCEPT !.stage = t]
  <2>1. /\ d \in Directory /\ d.target = dir.target /\ d.backup = dir.backup
        /\ d.stage = t /\ d.journal = NoJournal
    BY <1>1, <1>2 DEF Directory
  <2> HIDE DEF d
  <2>2. DirInv(d)
    BY <1>1, <2>1 DEF DirInv, NoJournal
  <2>3. Save(d) = Save(dir)
    BY <1>1, <1>2, <2>1, <2>2, PlanOf DEF NoJournal
  <2>4. QED
    BY <2>1, <2>2, <2>3 DEF d
<1>3. CASE RefuseSnapshot(p)
  <2>1. UNCHANGED <<dir, lost, ordered, game>> /\ Recalls(dir) /\ pc[p] = "recovered" /\ Return(p, "refused")
    BY <1>3 DEF RefuseSnapshot, Recalls
  <2>2. \A q \in Proc : want'[q] \in {want[q], NoRev}
    BY <2>1 DEF Return, Inv, TypeOK
  <2>3. QED
    BY <1>1, <2>1, <2>2, WorldKept, HolderReturns DEF Waiting, Outcome, Quietly
<1>4. CASE CreateStage(p)
  <2> DEFINE d == [dir EXCEPT !.stage = Torn]
  <2>1. /\ want[p] # NoRev /\ pc[p] = "recovered" /\ pc' = [pc EXCEPT ![p] = "fill"]
        /\ Becomes(d) /\ UNCHANGED <<holder, want, outcome, game>>
    BY <1>4 DEF CreateStage, Goto
  <2>2. dir.journal = NoJournal /\ want[p] \in Rev /\ game # "running"
    BY <1>1, <2>1 DEF PcInv
  <2>3. /\ d \in Directory /\ d.target = dir.target /\ d.backup = dir.backup
        /\ d.journal = NoJournal /\ DirInv(d) /\ Save(d) = Save(dir)
    BY <1>2, <2>2, Trees
  <2> HIDE DEF d
  <2>4. dir' = d /\ Recalls(d) /\ ordered' = ordered
    BY <1>1, <2>1, <2>2, <2>3, OneEntry DEF PcInv
  <2>5. PcInv(p)'
    <3>1. (ordered \/ BesideStage)'
      BY <1>1, <2>1, <2>2, <2>3, StillBesideStage DEF PcInv
    <3>2. QED
      BY <2>1, <2>2, <2>3, <2>4, <3>1, Moved DEF PcInv, NoneRecorded, Pc
  <2>6. QED
    BY <2>1, <2>2, <2>3, <2>4, <2>5, QuietStep DEF Waiting, Pc
<1>5. CASE FillStage(p)
  <2> DEFINE d == [dir EXCEPT !.stage = Soft(want[p])]
  <2>1. /\ pc[p] = "fill" /\ pc' = [pc EXCEPT ![p] = "syncTree"]
        /\ Writes(d) /\ UNCHANGED <<holder, want, outcome, game>>
    BY <1>5 DEF FillStage, Goto
  <2>2. dir.journal = NoJournal /\ want[p] \in Rev /\ game # "running"
    BY <1>1, <2>1, RestoreAssumption DEF PcInv, NoneRecorded
  <2>3. /\ d \in Directory /\ d.target = dir.target /\ d.backup = dir.backup
        /\ d.stage = Soft(want[p]) /\ d.journal = NoJournal /\ DirInv(d) /\ Save(d) = Save(dir)
    BY <1>2, <2>2, Trees
  <2> HIDE DEF d
  <2>4. dir' = d /\ lost' = lost /\ Recalls(d) /\ ordered' = ordered
    BY <2>1 DEF Writes, Recalls
  <2>5. PcInv(p)'
    <3>1. (ordered \/ BesideStage)'
      BY <1>1, <2>1, <2>2, <2>3, <2>4 DEF PcInv, BesideStage
    <3>2. QED
      BY <2>1, <2>2, <2>3, <2>4, <3>1, Moved DEF PcInv, NoneRecorded, Pc
  <2>6. QED
    BY <2>1, <2>2, <2>3, <2>4, <2>5, QuietStep DEF Waiting, Pc
<1>6. CASE AbandonStage(p)
  <2> DEFINE d == [dir EXCEPT !.stage = Absent]
  <2>1. pc[p] = "fill" /\ Return(p, "refused") /\ Becomes(d) /\ game' = game
    BY <1>6 DEF AbandonStage
  <2>2. dir.journal = NoJournal /\ want[p] \in Rev /\ game # "running"
    BY <1>1, <2>1, RestoreAssumption DEF PcInv, NoneRecorded
  <2>3. /\ d \in Directory /\ d.target = dir.target /\ d.backup = dir.backup
        /\ d.journal = NoJournal /\ DirInv(d) /\ Save(d) = Save(dir)
    BY <1>2, <2>2, Trees
  <2> HIDE DEF d
  <2>4. dir' = d /\ Recalls(d) /\ ordered' = ordered
    BY <1>1, <2>1, <2>2, <2>3, OneEntry DEF PcInv
  <2>5. \A q \in Proc : want'[q] \in {want[q], NoRev}
    BY <2>1 DEF Return, Inv, TypeOK
  <2>6. DirInv(dir)' /\ LostInv' /\ GameInv' /\ dir' \in Directory /\ lost' \subseteq Directory
    BY <2>1, <2>2, <2>3, <2>4, <2>5, WorldKept
  <2>7. Quietly
    <3>1. lost \subseteq lost'
      BY <2>1 DEF Becomes
    <3>2. QED
      BY <2>1, <2>3, <2>4, <3>1 DEF Quietly, Recalls, Alike
  <2>8. QED
    BY <2>1, <2>4, <2>6, <2>7, HolderReturns DEF Waiting, Outcome
<1>7. CASE SyncTree(p)
  <2> DEFINE d == [dir EXCEPT !.stage = Whole(want[p])]
  <2>1. /\ pc[p] = "syncTree" /\ pc' = [pc EXCEPT ![p] = "journalStage"]
        /\ Writes(d) /\ UNCHANGED <<holder, want, outcome, game>>
    BY <1>7 DEF SyncTree, Goto
  <2>2. dir.journal = NoJournal /\ want[p] \in Rev /\ game # "running"
    BY <1>1, <2>1, RestoreAssumption DEF PcInv, NoneRecorded
  <2>3. /\ d \in Directory /\ d.target = dir.target /\ d.backup = dir.backup
        /\ d.stage = Whole(want[p]) /\ d.journal = NoJournal /\ DirInv(d) /\ Save(d) = Save(dir)
    BY <1>2, <2>2, Trees
  <2> HIDE DEF d
  <2>4. dir' = d /\ lost' = lost /\ Recalls(d) /\ ordered' = ordered
    BY <2>1 DEF Writes, Recalls
  <2>5. PcInv(p)'
    <3>1. (ordered \/ BesideStage)'
      BY <1>1, <2>1, <2>2, <2>3, <2>4 DEF PcInv, BesideStage
    <3>2. QED
      BY <2>1, <2>2, <2>3, <2>4, <3>1, Moved DEF PcInv, NoneRecorded, Pc
  <2>6. QED
    BY <2>1, <2>2, <2>3, <2>4, <2>5, QuietStep DEF Waiting, Pc
<1>8. CASE JournalStage(p)
  <2> DEFINE j == [phase |-> "stage-complete", existed |-> Exists(dir.target),
                   expected |-> dir.stage.rev]
             d == [dir EXCEPT !.journal = j]
  <2>1. /\ pc[p] = "journalStage" /\ pc' = [pc EXCEPT ![p] = "syncStage"]
        /\ Becomes(d) /\ UNCHANGED <<holder, want, outcome, game>>
    BY <1>8 DEF JournalStage, Goto
  <2>2. /\ dir.journal = NoJournal /\ want[p] \in Rev /\ game # "running"
        /\ dir.stage = Whole(want[p]) /\ dir.stage.rev = want[p]
    BY <1>1, <2>1, Trees, RestoreAssumption DEF PcInv, NoneRecorded
  <2>3. /\ j \in Journal /\ j.phase = "stage-complete" /\ j.existed = Exists(dir.target)
        /\ j.expected = want[p]
    BY <2>2 DEF Journal, Phase, Exists
  <2> HIDE DEF j
  <2>4. /\ d \in Directory /\ d.target = dir.target /\ d.backup = dir.backup
        /\ d.stage = dir.stage /\ d.journal = j
    BY <1>1, <2>3 DEF Directory
  <2> HIDE DEF d
  <2>5. DirInv(d)
    BY <1>1, <2>3, <2>4 DEF DirInv
  <2>6. Save(d) = Save(dir)
    BY <1>1, <2>2, <2>3, <2>4, <2>5, PlanOf DEF NoJournal
  <2>7. dir' = d /\ Recalls(d) /\ ordered' = ordered
    BY <1>1, <2>1, <2>2, <2>3, <2>4, <2>5, <2>6, JournalOvertakes DEF PcInv, NoJournal
  <2>8. PcInv(p)'
    BY <2>1, <2>2, <2>3, <2>4, <2>7, Moved DEF PcInv, Staged, Pc
  <2>9. QED
    BY <2>1, <2>2, <2>4, <2>5, <2>6, <2>7, <2>8, QuietStep DEF Waiting, Pc
<1>9. CASE Sync(p, "syncStage", "clearBackup")
  <2>1. dir' = dir /\ lost' = {} => PcInv(p)'
    BY <1>1, <1>9, Moved DEF Sync, Goto, PcInv, Staged, BesideBackup, Pc
  <2>2. QED
    BY <1>9, <2>1, SyncKeeps DEF Pc, Waiting
<1>10. QED
  BY <1>3, <1>4, <1>5, <1>6, <1>7, <1>8, <1>9

\* From the first journal to the second the target is still the folder's content,
\* in its own place or in the backup's.
LEMMA SettingAsideKeeps ==
    ASSUME Inv, NEW p \in Proc,
           \/ ClearBackup(p) \/ SetAside(p) \/ Sync(p, "syncAside", "journalAside")
           \/ WriteJournal(p, "journalAside", "syncJournal", "target-backed-up")
           \/ Sync(p, "syncJournal", "install")
    PROVE  Inv' /\ Quietly
<1>1. /\ dir \in Directory /\ dir.target \in Settled /\ DirInv(dir) /\ PcInv(p)
      /\ dir.journal \in Journal /\ dir.stage \in Tree /\ dir.backup \in Tree
      /\ dir.backup \in Settled \cup {Torn}
      /\ pc[p] \in Pc /\ want[p] \in Rev \cup {NoRev}
      /\ (game = "running" => dir.journal = NoJournal /\ want[p] = NoRev)
  BY Known
<1>2. CASE ClearBackup(p)
  <2>1. PICK t \in Removal(dir.backup) :
          /\ Goto(p, "clearBackup", IF t = Absent THEN "setAside" ELSE "clearBackup")
          /\ Becomes([dir EXCEPT !.backup = t])
          /\ UNCHANGED <<holder, want, outcome, game>>
    BY <1>2 DEF ClearBackup
  <2> DEFINE d == [dir EXCEPT !.backup = t]
  <2>2. t \in {Absent, Torn} /\ ~IsWhole(t)
    BY <2>1, Trees DEF Removal
  <2>3. /\ d \in Directory /\ d.target = dir.target /\ d.backup = t
        /\ d.stage = dir.stage /\ d.journal = dir.journal
    BY <1>1, <2>2, Trees DEF Directory
  <2>4. Becomes(d) /\ dir' = d
    BY <2>1 DEF Becomes
  <2> HIDE DEF d
  <2>5. /\ pc[p] = "clearBackup" /\ Staged(p, "stage-complete")
        /\ dir.journal.existed = Exists(dir.target) /\ \A e \in lost : e.target = dir.target
    BY <1>1, <2>1 DEF Goto, PcInv
  <2>6. dir.journal.phase = "stage-complete" /\ game # "running"
    BY <1>1, <2>5 DEF Staged, NoJournal
  <2>7. DirInv(d)
    BY <1>1, <2>2, <2>3, <2>5, <2>6, Trees DEF DirInv
  <2>8. Save(d) = Save(dir)
    BY <1>1, <2>3, <2>5, <2>7, PlanOf
  <2>9. PICK at \in {"clearBackup", "setAside"} :
          pc' = [pc EXCEPT ![p] = at] /\ (at = "setAside" => t = Absent)
    BY <2>1 DEF Goto
  <2>10. Recalls(d) /\ ordered' = ordered
    BY <1>1, <2>3, <2>4, <2>5, <2>7, <2>8, OneEntry DEF PcInv
  <2>11. (ordered \/ BesideBackup)' /\ \A e \in lost' : e.target = dir'.target
    BY <1>1, <2>3, <2>4, <2>5, StillBesideBackup DEF PcInv
  <2>12. PcInv(p)'
    BY <2>1, <2>3, <2>4, <2>5, <2>9, <2>11, Moved DEF PcInv, Staged, Pc
  <2>13. QED
    BY <2>1, <2>2, <2>3, <2>4, <2>5, <2>6, <2>7, <2>8, <2>9, <2>10, <2>12, QuietStep
    DEF Waiting, Pc
<1>3. CASE SetAside(p)
  <2> DEFINE d == [dir EXCEPT !.target = Absent, !.backup = dir.target]
  <2>1. PICK at \in {"syncAside", "journalAside"} :
          /\ pc[p] = "setAside" /\ pc' = [pc EXCEPT ![p] = at]
          /\ at = "journalAside" => ~Exists(dir.target)
          /\ Becomes(d) /\ UNCHANGED <<holder, want, outcome, game>>
    BY <1>3 DEF SetAside, Goto
  <2>2. /\ d \in Directory /\ d.target = Absent /\ d.backup = dir.target
        /\ d.stage = dir.stage /\ d.journal = dir.journal
    BY <1>1, Trees DEF Directory
  <2> HIDE DEF d
  <2>3. /\ Staged(p, "stage-complete")
        /\ dir.journal.existed = Exists(dir.target) /\ \A e \in lost : e.target = dir.target
    BY <1>1, <2>1 DEF PcInv
  <2>4. dir.journal.phase = "stage-complete" /\ game # "running"
    BY <1>1, <2>3 DEF Staged, NoJournal
  <2>5. DirInv(d)
    BY <1>1, <2>2, <2>3, <2>4, Trees DEF DirInv
  <2>6. Save(d) = Save(dir)
    BY <1>1, <2>2, <2>3, <2>5, PlanOf, Trees
  <2>7. dir' = d /\ Recalls(d) /\ ordered' = ordered
    <3>1. ASSUME ~ordered, d # dir, NEW e \in lost PROVE Alike(Overtaking(d, e), d)
      <4> DEFINE o == Overtaking(d, e)
      <4>1. /\ e.target = dir.target /\ e.stage = dir.stage /\ e.journal = dir.journal
            /\ dir.backup = Absent /\ e \in Directory
        BY <1>1, <2>1, <3>1 DEF PcInv, BesideBackup, Inv, TypeOK
      <4>2. dir.target # Absent
        BY <1>1, <2>2, <3>1, <4>1, SameDirectory
      <4>3. /\ o \in Directory
            /\ o.target = IF d.target # dir.target THEN d.target ELSE e.target
            /\ o.backup = IF d.backup # dir.backup THEN d.backup ELSE e.backup
            /\ o.stage = IF d.stage # dir.stage THEN d.stage ELSE e.stage
            /\ o.journal = IF d.journal # dir.journal THEN d.journal ELSE e.journal
        BY <2>2, <4>1, OvertakingIs
      <4> HIDE DEF o
      <4>4. o = d
        BY <2>2, <4>1, <4>2, <4>3, SameDirectory
      <4>5. QED
        BY <2>2, <2>4, <2>5, <2>6, <4>4 DEF Alike, o
    <3>2. QED
      BY <2>1, <2>2, <3>1, Recalled
  <2>8. PcInv(p)'
    <3>1. at = "journalAside" => dir' = dir /\ lost' = lost
      BY <1>1, <2>1, <2>2, <2>7, SameDirectory, Trees DEF PcInv, Becomes
    <3>2. at = "journalAside" => (ordered \/ BesideBackup)' /\ ~dir'.journal.existed
      BY <1>1, <2>1, <2>3, <2>7, <3>1 DEF PcInv, BesideBackup
    <3>3. QED
      BY <1>1, <2>1, <2>2, <2>3, <2>7, <3>2, Moved, Trees DEF PcInv, Staged, Aside, Pc
  <2>9. QED
    BY <2>1, <2>2, <2>3, <2>4, <2>5, <2>6, <2>7, <2>8, QuietStep DEF Waiting, Pc
<1>4. CASE Sync(p, "syncAside", "journalAside")
  <2>1. dir' = dir /\ lost' = {} => PcInv(p)'
    BY <1>1, <1>4, Moved DEF Sync, Goto, PcInv, Staged, Aside, BesideBackup, Pc
  <2>2. QED
    BY <1>4, <2>1, SyncKeeps DEF Pc, Waiting
<1>5. CASE WriteJournal(p, "journalAside", "syncJournal", "target-backed-up")
  <2> DEFINE d == [dir EXCEPT !.journal.phase = "target-backed-up"]
  <2>1. /\ pc[p] = "journalAside" /\ pc' = [pc EXCEPT ![p] = "syncJournal"]
        /\ Becomes(d) /\ UNCHANGED <<holder, want, outcome, game>>
    BY <1>5 DEF WriteJournal, Goto
  <2>2. /\ d \in Directory /\ d.target = dir.target /\ d.backup = dir.backup
        /\ d.stage = dir.stage /\ d.journal.phase = "target-backed-up"
        /\ d.journal.existed = dir.journal.existed /\ d.journal.expected = dir.journal.expected
    BY <1>1 DEF Directory, Journal, Phase
  <2> HIDE DEF d
  <2>3. Staged(p, "stage-complete") /\ Aside
    BY <1>1, <2>1 DEF PcInv
  <2>4. game # "running"
    BY <1>1, <2>3 DEF Staged, NoJournal
  <2>5. DirInv(d)
    BY <1>1, <2>2, <2>3 DEF DirInv, Aside
  <2>6. Save(d) = Save(dir)
    BY <1>1, <2>2, <2>3, <2>5, PlanOf DEF Aside
  <2>7. dir' = d /\ Recalls(d) /\ ordered' = ordered
    <3>1. ASSUME ~ordered, d # dir, NEW e \in lost PROVE Alike(Overtaking(d, e), d)
      <4> DEFINE o == Overtaking(d, e)
      <4>1. /\ e.target = dir.target /\ e.stage = dir.stage /\ e \in Directory
            /\ ~dir.journal.existed
            /\ IsWhole(dir.backup) => dir.backup \in {e.backup, e.target}
            /\ e.backup \in Settled \cup {Torn}
        BY <1>1, <2>1, <3>1 DEF PcInv, BesideBackup, Inv, TypeOK, LostInv, DirInv
      <4>2. /\ o \in Directory
            /\ o.target = IF d.target # dir.target THEN d.target ELSE e.target
            /\ o.backup = IF d.backup # dir.backup THEN d.backup ELSE e.backup
            /\ o.journal = IF d.journal # dir.journal THEN d.journal ELSE e.journal
        BY <2>2, <4>1, OvertakingIs
      <4> HIDE DEF o
      <4>3. d.journal # dir.journal
        BY <1>1, <2>2, <2>3 DEF Staged
      <4>4. /\ o.target = dir.target /\ o.backup = e.backup /\ o.journal = d.journal
        BY <2>2, <4>1, <4>2, <4>3
      <4>5. DirInv(o)
        BY <1>1, <2>2, <2>3, <4>1, <4>4 DEF DirInv, Aside
      <4>6. Save(o) = Save(dir)
        BY <1>1, <2>2, <4>1, <4>2, <4>4, <4>5, PlanOf
      <4>7. QED
        BY <2>2, <2>4, <4>1, <4>2, <4>4, <4>5, <4>6 DEF Alike, o
    <3>2. QED
      BY <2>1, <2>2, <3>1, Recalled
  <2>8. PcInv(p)'
    BY <2>1, <2>2, <2>3, <2>7, Moved DEF PcInv, Staged, Aside, Pc
  <2>9. QED
    BY <2>1, <2>2, <2>4, <2>5, <2>6, <2>7, <2>8, QuietStep DEF Waiting, Pc
<1>6. CASE Sync(p, "syncJournal", "install")
  <2>1. dir' = dir /\ lost' = {} => PcInv(p)'
    BY <1>1, <1>6, Moved DEF Sync, Goto, PcInv, Staged, Aside, Pc
  <2>2. QED
    BY <1>6, <2>1, SyncKeeps DEF Pc, Waiting
<1>7. QED
  BY <1>2, <1>3, <1>4, <1>5, <1>6

\* The one step that changes the folder's logical content: what it was can come
\* back, and nothing else.
LEMMA InstallEffect ==
    ASSUME Inv, NEW p \in Proc, Install(p)
    PROVE  /\ want[p] \in Rev /\ game # "running" /\ pc[p] \notin Waiting /\ lost = {}
           /\ dir' \in Directory /\ DirInv(dir)' /\ InPlace(p, "target-backed-up")'
           /\ dir'.backup = dir.backup
           /\ Save(dir') = Whole(want[p])
           /\ lost' \in {{}, {dir}} /\ ordered' = ordered
           /\ pc' = [pc EXCEPT ![p] = "syncInstall"] /\ want' = want
<1> DEFINE d == [dir EXCEPT !.target = dir.stage, !.stage = Absent]
<1>1. /\ dir \in Directory /\ DirInv(dir) /\ PcInv(p)
      /\ dir.journal \in Journal /\ dir.stage \in Tree /\ dir.backup \in Settled \cup {Torn}
      /\ want[p] \in Rev \cup {NoRev}
      /\ (game = "running" => dir.journal = NoJournal)
  BY Known
<1>2. /\ pc[p] = "install" /\ pc' = [pc EXCEPT ![p] = "syncInstall"]
      /\ Becomes(d) /\ UNCHANGED <<holder, want, outcome, game>>
  BY DEF Install, Goto
<1>3. Staged(p, "target-backed-up") /\ lost = {}
  BY <1>1, <1>2 DEF PcInv
<1>4. /\ d \in Directory /\ d.target = Whole(want[p]) /\ d.backup = dir.backup
      /\ d.stage = Absent /\ d.journal = dir.journal
  BY <1>1, <1>3, Trees DEF Directory, Staged
<1>5. dir' = d /\ lost' \in {{}, {dir}} /\ ordered' = ordered
  BY <1>2, <1>3 DEF Becomes
<1> HIDE DEF d
<1>6. Exists(d.target) /\ Installed(d) /\ d.target \in Settled
  BY <1>3, <1>4, Trees DEF Installed, Staged
<1>7. DirInv(d)
  BY <1>1, <1>3, <1>4, <1>6 DEF DirInv, Staged
<1>8. Save(d) = Whole(want[p])
  BY <1>4, <1>6, <1>7, PlanOf
<1>9. InPlace(p, "target-backed-up")'
  BY <1>2, <1>3, <1>4, <1>5 DEF InPlace, Staged
<1>10. QED
  BY <1>1, <1>2, <1>3, <1>4, <1>5, <1>7, <1>8, <1>9 DEF Staged, NoJournal, Waiting

\* Only the rename of the stage changes the save; what follows writes it down.
LEMMA SwapKeeps ==
    ASSUME Inv, NEW p \in Proc,
           \/ Install(p) \/ Sync(p, "syncInstall", "journalInstall")
           \/ WriteJournal(p, "journalInstall", "syncInstalled", "stage-installed")
           \/ Sync(p, "syncInstalled", "dropJournal")
           \/ DropJournal(p) \/ ReturnRestored(p)
    PROVE  Inv' /\ (Quietly \/ Install(p))
<1>1. /\ dir \in Directory /\ dir.target \in Settled /\ DirInv(dir) /\ PcInv(p)
      /\ dir.journal \in Journal /\ dir.stage \in Tree /\ dir.backup \in Tree
      /\ dir.backup \in Settled \cup {Torn}
      /\ pc[p] \in Pc /\ want[p] \in Rev \cup {NoRev}
      /\ (game = "running" => dir.journal = NoJournal /\ want[p] = NoRev)
  BY Known
<1>2. CASE Install(p)
  <2>1. /\ want[p] \in Rev /\ game # "running" /\ pc[p] \notin Waiting
        /\ dir' \in Directory /\ DirInv(dir)' /\ InPlace(p, "target-backed-up")'
        /\ dir'.backup = dir.backup /\ lost' \in {{}, {dir}} /\ ordered' = ordered
        /\ pc' = [pc EXCEPT ![p] = "syncInstall"] /\ want' = want
    BY <1>2, InstallEffect
  <2>2. UNCHANGED <<holder, outcome, game>>
    BY <1>2 DEF Install
  <2>3. LostInv'
    BY <1>1, <2>1 DEF LostInv
  <2>4. GameInv'
    BY <2>1, <2>2 DEF GameInv
  <2>5. PcInv(p)'
    BY <2>1, Moved DEF PcInv, Pc
  <2>6. lost' \subseteq Directory
    BY <1>1, <2>1
  <2>7. QED
    BY <1>2, <2>1, <2>2, <2>3, <2>4, <2>5, <2>6, HolderGoesOn DEF Waiting, Pc
<1>3. CASE Sync(p, "syncInstall", "journalInstall")
  <2>1. dir' = dir /\ lost' = {} => PcInv(p)'
    BY <1>1, <1>3, Moved DEF Sync, Goto, PcInv, InPlace, Pc
  <2>2. QED
    BY <1>3, <2>1, SyncKeeps DEF Pc, Waiting
<1>4. CASE WriteJournal(p, "journalInstall", "syncInstalled", "stage-installed")
  <2> DEFINE d == [dir EXCEPT !.journal.phase = "stage-installed"]
  <2>1. /\ pc[p] = "journalInstall" /\ pc' = [pc EXCEPT ![p] = "syncInstalled"]
        /\ Becomes(d) /\ UNCHANGED <<holder, want, outcome, game>>
    BY <1>4 DEF WriteJournal, Goto
  <2>2. /\ d \in Directory /\ d.target = dir.target /\ d.backup = dir.backup
        /\ d.stage = dir.stage /\ d.journal.phase = "stage-installed"
        /\ d.journal.existed = dir.journal.existed /\ d.journal.expected = dir.journal.expected
    BY <1>1 DEF Directory, Journal, Phase
  <2> HIDE DEF d
  <2>3. InPlace(p, "target-backed-up")
    BY <1>1, <2>1 DEF PcInv
  <2>4. Exists(dir.target) /\ Installed(d) /\ game # "running"
    BY <1>1, <2>2, <2>3, Trees DEF InPlace, Installed, NoJournal
  <2>5. DirInv(d)
    BY <1>1, <2>2, <2>4 DEF DirInv
  <2>6. Save(d) = Save(dir)
    BY <1>1, <2>2, <2>4, <2>5, PlanOf
  <2>7. dir' = d /\ Recalls(d) /\ ordered' = ordered
    BY <1>1, <2>1, <2>2, Recalled DEF PcInv
  <2>8. PcInv(p)'
    BY <2>1, <2>2, <2>3, <2>7, Moved DEF PcInv, InPlace, Pc
  <2>9. QED
    BY <2>1, <2>2, <2>4, <2>5, <2>6, <2>7, <2>8, QuietStep DEF Waiting, Pc
<1>5. CASE Sync(p, "syncInstalled", "dropJournal")
  <2>1. dir' = dir /\ lost' = {} => PcInv(p)'
    BY <1>1, <1>5, Moved DEF Sync, Goto, PcInv, InPlace, Pc
  <2>2. QED
    BY <1>5, <2>1, SyncKeeps DEF Pc, Waiting
<1>6. CASE DropJournal(p)
  <2> DEFINE d == [dir EXCEPT !.journal = NoJournal]
  <2>1. /\ pc[p] = "dropJournal" /\ pc' = [pc EXCEPT ![p] = "syncDrop"]
        /\ Becomes(d) /\ UNCHANGED <<holder, want, outcome, game>>
    BY <1>6 DEF DropJournal, Goto
  <2>2. /\ d \in Directory /\ d.target = dir.target /\ d.backup = dir.backup
        /\ d.stage = dir.stage /\ d.journal = NoJournal
    BY <1>1 DEF Directory, Journal, NoJournal, Phase
  <2> HIDE DEF d
  <2>3. InPlace(p, "stage-installed") /\ lost = {}
    BY <1>1, <2>1 DEF PcInv
  <2>4. Exists(dir.target) /\ game # "running"
    BY <1>1, <2>3, Trees DEF InPlace, NoJournal
  <2>5. DirInv(d)
    BY <1>1, <2>2 DEF DirInv, NoJournal
  <2>6. Save(d) = Save(dir)
    BY <1>1, <2>2, <2>4, <2>5, PlanOf
  <2>7. dir' = d /\ Recalls(d) /\ ordered' = ordered /\ lost' \in {{}, {dir}}
    BY <2>1, <2>2, <2>3, Recalled DEF Becomes
  <2>8. PcInv(p)'
    BY <2>1, <2>2, <2>3, <2>6, <2>7, Moved DEF PcInv, InPlace, NoneRecorded, Pc
  <2>9. QED
    BY <2>1, <2>2, <2>4, <2>5, <2>6, <2>7, <2>8, QuietStep DEF Waiting, Pc
<1>7. CASE ReturnRestored(p)
  <2>1. /\ UNCHANGED <<dir, ordered, game>> /\ lost' = {} /\ Recalls(dir)
        /\ pc[p] = "syncDrop" /\ Return(p, "restored")
    BY <1>7 DEF ReturnRestored, Recalls
  <2>2. \A q \in Proc : want'[q] \in {want[q], NoRev}
    BY <2>1 DEF Return, Inv, TypeOK
  <2>3. \A d \in lost : Save(d) = Save(dir)
    BY <1>1, <2>1 DEF PcInv
  <2>4. QED
    BY <1>1, <2>1, <2>2, <2>3, WorldKept, HolderReturns DEF Waiting, Outcome, Quietly
<1>8. QED
  BY <1>2, <1>3, <1>4, <1>5, <1>6, <1>7

(***************************************************************************)
(* Calls, failures and the emulator                                        *)
(***************************************************************************)
\* The invariant holds of every first state.
LEMMA InitInv == Init => Inv
<1> SUFFICES ASSUME Init PROVE Inv
  OBVIOUS
<1>1. /\ dir.target \in Settled /\ dir.backup \in Settled
      /\ dir.stage = Absent /\ dir.journal = NoJournal /\ dir \in Directory
  <2>1. NoJournal \in Journal
    BY DEF NoJournal, Journal, Phase
  <2>2. Settled \subseteq Tree
    BY Trees DEF Settled
  <2>3. QED
    BY <2>1, <2>2, Trees DEF Init, Directory, Settled
<1>2. TypeOK
  BY <1>1 DEF Init, TypeOK, Pc, Outcome
<1>3. LockInv
  BY RestoreAssumption DEF Init, LockInv, Waiting
<1>4. DirInv(dir)
  BY <1>1 DEF DirInv, NoJournal
<1>5. LostInv /\ GameInv
  BY DEF Init, LostInv, GameInv
<1>6. \A p \in Proc : PcInv(p)
  BY DEF Init, PcInv
<1>7. QED
  BY <1>2, <1>3, <1>4, <1>5, <1>6 DEF Init, Inv, StageCompleteAlwaysRecovers

\* What a process knows of the directory it still knows while that is unchanged.
LEMMA StillKnown ==
    ASSUME NEW p \in Proc, PcInv(p), UNCHANGED <<dir, lost, ordered>>,
           pc'[p] = pc[p], want'[p] = want[p]
    PROVE  PcInv(p)'
BY DEF PcInv, NoneRecorded, Staged, InPlace, Aside, BesideStage, BesideBackup

\* Calls that begin or wait for the lock disturb nothing.
LEMMA CallsKeep ==
    ASSUME Inv, WrittenBack, NEW p \in Proc,
           (\E r \in Rev : CallRestore(p, r)) \/ CallRecover(p) \/ AcquireLock(p)
    PROVE  Inv' /\ Quietly
<1>1. /\ UNCHANGED <<dir, lost, ordered, game>> /\ LockInv /\ \A q \in Proc : PcInv(q)
      /\ pc \in [Proc -> Pc] /\ want \in [Proc -> Rev \cup {NoRev}]
  BY DEF CallRestore, CallRecover, AcquireLock, Inv, TypeOK
<1>2. CASE \E r \in Rev : CallRestore(p, r)
  <2>1. PICK r \in Rev : CallRestore(p, r)
    BY <1>2
  <2>2. /\ pc[p] = "idle" /\ pc' = [pc EXCEPT ![p] = "waiting"]
        /\ want' = [want EXCEPT ![p] = r] /\ UNCHANGED <<holder, outcome>> /\ game = "stopped"
    BY <2>1 DEF CallRestore, Goto
  <2>3. TypeOK' /\ LockInv' /\ GameInv'
    BY <1>1, <2>2 DEF Inv, TypeOK, LockInv, Waiting, Pc, GameInv
  <2>4. ASSUME NEW q \in Proc PROVE PcInv(q)'
    <3>1. CASE q = p
      BY <1>1, <2>2, <3>1 DEF PcInv, Pc
    <3>2. CASE q # p
      BY <1>1, <2>2, <3>2, StillKnown
    <3>3. QED
      BY <3>1, <3>2
  <2>5. QED
    BY <1>1, <2>2, <2>3, <2>4 DEF Inv, LostInv, StageCompleteAlwaysRecovers, Quietly
<1>3. CASE CallRecover(p)
  <2>1. /\ pc[p] = "idle" /\ pc' = [pc EXCEPT ![p] = "waiting"]
        /\ UNCHANGED <<holder, outcome, want>>
    BY <1>3 DEF CallRecover, Goto
  <2>2. TypeOK' /\ LockInv' /\ GameInv'
    BY <1>1, <2>1 DEF Inv, TypeOK, LockInv, Waiting, Pc, GameInv
  <2>3. ASSUME NEW q \in Proc PROVE PcInv(q)'
    <3>1. CASE q = p
      BY <1>1, <2>1, <3>1 DEF PcInv, Pc
    <3>2. CASE q # p
      BY <1>1, <2>1, <3>2, StillKnown
    <3>3. QED
      BY <3>1, <3>2
  <2>4. QED
    BY <1>1, <2>1, <2>2, <2>3 DEF Inv, LostInv, StageCompleteAlwaysRecovers, Quietly
<1>4. CASE AcquireLock(p)
  <2>1. /\ pc[p] = "waiting" /\ pc' = [pc EXCEPT ![p] = "recover"]
        /\ holder = NoProc /\ holder' = p /\ outcome' = "none" /\ want' = want
        /\ ordered \/ lost = {}
    BY <1>4 DEF AcquireLock, Goto
  <2>2. TypeOK' /\ GameInv'
    BY <1>1, <2>1 DEF Inv, TypeOK, Pc, GameInv, Outcome
  <2>3. LockInv'
    BY <1>1, <2>1, RestoreAssumption DEF LockInv, Waiting, Pc
  <2>4. ASSUME NEW q \in Proc PROVE PcInv(q)'
    <3>1. CASE q = p
      BY <1>1, <2>1, <3>1 DEF PcInv, Pc
    <3>2. CASE q # p
      BY <1>1, <2>1, <3>2, StillKnown
    <3>3. QED
      BY <3>1, <3>2
  <2>5. QED
    BY <1>1, <2>1, <2>2, <2>3, <2>4 DEF Inv, LostInv, StageCompleteAlwaysRecovers, Quietly
<1>5. QED
  BY <1>2, <1>3, <1>4

\* A kill leaves what the dead call had done; a power loss brings back a
\* directory that the invariant knew of.
LEMMA TroubleKeeps ==
    ASSUME Inv, (\E p \in Proc : Crash(p)) \/ PowerLoss \/ Writeback
    PROVE  Inv' /\ (Quietly \/ PowerLoss)
<1>1. /\ LockInv /\ DirInv(dir) /\ dir \in Directory /\ LostInv /\ lost \subseteq Directory
      /\ (\A q \in Proc : PcInv(q)) /\ pc \in [Proc -> Pc] /\ want \in [Proc -> Rev \cup {NoRev}]
  BY DEF Inv, TypeOK
<1>2. CASE \E p \in Proc : Crash(p)
  <2>1. PICK p \in Proc : Crash(p)
    BY <1>2
  <2>2. /\ pc' = [pc EXCEPT ![p] = "idle"] /\ want' = [want EXCEPT ![p] = NoRev]
        /\ holder' = (IF holder = p THEN NoProc ELSE holder)
        /\ UNCHANGED <<dir, lost, ordered, outcome, game>>
    BY <2>1 DEF Crash
  <2>3. TypeOK' /\ GameInv'
    BY <1>1, <2>2 DEF Inv, TypeOK, Pc, GameInv
  <2>4. LockInv'
    BY <1>1, <2>2, RestoreAssumption DEF LockInv, Waiting, Pc
  <2>5. ASSUME NEW q \in Proc PROVE PcInv(q)'
    <3>1. CASE q = p
      BY <1>1, <2>2, <3>1 DEF PcInv, Pc
    <3>2. CASE q # p
      BY <1>1, <2>2, <3>2, StillKnown
    <3>3. QED
      BY <3>1, <3>2
  <2>6. QED
    BY <1>1, <2>2, <2>3, <2>4, <2>5 DEF Inv, LostInv, StageCompleteAlwaysRecovers, Quietly
<1>3. CASE PowerLoss
  <2>1. PICK d \in lost \cup {dir} : dir' = Survivor(d)
    BY <1>3 DEF PowerLoss
  <2>2. d \in Directory /\ DirInv(d)
    BY <1>1, <2>1 DEF LostInv
  <2>3. dir' \in Directory /\ DirInv(dir)'
    BY <2>1, <2>2, LossKeeps
  <2>4. /\ lost' = {} /\ holder' = NoProc /\ outcome' = "none" /\ game' = "stopped"
        /\ pc' = [p \in Proc |-> "idle"] /\ want' = [p \in Proc |-> NoRev]
        /\ ordered' = ordered
    BY <1>3 DEF PowerLoss
  <2>5. TypeOK' /\ LostInv' /\ GameInv'
    BY <2>3, <2>4 DEF Inv, TypeOK, Pc, Outcome, LostInv, GameInv
  <2>6. LockInv'
    BY <2>4, RestoreAssumption DEF LockInv, Waiting
  <2>7. ASSUME NEW q \in Proc PROVE PcInv(q)'
    BY <2>4 DEF PcInv
  <2>8. QED
    BY <1>3, <2>3, <2>4, <2>5, <2>6, <2>7 DEF Inv, StageCompleteAlwaysRecovers
<1>4. CASE Writeback
  <2>1. lost' = {} /\ holder = NoProc /\ UNCHANGED <<dir, ordered, holder, pc, want, outcome, game>>
    BY <1>4 DEF Writeback
  <2>2. TypeOK' /\ LostInv' /\ GameInv' /\ LockInv'
    BY <2>1 DEF Inv, TypeOK, LostInv, GameInv, LockInv
  <2>3. ASSUME NEW q \in Proc PROVE PcInv(q)'
    <3>1. pc[q] \in Waiting
      BY <1>1, <2>1, RestoreAssumption DEF LockInv
    <3>2. QED
      BY <1>1, <2>1, <3>1 DEF PcInv, Waiting
  <2>4. QED
    BY <1>1, <2>1, <2>2, <2>3 DEF Inv, StageCompleteAlwaysRecovers, Quietly
<1>5. QED
  BY <1>2, <1>3, <1>4

\* Under a running game nothing but a recovery's sweep of a stage is under way.
LEMMA GameKeeps ==
    ASSUME Inv, GatedLaunch, Launch \/ (\E r \in Rev : Play(r)) \/ Exit
    PROVE  Inv'
<1>1. /\ LockInv /\ DirInv(dir) /\ dir \in Directory /\ LostInv /\ lost \subseteq Directory
      /\ (\A q \in Proc : PcInv(q)) /\ GameInv
  BY DEF Inv, TypeOK
<1>2. CASE Launch
  <2>1. /\ UNCHANGED <<dir, lost, ordered, holder, pc, want, outcome>> /\ game' = "running"
        /\ lost = {} /\ dir.journal.phase = "none" /\ \A p \in Proc : pc[p] = "idle"
    BY <1>2 DEF Launch
  <2>2. GameInv'
    BY <1>1, <2>1 DEF GameInv, PcInv, DirInv
  <2>3. \A q \in Proc : PcInv(q)'
    BY <1>1, <2>1, StillKnown
  <2>4. QED
    BY <2>1, <2>2, <2>3 DEF Inv, TypeOK, LockInv, LostInv, StageCompleteAlwaysRecovers
<1>3. CASE Exit
  <2>1. UNCHANGED <<dir, lost, ordered, holder, pc, want, outcome>> /\ game' = "stopped"
    BY <1>3 DEF Exit
  <2>2. \A q \in Proc : PcInv(q)'
    BY <1>1, <2>1, StillKnown
  <2>3. QED
    BY <2>1, <2>2 DEF Inv, TypeOK, LockInv, LostInv, GameInv, StageCompleteAlwaysRecovers
<1>4. CASE \E r \in Rev : Play(r)
  <2>1. PICK r \in Rev : Play(r)
    BY <1>4
  <2>2. /\ game = "running" /\ dir' = [dir EXCEPT !.target = Whole(r)]
        /\ lost' = {[d EXCEPT !.target = Whole(r)] : d \in lost}
        /\ UNCHANGED <<ordered, holder, pc, want, outcome, game>>
    BY <2>1 DEF Play
  <2>3. /\ dir.journal = NoJournal /\ (\A p \in Proc : want[p] = NoRev)
        /\ \A d \in lost : /\ d.target = dir.target /\ d.backup = dir.backup
                           /\ d.journal = NoJournal
    BY <1>1, <2>2 DEF GameInv
  <2>4. ASSUME NEW d \in Directory, d.journal = NoJournal, DirInv(d)
        PROVE  LET e == [d EXCEPT !.target = Whole(r)] IN
               /\ e \in Directory /\ e.target = Whole(r) /\ e.backup = d.backup
               /\ e.stage = d.stage /\ e.journal = NoJournal
               /\ DirInv(e) /\ Save(e) = Whole(r)
    <3> DEFINE e == [d EXCEPT !.target = Whole(r)]
    <3>1. /\ e \in Directory /\ e.target = Whole(r) /\ e.backup = d.backup
          /\ e.stage = d.stage /\ e.journal = NoJournal
      BY <2>4, Trees DEF Directory
    <3> HIDE DEF e
    <3>2. DirInv(e)
      BY <2>4, <3>1, Trees DEF DirInv, NoJournal
    <3>3. Save(e) = Whole(r)
      BY <3>1, <3>2, PlanOf DEF NoJournal
    <3>4. QED
      BY <3>1, <3>2, <3>3 DEF e
  <2>5. /\ dir' \in Directory /\ dir'.target = Whole(r) /\ dir'.backup = dir.backup
        /\ dir'.stage = dir.stage /\ dir'.journal = NoJournal
        /\ DirInv(dir)' /\ Save(dir') = Whole(r)
    BY <1>1, <2>2, <2>3, <2>4
  <2>6. ASSUME NEW f \in lost'
        PROVE  /\ f \in Directory /\ f.target = Whole(r) /\ f.backup = dir.backup
               /\ f.journal = NoJournal /\ DirInv(f) /\ Save(f) = Whole(r)
    <3>1. PICK d \in lost : f = [d EXCEPT !.target = Whole(r)]
      BY <2>2, <2>6
    <3>2. d \in Directory /\ DirInv(d) /\ d.journal = NoJournal /\ d.backup = dir.backup
      BY <1>1, <2>3 DEF LostInv
    <3>3. QED
      BY <2>4, <3>1, <3>2
  <2>7. TypeOK' /\ LockInv'
    BY <2>2, <2>5, <2>6 DEF Inv, TypeOK, LockInv
  <2>8. LostInv' /\ GameInv'
    BY <2>2, <2>3, <2>5, <2>6 DEF LostInv, GameInv
  <2>9. ASSUME NEW q \in Proc PROVE PcInv(q)'
    <3>1. PcInv(q) /\ want[q] \notin Rev /\ dir.journal.phase = "none"
      BY <1>1, <2>3, RestoreAssumption DEF NoJournal
    <3>2. PcInv(q) /\ pc[q] \in {"idle", "waiting", "recover", "sweepStage", "syncSweep",
                                 "recovered"}
      BY <3>1, Known DEF PcInv, Pc, NoneRecorded, Staged, InPlace
    <3>3. BesideStage' /\ (lost = {} => lost' = {})
      BY <2>2, <2>5, <2>6 DEF BesideStage
    <3>4. QED
      BY <2>2, <2>5, <3>2, <3>3 DEF PcInv, NoJournal
  <2>10. QED
    BY <2>2, <2>5, <2>7, <2>8, <2>9 DEF Inv, StageCompleteAlwaysRecovers
<1>5. QED
  BY <1>2, <1>3, <1>4

\* Every step of the specification preserves the invariant.
LEMMA NextInv == ASSUME GatedLaunch, WrittenBack, Inv, [Next]_vars PROVE Inv'
<1>1. CASE UNCHANGED vars
  <2>1. UNCHANGED <<dir, lost, ordered, holder, pc, want, outcome, game>>
    BY <1>1 DEF vars
  <2>2. \A q \in Proc : PcInv(q)'
    BY <2>1, StillKnown DEF Inv
  <2>3. QED
    BY <2>1, <2>2 DEF Inv, TypeOK, LockInv, LostInv, GameInv, StageCompleteAlwaysRecovers
<1>2. ASSUME NEW p \in Proc, InstallStep(p) PROVE Inv'
  BY <1>2, StagingKeeps, SettingAsideKeeps, SwapKeeps DEF InstallStep
<1>3. CASE Next
  BY <1>2, <1>3, CallsKeep, RecoveryKeeps, TroubleKeeps, GameKeeps DEF Next, Step
<1>4. QED
  BY <1>1, <1>3

\* The invariant holds throughout every behaviour.
LEMMA Invariance == ASSUME GatedLaunch, WrittenBack PROVE Spec => []Inv
BY InitInv, NextInv, PTL DEF Spec

(***************************************************************************)
(* What the runs check, for every value of the constants                   *)
(***************************************************************************)
\* Every variable keeps its type.
THEOREM TypeCorrect == ASSUME GatedLaunch, WrittenBack PROVE Spec => []TypeOK
<1>1. Inv => TypeOK
  BY DEF Inv
<1>2. QED
  BY <1>1, Invariance, PTL

\* A game never starts on a half-written, half-removed or missing-by-accident
\* tree, whatever calls, kills and power losses came before it.
THEOREM GameSafe == ASSUME GatedLaunch, WrittenBack PROVE Spec => []GameReadsSettledTree
<1>1. Inv => GameReadsSettledTree
  <2> SUFFICES ASSUME Inv, game = "running"
               PROVE  dir.target = Save(dir) /\ dir.target.kind \in {"absent", "whole"}
    BY DEF GameReadsSettledTree
  <2>1. dir \in Directory /\ DirInv(dir) /\ dir.journal = NoJournal /\ dir.target \in Settled
    BY DEF Inv, TypeOK, GameInv, DirInv
  <2>2. Save(dir) = dir.target
    BY <2>1, PlanOf DEF NoJournal
  <2>3. QED
    BY <2>1, <2>2 DEF Settled, Absent, Whole
<1>2. QED
  BY <1>1, Invariance, PTL

\* Recovery never meets the two states that recover_stage_complete refuses: an
\* original in neither place, and a target that should not be there.
THEOREM AlwaysRecovers == ASSUME GatedLaunch, WrittenBack PROVE Spec => []StageCompleteAlwaysRecovers
<1>1. Inv => StageCompleteAlwaysRecovers
  BY DEF Inv
<1>2. QED
  BY <1>1, Invariance, PTL

\* Only the last step of a restore returns "restored", and it has fsynced the
\* directory: no power loss takes the tree back, no recovery rolls it back.
THEOREM Durable == ASSUME GatedLaunch, WrittenBack PROVE Spec => RestoredIsDurable
<1> DEFINE Returned(p) == pc[p] = "syncDrop" /\ pc'[p] = "idle" /\ outcome' = "restored"
                          /\ holder = p
           Kept(p) == \A d \in Survivors' : Save(d) = Whole(want[p]) /\ d.journal = NoJournal
<1>1. ASSUME Inv, Inv', [Next]_vars, NEW p \in Proc, Returned(p) PROVE Kept(p)
  <2>1. PcInv(p) /\ outcome = "none" /\ pc \in [Proc -> Pc] /\ p # NoProc
    BY <1>1, RestoreAssumption DEF Inv, TypeOK
  <2>2. /\ NoneRecorded(p) /\ dir.target = Whole(want[p])
        /\ dir \in Directory /\ DirInv(dir)
    BY <1>1, <2>1 DEF PcInv, Inv, TypeOK
  <2>3. PICK q \in Proc : ReturnRestored(q)
    BY <1>1, <2>1 DEF Next, vars, CallRestore, CallRecover, AcquireLock, Step, RecoveryStep,
       InstallStep, Crash, PowerLoss, Writeback, Launch, Play, Exit, Decide, ClearTarget,
       PutBack, Sync, SweepStage, SweepJournal, ReturnRecovered, RefuseSnapshot, CreateStage,
       FillStage, AbandonStage, SyncTree, JournalStage, ClearBackup, SetAside, WriteJournal,
       Install, DropJournal, Return, RecoveryErrors
  <2>4. dir' = dir /\ lost' = {}
    BY <2>3 DEF ReturnRestored
  <2>5. Survivors' = {Survivor(dir)}
    BY <2>4 DEF Survivors
  <2>6. Survivor(dir).journal = NoJournal /\ Save(Survivor(dir)) = Save(dir)
    BY <2>2, LossKeeps DEF NoneRecorded
  <2>7. Save(dir) = Whole(want[p])
    BY <2>2, PlanOf DEF NoneRecorded, NoJournal
  <2>8. QED
    BY <2>5, <2>6, <2>7
<1>2. Inv /\ Inv' /\ [Next]_vars => [\A p \in Proc : Returned(p) => Kept(p)]_vars
  BY <1>1
<1>3. QED
  BY <1>2, Invariance, PTL DEF Spec, RestoredIsDurable

\* The replaced tree stays beside the target until the next restore has its own
\* tree staged: a recovery, a kill or a power loss at any other moment leaves it,
\* or puts it back.
THEOREM BackupKept == ASSUME GatedLaunch, WrittenBack PROVE Spec => BackupKeptUntilNextStage
<1> DEFINE Dropped == /\ dir.backup.kind = "whole" /\ dir'.backup # dir.backup
                      /\ dir'.target # dir.backup
           MayDrop == dir.journal.phase = "stage-complete" /\ Exists(dir.stage)
<1>1. ASSUME Inv, [Next]_vars, Dropped PROVE MayDrop
  <2>1. /\ dir \in Directory /\ DirInv(dir) /\ LostInv /\ lost \subseteq Directory
        /\ \A p \in Proc : PcInv(p)
    BY <1>1 DEF Inv, TypeOK
  <2>2. IsWhole(dir.backup)
    BY <1>1, <2>1, Trees DEF DirInv, Settled, Absent, Torn, Exists
  <2>3. \A p \in Proc : pc[p] \in {"clearBackup", "setAside"} => MayDrop
    BY <2>1, Trees DEF PcInv, Staged
  <2>4. \A p \in Proc : ClearBackup(p) \/ SetAside(p) => MayDrop
    BY <2>3 DEF ClearBackup, SetAside, Goto
  <2>5. ASSUME PowerLoss PROVE FALSE
    <3>1. PICK d \in lost \cup {dir} : dir' = Survivor(d)
      BY <2>5 DEF PowerLoss
    <3>2. dir'.target = d.target /\ dir'.backup = d.backup
      BY <2>1, <3>1, LossKeeps DEF LostInv
    <3>3. dir.backup \in {d.backup, d.target}
      BY <2>1, <2>2, <3>1 DEF LostInv
    <3>4. QED
      BY <1>1, <3>2, <3>3
  <2>6. ASSUME NEW p \in Proc, RecoveryStep(p) PROVE FALSE
    <3>1. CASE PutBack(p)
      BY <1>1, <2>1, <3>1 DEF PutBack, Becomes, Directory
    <3>2. CASE RecoveryStep(p) /\ ~PutBack(p)
      <4>1. dir'.backup = dir.backup
        BY <2>1, <3>2 DEF RecoveryStep, Decide, ClearTarget, Sync, SweepStage, SweepJournal,
           ReturnRecovered, Becomes, Directory
      <4>2. QED
        BY <1>1, <4>1
    <3>3. QED
      BY <2>6, <3>1, <3>2
  <2>7. ASSUME NEW p \in Proc, InstallStep(p), ~ClearBackup(p), ~SetAside(p) PROVE FALSE
    <3>1. dir'.backup = dir.backup
      BY <2>1, <2>7 DEF InstallStep, RefuseSnapshot, CreateStage, FillStage, AbandonStage,
         SyncTree, JournalStage, Sync, WriteJournal, Install, DropJournal, ReturnRestored,
         Becomes, Writes, Directory
    <3>2. QED
      BY <1>1, <3>1
  <2>8. ASSUME \/ \E p \in Proc : \/ \E r \in Rev : CallRestore(p, r)
                                  \/ CallRecover(p) \/ AcquireLock(p) \/ Crash(p)
               \/ Writeback \/ Launch \/ (\E r \in Rev : Play(r)) \/ Exit
               \/ UNCHANGED vars
        PROVE  FALSE
    <3>1. dir'.backup = dir.backup
      BY <2>1, <2>8 DEF CallRestore, CallRecover, AcquireLock, Crash, Writeback, Launch, Play,
         Exit, vars, Directory
    <3>2. QED
      BY <1>1, <3>1
  <2>9. QED
    BY <1>1, <2>4, <2>5, <2>6, <2>7, <2>8 DEF Next, Step
<1>2. Inv /\ [Next]_vars => [Dropped => MayDrop]_vars
  BY <1>1
<1>3. QED
  BY <1>2, Invariance, PTL DEF Spec, BackupKeptUntilNextStage

(***************************************************************************)
(* The restore transaction implements the atomic replacement               *)
(***************************************************************************)
\* A power loss would undo nothing, or the one restore that is not on disk.
PrevIs ==
    /\ Save(dir) \in Settled /\ Prev \in Settled /\ Asked \subseteq Settled
    /\ (\A d \in lost : Save(d) = Save(dir)) => Prev = Save(dir)
    /\ \A d \in lost : Save(d) # Save(dir) => Prev = Save(d)

\* The invariant settles what a power loss would bring back.
LEMMA PrevOf == Inv => PrevIs
<1> SUFFICES ASSUME Inv PROVE PrevIs
  OBVIOUS
<1>1. /\ dir \in Directory /\ DirInv(dir) /\ lost \subseteq Directory /\ LostInv
      /\ want \in [Proc -> Rev \cup {NoRev}]
  BY DEF Inv, TypeOK
<1>2. \A d \in lost : Save(Survivor(d)) = Save(d) /\ Save(d) \in Settled
  BY <1>1, LossKeeps, PlanOf DEF LostInv
<1>3. Undone = {Save(d) : d \in lost} \ {Save(dir)}
  BY <1>2 DEF Undone
<1>4. Save(dir) \in Settled
  BY <1>1, PlanOf
<1>5. Asked \subseteq Settled
  BY <1>1 DEF Asked, Settled
<1>6. (\A d \in lost : Save(d) = Save(dir)) => Prev = Save(dir)
  BY <1>3 DEF Prev
<1>7. ASSUME NEW d \in lost, Save(d) # Save(dir) PROVE Prev = Save(d)
  <2>1. Undone = {Save(d)}
    BY <1>1, <1>3, <1>7 DEF LostInv
  <2>2. QED
    BY <2>1 DEF Prev
<1>8. QED
  BY <1>2, <1>4, <1>5, <1>6, <1>7 DEF PrevIs

\* The same of the next state.
LEMMA PrevOfNext == Inv' => PrevIs'
BY PrevOf, PTL

\* A quiet step asks for a restore or gives one up, or puts the last on disk.
LEMMA QuietRefines ==
    ASSUME Inv, Inv', Quietly
    PROVE  Promise!Ask \/ Promise!Settle
<1>1. /\ Prev' \in Settled /\ Asked' \subseteq Settled
      /\ (\A d \in lost' : Save(d) = Save(dir')) => Prev' = Save(dir')
      /\ \A d \in lost' : Save(d) # Save(dir') => Prev' = Save(d)
  BY PrevOfNext DEF PrevIs
<1>2. Save(dir') = Save(dir) /\ game' = game
  BY DEF Quietly
<1>3. CASE lost \subseteq lost' \/ \A d \in lost : Save(d) = Save(dir)
  <2>1. Prev' = Prev
    BY <1>1, <1>2, <1>3, PrevOf DEF Quietly, PrevIs
  <2>2. QED
    BY <1>1, <1>2, <2>1 DEF Promise!Ask
<1>4. CASE lost' = {} /\ want' = want
  <2>1. Prev' = Save(dir) /\ Asked' = Asked
    BY <1>1, <1>2, <1>4 DEF Asked
  <2>2. QED
    BY <1>2, <2>1 DEF Promise!Settle
<1>5. QED
  BY <1>3, <1>4 DEF Quietly

\* The rename of the stage is the moment a restore takes effect.
LEMMA InstallRefines ==
    ASSUME Inv, Inv', NEW p \in Proc, Install(p)
    PROVE  \E c \in Settled : Promise!Replace(c)
<1>1. /\ want[p] \in Rev /\ game # "running" /\ lost' \in {{}, {dir}}
      /\ want' = want /\ Save(dir') = Whole(want[p])
  BY InstallEffect
<1>2. game' = game /\ lost = {} /\ (dir \in lost' \/ dir' = dir)
  BY DEF Install, Goto, Becomes, Inv, PcInv
<1>3. Prev = Save(dir) /\ Prev' = Save(dir)
  BY <1>1, <1>2, PrevOf, PrevOfNext DEF PrevIs
<1>4. Whole(want[p]) \in Asked /\ Whole(want[p]) \in Settled /\ Asked' = Asked
  BY <1>1, RestoreAssumption DEF Asked, Settled
<1>5. QED
  BY <1>1, <1>2, <1>3, <1>4 DEF Promise!Replace

\* A power loss keeps the last restore or undoes it whole.
LEMMA PowerLossRefines ==
    ASSUME Inv, Inv', PowerLoss
    PROVE  Promise!PowerCut
<1>1. PICK d \in lost \cup {dir} : dir' = Survivor(d)
  BY DEF PowerLoss
<1>2. Save(dir') = Save(d)
  BY <1>1, LossKeeps DEF Inv, TypeOK, LostInv
<1>3. Save(d) \in {Save(dir), Prev}
  BY <1>1, PrevOf DEF PrevIs
<1>4. lost' = {} /\ game' = "stopped" /\ want' = [p \in Proc |-> NoRev]
  BY DEF PowerLoss
<1>5. Prev' = Save(dir')
  BY <1>4, PrevOfNext DEF PrevIs
<1>6. Asked' = {}
  BY <1>4 DEF Asked
<1>7. QED
  BY <1>2, <1>3, <1>4, <1>5, <1>6 DEF Promise!PowerCut

\* A game starts, saves and ends with nothing left for a power loss to undo.
LEMMA GameRefines ==
    ASSUME Inv, Inv', Launch \/ (\E r \in Rev : Play(r)) \/ Exit
    PROVE  Promise!Session \/ \E c \in Settled : Promise!Play(c)
<1>1. CASE Launch \/ Exit
  <2>1. UNCHANGED <<dir, lost, want>> /\ (game' = "running") = ~(game = "running")
    BY <1>1 DEF Launch, Exit
  <2>2. \A d \in lost : Save(d) = Save(dir)
    <3>1. CASE Launch
      BY <3>1 DEF Launch
    <3>2. CASE Exit
      BY <3>2, PlanOf DEF Exit, Inv, TypeOK, GameInv, LostInv
    <3>3. QED
      BY <1>1, <3>1, <3>2
  <2>3. Prev = Save(dir) /\ Prev' = Save(dir')
    BY <2>1, <2>2, PrevOf, PrevOfNext DEF PrevIs
  <2>4. Asked' = Asked
    BY <2>1 DEF Asked
  <2>5. QED
    BY <2>1, <2>3, <2>4 DEF Promise!Session
<1>2. CASE \E r \in Rev : Play(r)
  <2>1. PICK r \in Rev : Play(r)
    BY <1>2
  <2>2. /\ game = "running" /\ game' = "running" /\ want' = want
        /\ dir' = [dir EXCEPT !.target = Whole(r)]
    BY <2>1 DEF Play
  <2>3. \A d \in lost : Save(d) = Save(dir)
    BY <2>2, PlanOf DEF Inv, TypeOK, GameInv, LostInv
  <2>4. \A d \in lost' : Save(d) = Save(dir')
    BY <2>2, PlanOf DEF Inv, TypeOK, GameInv, LostInv
  <2>5. Save(dir') = Whole(r)
    <3>1. dir'.target = Whole(r)
      BY <2>2 DEF Inv, TypeOK, Directory
    <3>2. dir' \in Directory /\ DirInv(dir') /\ dir'.journal = NoJournal
      BY <2>2 DEF Inv, TypeOK, GameInv, DirInv, Installed
    <3>3. QED
      BY <3>1, <3>2, PlanOf DEF NoJournal
  <2>6. Prev = Save(dir) /\ Prev' = Save(dir')
    BY <2>3, <2>4, PrevOf, PrevOfNext DEF PrevIs
  <2>7. Whole(r) \in Settled /\ Asked' = Asked
    BY <2>2 DEF Settled, Asked
  <2>8. QED
    BY <2>2, <2>5, <2>6, <2>7 DEF Promise!Play
<1>3. QED
  BY <1>1, <1>2

\* The restore transaction, with its kills, power losses and recoveries, is an
\* atomic replacement of the folder's logical content.
THEOREM Refinement == ASSUME GatedLaunch, WrittenBack PROVE Spec => ImplementsAtomicReplace
<1>1. Init => Promise!Init
  <2> SUFFICES ASSUME Init PROVE Promise!Init
    OBVIOUS
  <2>1. Inv /\ lost = {} /\ game = "stopped" /\ want = [p \in Proc |-> NoRev]
    BY InitInv DEF Init
  <2>2. Asked = {}
    BY <2>1 DEF Asked
  <2>3. QED
    BY <2>1, <2>2, PrevOf DEF PrevIs, Promise!Init
<1>2. ASSUME Inv, Inv', [Next]_vars PROVE [Promise!Next]_(Promise!vars)
  <2>1. CASE UNCHANGED vars
    BY <2>1 DEF vars, Promise!vars, Prev, Undone, Asked
  <2>2. CASE Next
    <3>1. \/ Quietly \/ (\E p \in Proc : Install(p)) \/ PowerLoss
          \/ Launch \/ (\E r \in Rev : Play(r)) \/ Exit
      BY <1>2, <2>2, CallsKeep, RecoveryKeeps, StagingKeeps, SettingAsideKeeps, SwapKeeps,
         TroubleKeeps DEF Next, Step, InstallStep
    <3>2. QED
      BY <1>2, <3>1, QuietRefines, InstallRefines, PowerLossRefines, GameRefines
      DEF Promise!Next
  <2>3. QED
    BY <1>2, <2>1, <2>2
<1>3. QED
  BY <1>1, <1>2, Invariance, PTL DEF Spec, ImplementsAtomicReplace, Promise!Spec
=============================================================================
