-------------------------- MODULE SafRestoreProofs --------------------------
(***************************************************************************)
(* For any trees, operations and troubles, a restore that no other one     *)
(* overlaps keeps every invariant of SafRestore.                           *)
(***************************************************************************)
EXTENDS SafRestore, FiniteSetTheorems, TLAPS

\* No two restores overlap.
OneTask == \A j, k \in Task : j = k

(***************************************************************************)
(* The inductive invariant                                                 *)
(***************************************************************************)
Active(o) == lease[o] = "active"
Unsettled(o) == op[o].state \in {"MUTATING", "ROLLBACK_REQUIRED"}

\* The copy, if it is still there, is in restore-cas.
InCas(o) == op[o].before \in {cas[o], Nothing}
Retained(o) == op[o].state = "COMMITTED" => ~op[o].bundle /\ InCas(o)

\* Recovery leaves nothing pending before the next operation is created.
OnePending == \A o, p \in Pending : o = p

GameExcluded == game => \A o \in Op : ~Active(o)

PartialHeld == tree = Partial => \E o \in Op : Active(o) /\ Unsettled(o)

\* What the state file says of the tree, as long as the emulator is held.
TreeInv(o) ==
    /\ op[o].lease
    /\ op[o].state # "COMMITTED" => cas[o] = Nothing
    /\ op[o].state \in {"null", "PREPARED"} =>
           tree # Partial /\ op[o].before \in {tree, Nothing}
    /\ Unsettled(o) =>
           /\ op[o].before # Nothing
           /\ op[o].bundle
           /\ tree \in {op[o].before, op[o].desired, Partial}
    /\ op[o].state = "COMMITTED" => tree = op[o].desired /\ op[o].before # Nothing
    /\ op[o].state = "ROLLED_BACK" => tree = op[o].before

OpInv(o) ==
    /\ Unsettled(o) => Active(o)
    /\ Active(o) => TreeInv(o)
    /\ lease[o] = "unknown" =>
           /\ op[o].state = "null" /\ ~op[o].bundle
           /\ op[o].before = Nothing /\ cas[o] = Nothing
    /\ op[o].bundle => cas[o] = Nothing
    /\ op[o].state = "COMMITTED" => op[o].bundle \/ InCas(o)

\* Where a played tree is, if not in its place.
SavedIn(o, s) ==
    \/ cas[o] = s
    \/ op[o].state \in {"MUTATING", "ROLLBACK_REQUIRED", "COMMITTED"} /\ op[o].before = s
SavesKept == \A s \in owed : tree = s \/ \E o \in Op : SavedIn(o, s)

WorldInv ==
    OnePending /\ GameExcluded /\ PartialHeld /\ SavesKept /\ \A o \in Op : OpInv(o)

\* What a restore knows of its operation, at each of its steps.
Working == {"capture", "encrypt", "confirm", "mutate", "replace", "write", "commit",
            "retain", "establish", "undo", "unwrite", "rolledBack"}
Aimed == {"confirm", "mutate", "replace", "write", "commit", "retain", "establish"}

StateAt(pc, state) ==
    /\ pc \in {"capture", "encrypt", "confirm"} => state = "null"
    /\ pc = "mutate" => state = "PREPARED"
    /\ pc \in {"replace", "write", "commit"} => state = "MUTATING"
    /\ pc \in {"retain", "establish"} => state = "COMMITTED"
    /\ pc \in {"undo", "unwrite", "rolledBack"} => state = "ROLLBACK_REQUIRED"
    /\ pc \in {"release", "delete"} => state \notin {"MUTATING", "ROLLBACK_REQUIRED"}

TaskInv(k) ==
    LET pc == task[k].pc
        o == Mine(k)
    IN  /\ pc = "acquire" => lease[o] = "unknown" /\ op[o].lease
        /\ pc \in Working => Active(o)
        /\ pc \in {"relock", "finally", "release"} => lease[o] # "unknown"
        /\ StateAt(pc, op[o].state)
        /\ pc \in Aimed \cup {"encrypt"} => task[k].head # Nothing
        /\ pc \in {"encrypt", "confirm", "mutate"} => op[o].before # Nothing
        /\ pc \in {"confirm", "mutate"} => op[o].bundle
        /\ pc \in Aimed => op[o].desired = task[k].head
        /\ pc = "commit" => tree = op[o].desired
        /\ pc = "rolledBack" => tree = op[o].before
        /\ pc = "establish" => Retained(o)
        /\ pc = "release" => task[k].mode = "failing" \/ Retained(o)
        /\ pc = "delete" => lease[o] \in Outcome /\ Retained(o)

TaskRecord == [pc : Pc, op : Op, mode : Mode, head : Cloud \cup {Nothing}]

Inv == TypeOK /\ BaselineTruthful /\ WorldInv /\ \A k \in Task : TaskInv(k)

\* The invariant holds before the first restore.
LEMMA InitInv == Init => Inv
<1> SUFFICES ASSUME Init PROVE Inv
  OBVIOUS
<1> USE SafAssumption
<1>1. TypeOK
  <2>1. tree \in Save \cup {Partial} /\ owed \subseteq Played
    BY DEF Init, Save
  <2>2. ledger \in {[tree |-> Nothing, head |-> Nothing]}
    BY DEF Init
  <2>3. op \in [Op -> Operation]
    BY DEF Init, Operation, NoOperation, State
  <2>4. task \in [Task -> [pc : Pc, op : Op, mode : Mode, head : Cloud \cup {Nothing}]]
    BY DEF Init, Pc, Mode, Op, NoTask
  <2>5. trouble \in 0..MaxTrouble
    BY DEF Init
  <2>6. QED
    BY <2>1, <2>2, <2>3, <2>4, <2>5 DEF Init, TypeOK
<1>2. BaselineTruthful
  BY DEF Init, BaselineTruthful
<1>3. WorldInv
  BY DEF Init, WorldInv, OnePending, GameExcluded, PartialHeld, SavesKept, OpInv, TreeInv,
         Unsettled, Active, Pending, NoOperation
<1>4. \A k \in Task : TaskInv(k)
  BY DEF Init, TaskInv, NoTask, Working, Aimed, StateAt, Mine
<1>5. QED
  BY <1>1, <1>2, <1>3, <1>4 DEF Inv

(***************************************************************************)
(* What every case needs                                                   *)
(***************************************************************************)
\* A restore's own operation is one of the operations.
LEMMA Typed ==
    ASSUME TypeOK, NEW k \in Task
    PROVE  /\ Mine(k) \in Op
           /\ task[k].pc \in Pc
           /\ task[k].mode \in Mode
           /\ task[k].head \in Cloud \cup {Nothing}
           /\ op[Mine(k)] \in Operation
BY DEF TypeOK, Mine

\* A step that changes one operation, its lease, its backup or, under its
\* lease, the tree, keeps the invariant of all, if it keeps that of this one
\* and the played saves that it has.
LEMMA OwnOperation ==
    ASSUME TypeOK, WorldInv, NEW o \in Op,
           \A p \in Op \ {o} : op'[p] = op[p] /\ lease'[p] = lease[p] /\ cas'[p] = cas[p],
           game' = game, owed' = owed,
           op'[o].lease => op[o].lease \/ Pending = {},
           Active(o)' => Active(o) \/ ~game,
           tree' # tree => Active(o),
           tree' = Partial =>
               (Active(o) /\ Unsettled(o))' \/ (tree = Partial /\ ~Unsettled(o)),
           OpInv(o)',
           \A s \in owed : tree = s \/ SavedIn(o, s) => tree' = s \/ SavedIn(o, s)'
    PROVE  WorldInv'
<1>1. OnePending'
  BY DEF WorldInv, OnePending, Pending
<1>2. GameExcluded'
  BY DEF WorldInv, GameExcluded, Active
<1>3. PartialHeld'
  BY DEF WorldInv, PartialHeld, Active, Unsettled
<1>4. SavesKept'
  BY DEF WorldInv, SavesKept, SavedIn
<1>5. ASSUME NEW p \in Op \ {o} PROVE OpInv(p)'
  <2>1. OpInv(p)
    BY DEF WorldInv
  <2>2. CASE tree' = tree
    BY <2>1, <2>2, <1>5 DEF OpInv, TreeInv, InCas, Active, Unsettled
  <2>3. CASE tree' # tree
    <3>1. ~Active(p)
      BY <2>3 DEF WorldInv, OnePending, Pending, OpInv, TreeInv
    <3>2. QED
      BY <3>1, <2>1, <1>5 DEF OpInv, InCas, Active, Unsettled
  <2>4. QED
    BY <2>2, <2>3
<1>6. QED
  BY <1>1, <1>2, <1>3, <1>4, <1>5 DEF WorldInv

\* A step that changes no operation and no tree.
LEMMA NothingChanges ==
    ASSUME WorldInv, UNCHANGED <<tree, op, cas, lease, game, owed>>
    PROVE  WorldInv'
BY DEF WorldInv, OnePending, Pending, GameExcluded, PartialHeld, SavesKept, SavedIn, OpInv,
       TreeInv, InCas, Active, Unsettled

\* Writing a state file changes that state and nothing else.
LEMMA SetStateEffect ==
    ASSUME TypeOK, NEW o \in Op, NEW s \in State, SetState(o, s)
    PROVE  /\ op' \in [Op -> Operation]
           /\ op'[o] = [op[o] EXCEPT !.state = s]
           /\ \A p \in Op \ {o} : op'[p] = op[p]
<1>1. op[o] \in Operation /\ op' = [op EXCEPT ![o] = [op[o] EXCEPT !.state = s]]
  BY DEF TypeOK, SetState
<1>2. [op[o] EXCEPT !.state = s] \in Operation
  BY <1>1 DEF Operation
<1>3. QED
  BY <1>1, <1>2 DEF TypeOK

\* Keeping a committed operation's backup changes that operation only.
LEMMA RetainEffect ==
    ASSUME TypeOK, WorldInv, NEW o \in Op, Retain(o), op[o].state = "COMMITTED"
    PROVE  /\ op' \in [Op -> Operation] /\ cas' \in [Op -> Save \cup {Nothing}]
           /\ aged' \subseteq Op
           /\ op'[o] = [op[o] EXCEPT !.bundle = FALSE]
           /\ \A p \in Op \ {o} : op'[p] = op[p] /\ cas'[p] = cas[p]
           /\ Retained(o)'
           /\ cas[o] \in {cas'[o], Nothing}
<1>1. op[o] \in Operation /\ op' = [op EXCEPT ![o] = [op[o] EXCEPT !.bundle = FALSE]]
  BY DEF TypeOK, Retain
<1>2. [op[o] EXCEPT !.bundle = FALSE] \in Operation
  BY <1>1 DEF Operation
<1>3. op' \in [Op -> Operation] /\ op'[o] = [op[o] EXCEPT !.bundle = FALSE]
      /\ \A p \in Op \ {o} : op'[p] = op[p]
  BY <1>1, <1>2 DEF TypeOK
<1>4. op[o].before \in Save \cup {Nothing}
  BY <1>1 DEF Operation
<1>5. cas' \in [Op -> Save \cup {Nothing}] /\ \A p \in Op \ {o} : cas'[p] = cas[p]
  BY <1>4 DEF TypeOK, Retain
<1>6. OpInv(o)
  BY DEF WorldInv
<1>7. /\ op'[o].before = op[o].before /\ ~op'[o].bundle
      /\ cas'[o] = IF op[o].bundle THEN op[o].before ELSE cas[o]
  BY <1>1, <1>3 DEF Retain, TypeOK, Operation
<1>8. aged' \subseteq Op
  BY DEF TypeOK, Retain, CleanupRetention, Surplus
<1>9. QED
  BY <1>3, <1>5, <1>6, <1>7, <1>8 DEF OpInv, Retained, InCas

\* A committed operation's backup moves to restore-cas.
LEMMA RetainKeeps ==
    ASSUME TypeOK, WorldInv, NEW o \in Op, Retain(o), op[o].state = "COMMITTED",
           UNCHANGED <<tree, lease, game, owed>>
    PROVE  /\ WorldInv'
           /\ op' \in [Op -> Operation] /\ cas' \in [Op -> Save \cup {Nothing}]
           /\ aged' \subseteq Op
           /\ Retained(o)'
           /\ op'[o] = [op[o] EXCEPT !.bundle = FALSE]
           /\ op'[o].state = "COMMITTED" /\ op'[o].desired = op[o].desired
<1>1. /\ op' \in [Op -> Operation] /\ cas' \in [Op -> Save \cup {Nothing}]
      /\ aged' \subseteq Op
      /\ op'[o] = [op[o] EXCEPT !.bundle = FALSE]
      /\ \A p \in Op \ {o} : op'[p] = op[p] /\ cas'[p] = cas[p]
      /\ Retained(o)'
      /\ cas[o] \in {cas'[o], Nothing}
  BY RetainEffect
<1>2. /\ op'[o].state = "COMMITTED" /\ ~op'[o].bundle /\ op'[o].lease = op[o].lease
      /\ op'[o].before = op[o].before /\ op'[o].desired = op[o].desired
  BY <1>1 DEF TypeOK, Operation
<1>3. OpInv(o)
  BY DEF WorldInv
<1>4. Active(o)' => TreeInv(o)'
  <2>1. Active(o)' => Active(o) /\ TreeInv(o)
    BY <1>3 DEF OpInv, Active
  <2>2. QED
    BY <1>2, <2>1 DEF TreeInv, Unsettled
<1>5. OpInv(o)'
  BY <1>1, <1>2, <1>3, <1>4 DEF OpInv, Active, Unsettled, Retained
<1>6. ASSUME NEW s \in owed, tree = s \/ SavedIn(o, s) PROVE tree' = s \/ SavedIn(o, s)'
  <2>1. s # Nothing
    BY SafAssumption DEF TypeOK
  <2>2. QED
    BY <1>1, <1>2, <1>6, <2>1 DEF SavedIn
<1>7. WorldInv'
  BY <1>1, <1>2, <1>5, <1>6, OwnOperation DEF Active, Unsettled
<1>8. QED
  BY <1>1, <1>2, <1>7

\* A restore's next step is what it was set to.
LEMMA TaskEffect ==
    ASSUME TypeOK, NEW k \in Task, NEW t \in TaskRecord, task' = [task EXCEPT ![k] = t]
    PROVE  task' \in [Task -> TaskRecord] /\ task'[k] = t
BY DEF TypeOK, TaskRecord

\* Going to the next step changes nothing else that a restore knows.
LEMMA GotoEffect ==
    ASSUME TypeOK, NEW k \in Task, NEW pc \in Pc, Goto(k, pc)
    PROVE  /\ task' \in [Task -> TaskRecord]
           /\ task'[k].pc = pc /\ task'[k].op = task[k].op
           /\ task'[k].mode = task[k].mode /\ task'[k].head = task[k].head
<1>1. task[k] \in TaskRecord /\ task' = [task EXCEPT ![k] = [task[k] EXCEPT !.pc = pc]]
  BY DEF TypeOK, TaskRecord, Goto
<1>2. [task[k] EXCEPT !.pc = pc] \in TaskRecord
  BY <1>1 DEF TaskRecord
<1>3. QED
  BY <1>1, <1>2, TaskEffect DEF TaskRecord

\* A restore that ends is idle.
LEMMA FinishEffect ==
    ASSUME TypeOK, NEW k \in Task, Finish(k)
    PROVE  task' \in [Task -> TaskRecord] /\ task'[k].pc = "idle"
<1>1. NoTask \in TaskRecord
  BY SafAssumption DEF TaskRecord, NoTask, Pc, Mode, Op
<1>2. QED
  BY <1>1, TaskEffect DEF Finish, NoTask

\* The only restore's invariant, and the world's, make the invariant.
LEMMA Together ==
    ASSUME OneTask, NEW k \in Task, TypeOK', BaselineTruthful', WorldInv', TaskInv(k)'
    PROVE  Inv'
BY DEF Inv, OneTask

\* A step that changes only what a task does.
LEMMA OnlyTask ==
    ASSUME OneTask, Inv, NEW k \in Task, task' \in [Task -> TaskRecord],
           UNCHANGED <<tree, head, op, cas, aged, ledger, lease, game, owed>>,
           trouble' \in 0..MaxTrouble, TaskInv(k)'
    PROVE  Inv'
<1>1. WorldInv'
  BY NothingChanges DEF Inv
<1>2. TypeOK' /\ BaselineTruthful'
  BY DEF Inv, TypeOK, TaskRecord, BaselineTruthful
<1>3. QED
  BY <1>1, <1>2, Together

(***************************************************************************)
(* Recovery                                                                *)
(***************************************************************************)
\* The steps of recoverPending up to the release keep the invariant.
LEMMA RecoveryKeeps ==
    ASSUME OneTask, Inv, NEW k \in Task,
           \/ Begin(k) \/ RecoverReleased(k) \/ RecoverRefused(k) \/ RecoverActive(k)
           \/ RecoverUnknown(k) \/ Relock(k)
    PROVE  Inv'
<1>1. TypeOK /\ BaselineTruthful /\ WorldInv /\ TaskInv(k)
  BY DEF Inv
<1>2. \A o \in Op : OpInv(o)
  BY <1>1 DEF WorldInv
<1>3. task[k] \in TaskRecord
  BY <1>1 DEF TypeOK, TaskRecord
<1>4. CASE Begin(k) \/ RecoverRefused(k) \/ RecoverActive(k)
  <2>1. /\ task' \in [Task -> TaskRecord] /\ task'[k].pc \in {"idle", "recover", "relock"}
        /\ task'[k].pc = "relock" => lease[task'[k].op] # "unknown"
    <3>1. CASE Begin(k)
      <4>1. [task[k] EXCEPT !.pc = "recover", !.mode = "recovering"] \in TaskRecord
        BY <1>3 DEF TaskRecord, Pc, Mode
      <4>2. task' = [task EXCEPT ![k] = [task[k] EXCEPT !.pc = "recover", !.mode = "recovering"]]
        BY <1>1, <3>1 DEF TypeOK, Begin
      <4>3. QED
        BY <1>1, <1>3, <4>1, <4>2, TaskEffect DEF TaskRecord
    <3>2. CASE RecoverRefused(k)
      BY <1>1, <3>2, FinishEffect DEF RecoverRefused
    <3>3. CASE RecoverActive(k)
      <4>1. PICK o \in Op : /\ lease[o] = "active"
                            /\ task' = [task EXCEPT ![k].pc = "relock", ![k].op = o]
        BY <3>3 DEF RecoverActive, Pending
      <4>2. [task[k] EXCEPT !.pc = "relock", !.op = o] \in TaskRecord
        BY <1>3 DEF TaskRecord, Pc
      <4>3. task' = [task EXCEPT ![k] = [task[k] EXCEPT !.pc = "relock", !.op = o]]
        BY <1>1, <4>1 DEF TypeOK
      <4>4. task' \in [Task -> TaskRecord] /\ task'[k] = [task[k] EXCEPT !.pc = "relock", !.op = o]
        BY <1>1, <4>2, <4>3, TaskEffect
      <4>5. QED
        BY <1>3, <4>1, <4>4 DEF TaskRecord
    <3>4. QED
      BY <1>4, <3>1, <3>2, <3>3
  <2>2. UNCHANGED <<tree, head, op, cas, aged, ledger, lease, game, owed, trouble>>
    BY <1>4 DEF Begin, RecoverRefused, RecoverActive, Emulator, Store, Backups
  <2>3. WorldInv'
    BY <1>1, <2>2, NothingChanges
  <2>4. TypeOK' /\ BaselineTruthful'
    BY <1>1, <2>1, <2>2 DEF TypeOK, TaskRecord, BaselineTruthful
  <2>5. TaskInv(k)'
    BY <2>1, <2>2 DEF Mine, TaskInv, Working, Aimed, StateAt
  <2>6. QED
    BY <2>3, <2>4, <2>5, Together
<1>5. CASE RecoverReleased(k)
  <2>1. PICK o \in Pending :
          /\ lease[o] \in Outcome
          /\ ReceiptMatches(o)
          /\ IF lease[o] = "COMMITTED" THEN Retain(o) ELSE UNCHANGED <<op, Backups>>
          /\ task' = [task EXCEPT ![k].pc = "delete", ![k].op = o]
    BY <1>5 DEF RecoverReleased
  <2>2. /\ o \in Op
        /\ op[o].state \notin {"MUTATING", "ROLLBACK_REQUIRED"}
        /\ op[o].state = "COMMITTED" <=> lease[o] = "COMMITTED"
    BY <1>2, <2>1 DEF Pending, Outcome, ReceiptMatches
  <2>3. task' \in [Task -> TaskRecord] /\ task'[k].pc = "delete" /\ task'[k].op = o
    <3>1. [task[k] EXCEPT !.pc = "delete", !.op = o] \in TaskRecord
      BY <1>3, <2>2 DEF TaskRecord, Pc
    <3>2. task' = [task EXCEPT ![k] = [task[k] EXCEPT !.pc = "delete", !.op = o]]
      BY <1>1, <2>1 DEF TypeOK
    <3>3. QED
      BY <1>1, <1>3, <3>1, <3>2, TaskEffect DEF TaskRecord
  <2>4. UNCHANGED <<tree, head, ledger, lease, game, owed, trouble>>
    BY <1>5 DEF RecoverReleased, Emulator, Backups
  <2>5. /\ op' \in [Op -> Operation] /\ cas' \in [Op -> Save \cup {Nothing}]
        /\ aged' \subseteq Op
        /\ WorldInv' /\ op'[o].state = op[o].state /\ Retained(o)'
    <3>1. CASE lease[o] = "COMMITTED"
      BY <1>1, <2>1, <2>2, <2>4, <3>1, RetainKeeps
    <3>2. CASE lease[o] # "COMMITTED"
      BY <1>1, <2>1, <2>2, <2>4, <3>2, NothingChanges DEF TypeOK, Retained, Backups
    <3>3. QED
      BY <3>1, <3>2
  <2>6. TypeOK' /\ BaselineTruthful'
    BY <1>1, <2>3, <2>4, <2>5 DEF TypeOK, TaskRecord, BaselineTruthful
  <2>7. TaskInv(k)'
    BY <2>1, <2>2, <2>3, <2>4, <2>5 DEF TaskInv, Working, Aimed, StateAt, Mine
  <2>8. QED
    BY <2>5, <2>6, <2>7, Together
<1>6. CASE RecoverUnknown(k)
  <2>1. UNCHANGED <<tree, head, op, cas, aged, ledger, game, owed, trouble>>
    BY <1>6 DEF RecoverUnknown, Emulator, Store, Backups
  <2>2. CASE game
    <3>1. Finish(k) /\ lease' = lease
      BY <1>6, <2>2 DEF RecoverUnknown
    <3>2. TypeOK' /\ BaselineTruthful'
      BY <1>1, <2>1, <3>1, FinishEffect DEF TypeOK, TaskRecord, BaselineTruthful
    <3>3. TaskInv(k)'
      BY <1>1, <3>1, FinishEffect DEF TaskInv, Working, Aimed, StateAt
    <3>4. QED
      BY <1>1, <2>1, <3>1, <3>2, <3>3, NothingChanges, Together
  <2>3. CASE ~game
    <3>1. PICK o \in Pending : lease[o] = "unknown" /\ SetLease(o, "active")
                               /\ task' = [task EXCEPT ![k].pc = "relock", ![k].op = o]
      BY <1>6, <2>3 DEF RecoverUnknown
    <3>2. o \in Op /\ op[o].lease /\ OpInv(o)
      BY <1>2, <3>1 DEF Pending
    <3>3. task' \in [Task -> TaskRecord] /\ task'[k].pc = "relock" /\ task'[k].op = o
      <4>1. [task[k] EXCEPT !.pc = "relock", !.op = o] \in TaskRecord
        BY <1>3, <3>2 DEF TaskRecord, Pc
      <4>2. task' = [task EXCEPT ![k] = [task[k] EXCEPT !.pc = "relock", !.op = o]]
        BY <1>1, <3>1 DEF TypeOK
      <4>3. QED
        BY <1>1, <1>3, <4>1, <4>2, TaskEffect DEF TaskRecord
    <3>4. /\ lease' \in [Op -> {"unknown", "active"} \cup Outcome]
          /\ lease'[o] = "active"
          /\ \A p \in Op \ {o} : lease'[p] = lease[p]
      BY <1>1, <3>1, <3>2 DEF TypeOK, SetLease
    <3>5. tree # Partial
      BY <1>1, <1>2, <3>1, <3>2 DEF WorldInv, PartialHeld, OnePending, Pending, OpInv, TreeInv,
         Active
    <3>6. OpInv(o)'
      BY <2>1, <3>1, <3>2, <3>4, <3>5 DEF OpInv, TreeInv, InCas, Active, Unsettled
    <3>7. WorldInv'
      BY <1>1, <2>1, <2>3, <3>2, <3>4, <3>5, <3>6, OwnOperation DEF SavedIn
    <3>8. TypeOK' /\ BaselineTruthful'
      BY <1>1, <2>1, <3>3, <3>4 DEF TypeOK, TaskRecord, BaselineTruthful
    <3>9. TaskInv(k)'
      BY <3>3, <3>4 DEF Mine, TaskInv, Working, Aimed, StateAt
    <3>10. QED
      BY <3>7, <3>8, <3>9, Together
  <2>4. QED
    BY <2>2, <2>3
<1>7. CASE Relock(k)
  <2>1. PICK o \in Op : o = Mine(k)
    BY <1>1, Typed
  <2>2. OpInv(o) /\ Active(o) /\ TreeInv(o)
    BY <1>2, <1>7, <2>1 DEF Relock, OpInv, Active
  <2>3. UNCHANGED <<tree, head, ledger, lease, game, owed, trouble>>
    BY <1>7 DEF Relock, Emulator, Backups
  <2>4. CASE op[o].state \in {"MUTATING", "ROLLBACK_REQUIRED"}
    <3>1. /\ SetState(o, "ROLLBACK_REQUIRED") /\ Goto(k, "undo")
          /\ UNCHANGED <<cas, aged>>
      BY <1>7, <2>1, <2>4 DEF Relock, Backups
    <3>2. /\ op' \in [Op -> Operation]
          /\ op'[o] = [op[o] EXCEPT !.state = "ROLLBACK_REQUIRED"]
          /\ \A p \in Op \ {o} : op'[p] = op[p]
      BY <1>1, <3>1, SetStateEffect DEF State
    <3>3. /\ op'[o].lease = op[o].lease /\ op'[o].before = op[o].before
          /\ op'[o].bundle = op[o].bundle /\ op'[o].desired = op[o].desired
          /\ op'[o].state = "ROLLBACK_REQUIRED"
      BY <1>1, <3>2 DEF TypeOK, Operation
    <3>4. OpInv(o)'
      BY <2>2, <2>3, <2>4, <3>1, <3>3 DEF OpInv, TreeInv, Active, Unsettled
    <3>5. WorldInv'
      BY <1>1, <2>2, <2>3, <2>4, <3>1, <3>2, <3>3, <3>4, OwnOperation
         DEF SavedIn, Active, Unsettled
    <3>6. task' \in [Task -> TaskRecord] /\ task'[k].pc = "undo" /\ task'[k].op = o
      BY <1>1, <2>1, <3>1, GotoEffect DEF Pc, Mine
    <3>7. TypeOK' /\ BaselineTruthful'
      BY <1>1, <2>3, <3>1, <3>2, <3>6 DEF TypeOK, TaskRecord, BaselineTruthful
    <3>8. TaskInv(k)'
      BY <2>2, <2>3, <3>3, <3>6 DEF TaskInv, Working, Aimed, StateAt, Mine, Active
    <3>9. QED
      BY <3>5, <3>7, <3>8, Together
  <2>5. CASE op[o].state \notin {"MUTATING", "ROLLBACK_REQUIRED"}
    <3>1. /\ op' \in [Op -> Operation] /\ cas' \in [Op -> Save \cup {Nothing}]
          /\ aged' \subseteq Op
          /\ WorldInv' /\ op'[o].state = op[o].state /\ Retained(o)'
          /\ Goto(k, "release")
      <4>1. CASE op[o].state = "COMMITTED"
        BY <1>1, <1>7, <2>1, <2>3, <4>1, RetainKeeps DEF Relock
      <4>2. CASE op[o].state # "COMMITTED"
        BY <1>1, <1>7, <2>1, <2>3, <2>5, <4>2, NothingChanges
           DEF Relock, TypeOK, Retained, Backups
      <4>3. QED
        BY <4>1, <4>2
    <3>2. task' \in [Task -> TaskRecord] /\ task'[k].pc = "release" /\ task'[k].op = o
      BY <1>1, <2>1, <3>1, GotoEffect DEF Pc, Mine
    <3>3. TypeOK' /\ BaselineTruthful'
      BY <1>1, <2>3, <3>1, <3>2 DEF TypeOK, TaskRecord, BaselineTruthful
    <3>4. TaskInv(k)'
      BY <2>2, <2>3, <2>5, <3>1, <3>2 DEF TaskInv, Working, Aimed, StateAt, Mine, Active
    <3>5. QED
      BY <3>1, <3>3, <3>4, Together
  <2>6. QED
    BY <2>4, <2>5
<1>8. QED
  BY <1>4, <1>5, <1>6, <1>7

(***************************************************************************)
(* A restore, up to the mutation of the tree                               *)
(***************************************************************************)
\* The steps of a restore before the tree is touched keep the invariant.
LEMMA PreparationKeeps ==
    ASSUME OneTask, Inv, NEW k \in Task,
           \/ Create(k) \/ Acquire(k) \/ Capture(k) \/ Encrypt(k) \/ Confirm(k) \/ Mutate(k)
    PROVE  Inv'
<1>1. TypeOK /\ BaselineTruthful /\ WorldInv /\ TaskInv(k)
  BY DEF Inv
<1>2. PICK o \in Op : o = Mine(k)
  BY <1>1, Typed
<1>3. OpInv(o) /\ op[o] \in Operation /\ task[k] \in TaskRecord
  BY <1>1 DEF WorldInv, TypeOK, TaskRecord
<1>4. CASE Create(k)
  <2>1. UNCHANGED <<tree, head, cas, aged, ledger, lease, game, owed, trouble>> /\ Pending = {}
    BY <1>4 DEF Create, Emulator, Backups
  <2>2. CASE Fresh = {}
    <3>1. Finish(k) /\ op' = op
      BY <1>4, <2>2 DEF Create
    <3>2. TaskInv(k)'
      BY <1>1, <3>1, FinishEffect DEF TaskInv, Working, Aimed, StateAt
    <3>3. QED
      BY <1>1, <2>1, <3>1, <3>2, FinishEffect, OnlyTask DEF TypeOK
  <2>3. CASE Fresh # {}
    <3>1. PICK p \in Fresh :
            /\ \A q \in Fresh : p <= q
            /\ op' = [op EXCEPT ![p].lease = TRUE]
            /\ task' = [task EXCEPT ![k].pc = "acquire", ![k].op = p, ![k].mode = "restoring"]
      BY <1>4, <2>3 DEF Create
    <3>2. p \in Op /\ op[p] = NoOperation /\ lease[p] = "unknown" /\ OpInv(p)
      BY <1>1 DEF Fresh, WorldInv
    <3>3. task' \in [Task -> TaskRecord] /\ task'[k].pc = "acquire" /\ task'[k].op = p
      <4>1. [task[k] EXCEPT !.pc = "acquire", !.op = p, !.mode = "restoring"] \in TaskRecord
        BY <1>3, <3>2 DEF TaskRecord, Pc, Mode
      <4>2. task' = [task EXCEPT ![k] = [task[k] EXCEPT !.pc = "acquire", !.op = p,
                                                        !.mode = "restoring"]]
        BY <1>1, <3>1 DEF TypeOK
      <4>3. QED
        BY <1>1, <1>3, <4>1, <4>2, TaskEffect DEF TaskRecord
    <3>4. /\ op' \in [Op -> Operation]
          /\ op'[p] = [NoOperation EXCEPT !.lease = TRUE]
          /\ \A q \in Op \ {p} : op'[q] = op[q]
      <4>1. op' = [op EXCEPT ![p] = [NoOperation EXCEPT !.lease = TRUE]]
        BY <1>1, <3>1, <3>2 DEF TypeOK
      <4>2. [NoOperation EXCEPT !.lease = TRUE] \in Operation
        BY DEF NoOperation, Operation, State
      <4>3. QED
        BY <1>1, <3>2, <4>1, <4>2 DEF TypeOK
    <3>5. OpInv(p)'
      BY <2>1, <3>2, <3>4 DEF NoOperation, OpInv, Active, Unsettled
    <3>6. ASSUME NEW s \in owed PROVE ~SavedIn(p, s)
      BY <1>1, <3>2, SafAssumption DEF TypeOK, SavedIn, NoOperation, OpInv
    <3>7. WorldInv'
      BY <1>1, <2>1, <3>2, <3>4, <3>5, <3>6, OwnOperation
         DEF NoOperation, Active, Unsettled
    <3>8. TypeOK' /\ BaselineTruthful'
      BY <1>1, <2>1, <3>3, <3>4 DEF TypeOK, TaskRecord, BaselineTruthful
    <3>9. TaskInv(k)'
      BY <2>1, <3>2, <3>3, <3>4 DEF NoOperation, TaskInv, Working, Aimed, StateAt, Mine
    <3>10. QED
      BY <3>7, <3>8, <3>9, Together
  <2>4. QED
    BY <2>2, <2>3
<1>5. CASE Acquire(k)
  <2>1. /\ UNCHANGED <<tree, head, cas, aged, ledger, game, owed>>
        /\ lease[o] = "unknown" /\ op[o].lease
    BY <1>1, <1>2, <1>5 DEF Acquire, Emulator, Backups, TaskInv, At
  <2>2. CASE game
    <3>1. Finish(k) /\ op' = [op EXCEPT ![o] = NoOperation] /\ UNCHANGED <<lease, trouble>>
      BY <1>2, <1>5, <2>2 DEF Acquire
    <3>2. op' \in [Op -> Operation] /\ op'[o] = NoOperation
          /\ \A p \in Op \ {o} : op'[p] = op[p]
      BY <1>1, <3>1 DEF TypeOK, NoOperation, Operation, State
    <3>3. OpInv(o)'
      BY <1>3, <2>1, <3>1, <3>2 DEF NoOperation, OpInv, Active, Unsettled
    <3>4. ASSUME NEW s \in owed PROVE ~SavedIn(o, s)
      BY <1>1, <1>3, <2>1, SafAssumption DEF TypeOK, SavedIn, OpInv
    <3>5. WorldInv'
      BY <1>1, <1>3, <2>1, <3>1, <3>2, <3>3, <3>4, OwnOperation
         DEF NoOperation, Active, Unsettled, OpInv
    <3>6. TypeOK' /\ BaselineTruthful'
      BY <1>1, <2>1, <3>1, <3>2, FinishEffect DEF TypeOK, TaskRecord, BaselineTruthful
    <3>7. TaskInv(k)'
      BY <1>1, <3>1, FinishEffect DEF TaskInv, Working, Aimed, StateAt
    <3>8. QED
      BY <3>5, <3>6, <3>7, Together
  <2>3. CASE ~game
    <3>1. /\ SetLease(o, "active") /\ op' = op
          /\ \/ Goto(k, "capture") /\ UNCHANGED trouble
             \/ Finish(k) /\ CountTrouble
      BY <1>2, <1>5, <2>3 DEF Acquire
    <3>2. /\ lease' \in [Op -> {"unknown", "active"} \cup Outcome]
          /\ lease'[o] = "active"
          /\ \A p \in Op \ {o} : lease'[p] = lease[p]
      BY <1>1, <3>1 DEF TypeOK, SetLease
    <3>3. tree # Partial
      BY <1>1, <2>1 DEF WorldInv, PartialHeld, OnePending, Pending, OpInv, TreeInv, Active
    <3>4. OpInv(o)'
      BY <1>3, <2>1, <3>1, <3>2, <3>3 DEF OpInv, TreeInv, InCas, Active, Unsettled
    <3>5. WorldInv'
      BY <1>1, <2>1, <2>3, <3>1, <3>2, <3>3, <3>4, OwnOperation DEF SavedIn
    <3>6. /\ task' \in [Task -> TaskRecord] /\ task'[k].pc \in {"idle", "capture"}
          /\ task'[k].pc = "capture" => task'[k].op = o
      BY <1>1, <1>2, <3>1, FinishEffect, GotoEffect DEF Pc, Mine
    <3>7. trouble' \in 0..MaxTrouble
      BY <1>1, <3>1, SafAssumption DEF TypeOK, CountTrouble, MayFail
    <3>8. TypeOK' /\ BaselineTruthful'
      BY <1>1, <2>1, <3>1, <3>2, <3>6, <3>7 DEF TypeOK, TaskRecord, BaselineTruthful
    <3>9. TaskInv(k)'
      BY <1>3, <2>1, <3>1, <3>2, <3>6 DEF OpInv, TaskInv, Working, Aimed, StateAt, Mine, Active
    <3>10. QED
      BY <3>5, <3>8, <3>9, Together
  <2>4. QED
    BY <2>2, <2>3
<1>6. CASE Capture(k)
  <2>1. UNCHANGED <<tree, head, cas, aged, ledger, lease, game, owed, trouble>>
    BY <1>6 DEF Capture, Emulator, Backups
  <2>2. op[o].state = "null" /\ Active(o) /\ TreeInv(o)
    BY <1>1, <1>2, <1>3, <1>6 DEF Capture, At, TaskInv, Working, StateAt, OpInv
  <2>3. tree \in Save
    BY <1>1, <2>2 DEF TypeOK, TreeInv
  <2>4. /\ op' \in [Op -> Operation]
        /\ op'[o] = [op[o] EXCEPT !.before = tree]
        /\ \A p \in Op \ {o} : op'[p] = op[p]
    <3>1. op' = [op EXCEPT ![o] = [op[o] EXCEPT !.before = tree]]
      BY <1>1, <1>2, <1>6 DEF Capture, TypeOK
    <3>2. [op[o] EXCEPT !.before = tree] \in Operation
      BY <1>3, <2>3 DEF Operation
    <3>3. QED
      BY <1>1, <3>1, <3>2 DEF TypeOK
  <2>5. /\ op'[o].lease = op[o].lease /\ op'[o].state = "null"
        /\ op'[o].bundle = op[o].bundle /\ op'[o].before = tree
    BY <1>3, <2>2, <2>4 DEF Operation
  <2>6. OpInv(o)'
    BY <1>3, <2>1, <2>2, <2>5 DEF OpInv, TreeInv, Active, Unsettled
  <2>7. WorldInv'
    BY <1>1, <2>1, <2>2, <2>4, <2>5, <2>6, OwnOperation DEF SavedIn, Active, Unsettled
  <2>8. /\ task' \in [Task -> TaskRecord] /\ task'[k].pc = "encrypt" /\ task'[k].op = o
        /\ task'[k].head = head
    <3>1. [task[k] EXCEPT !.pc = "encrypt", !.head = head] \in TaskRecord
      BY <1>1, <1>3 DEF TypeOK, TaskRecord, Pc
    <3>2. task' = [task EXCEPT ![k] = [task[k] EXCEPT !.pc = "encrypt", !.head = head]]
      BY <1>1, <1>6 DEF Capture, TypeOK
    <3>3. QED
      BY <1>1, <1>2, <1>3, <3>1, <3>2, TaskEffect DEF TaskRecord, Mine
  <2>9. TypeOK' /\ BaselineTruthful'
    BY <1>1, <2>1, <2>4, <2>8 DEF TypeOK, TaskRecord, BaselineTruthful
  <2>10. head # Nothing /\ tree # Nothing
    BY <1>1, <2>3, SafAssumption DEF TypeOK, Save
  <2>11. TaskInv(k)'
    BY <2>1, <2>2, <2>5, <2>8, <2>10 DEF TaskInv, Working, Aimed, StateAt, Mine, Active
  <2>12. QED
    BY <2>7, <2>9, <2>11, Together
<1>7. CASE Encrypt(k)
  <2>1. UNCHANGED <<tree, head, cas, aged, ledger, lease, game, owed, trouble>>
    BY <1>7 DEF Encrypt, Emulator, Backups
  <2>2. /\ op[o].state = "null" /\ Active(o) /\ TreeInv(o)
        /\ op[o].before # Nothing /\ task[k].head # Nothing
    BY <1>1, <1>2, <1>3, <1>7 DEF Encrypt, At, TaskInv, Working, StateAt, OpInv
  <2>3. /\ op' \in [Op -> Operation]
        /\ op'[o] = [op[o] EXCEPT !.bundle = TRUE, !.desired = task[k].head]
        /\ \A p \in Op \ {o} : op'[p] = op[p]
    <3>1. op' = [op EXCEPT ![o] = [op[o] EXCEPT !.bundle = TRUE, !.desired = task[k].head]]
      BY <1>1, <1>2, <1>7 DEF Encrypt, TypeOK
    <3>2. [op[o] EXCEPT !.bundle = TRUE, !.desired = task[k].head] \in Operation
      BY <1>3 DEF Operation, TaskRecord
    <3>3. QED
      BY <1>1, <3>1, <3>2 DEF TypeOK
  <2>4. /\ op'[o].lease = op[o].lease /\ op'[o].state = "null" /\ op'[o].before = op[o].before
        /\ op'[o].bundle /\ op'[o].desired = task[k].head
    BY <1>3, <2>2, <2>3 DEF Operation
  <2>5. OpInv(o)'
    BY <1>3, <2>1, <2>2, <2>4 DEF OpInv, TreeInv, Active, Unsettled
  <2>6. WorldInv'
    BY <1>1, <2>1, <2>2, <2>3, <2>4, <2>5, OwnOperation DEF SavedIn, Active, Unsettled
  <2>7. /\ task' \in [Task -> TaskRecord] /\ task'[k].pc = "confirm" /\ task'[k].op = o
        /\ task'[k].head = task[k].head
    BY <1>1, <1>2, <1>7, GotoEffect DEF Encrypt, Pc, Mine
  <2>8. TypeOK' /\ BaselineTruthful'
    BY <1>1, <2>1, <2>3, <2>7 DEF TypeOK, TaskRecord, BaselineTruthful
  <2>9. TaskInv(k)'
    BY <2>1, <2>2, <2>4, <2>7 DEF TaskInv, Working, Aimed, StateAt, Mine, Active
  <2>10. QED
    BY <2>6, <2>8, <2>9, Together
<1>8. CASE Confirm(k)
  <2>1. UNCHANGED <<tree, head, cas, aged, ledger, lease, game, owed, trouble>>
    BY <1>8 DEF Confirm, Emulator, Backups
  <2>2. /\ op[o].state = "null" /\ Active(o) /\ TreeInv(o) /\ op[o].bundle
        /\ op[o].before # Nothing /\ task[k].head # Nothing /\ op[o].desired = task[k].head
    BY <1>1, <1>2, <1>3, <1>8 DEF Confirm, At, TaskInv, Working, Aimed, StateAt, OpInv
  <2>3. CASE Goto(k, "finally") /\ op' = op
    <3>1. task' \in [Task -> TaskRecord] /\ task'[k].pc = "finally" /\ task'[k].op = o
      BY <1>1, <1>2, <2>3, GotoEffect DEF Pc, Mine
    <3>2. TaskInv(k)'
      BY <2>1, <2>2, <3>1 DEF TaskInv, Working, Aimed, StateAt, Mine, Active
    <3>3. QED
      BY <1>1, <2>1, <2>3, <3>1, <3>2, OnlyTask DEF TypeOK
  <2>4. CASE SetState(o, "PREPARED") /\ Goto(k, "mutate")
    <3>1. /\ op' \in [Op -> Operation]
          /\ op'[o] = [op[o] EXCEPT !.state = "PREPARED"]
          /\ \A p \in Op \ {o} : op'[p] = op[p]
      BY <1>1, <2>4, SetStateEffect DEF State
    <3>2. /\ op'[o].lease = op[o].lease /\ op'[o].before = op[o].before
          /\ op'[o].bundle = op[o].bundle /\ op'[o].desired = op[o].desired
          /\ op'[o].state = "PREPARED"
      BY <1>3, <3>1 DEF Operation
    <3>3. OpInv(o)'
      BY <1>3, <2>1, <2>2, <3>2 DEF OpInv, TreeInv, Active, Unsettled
    <3>4. WorldInv'
      BY <1>1, <2>1, <2>2, <3>1, <3>2, <3>3, OwnOperation DEF SavedIn, Active, Unsettled
    <3>5. /\ task' \in [Task -> TaskRecord] /\ task'[k].pc = "mutate" /\ task'[k].op = o
          /\ task'[k].head = task[k].head
      BY <1>1, <1>2, <2>4, GotoEffect DEF Pc, Mine
    <3>6. TypeOK' /\ BaselineTruthful'
      BY <1>1, <2>1, <3>1, <3>5 DEF TypeOK, TaskRecord, BaselineTruthful
    <3>7. TaskInv(k)'
      BY <2>1, <2>2, <3>2, <3>5 DEF TaskInv, Working, Aimed, StateAt, Mine, Active
    <3>8. QED
      BY <3>4, <3>6, <3>7, Together
  <2>5. QED
    BY <1>2, <1>8, <2>3, <2>4 DEF Confirm
<1>9. CASE Mutate(k)
  <2>1. UNCHANGED <<tree, head, cas, aged, ledger, lease, game, owed, trouble>>
    BY <1>9 DEF Mutate, Emulator, Backups
  <2>2. /\ op[o].state = "PREPARED" /\ Active(o) /\ TreeInv(o) /\ op[o].bundle
        /\ op[o].before # Nothing /\ task[k].head # Nothing /\ op[o].desired = task[k].head
    BY <1>1, <1>2, <1>3, <1>9 DEF Mutate, At, TaskInv, Working, Aimed, StateAt, OpInv
  <2>3. /\ op' \in [Op -> Operation]
        /\ op'[o] = [op[o] EXCEPT !.state = "MUTATING"]
        /\ \A p \in Op \ {o} : op'[p] = op[p]
    BY <1>1, <1>2, <1>9, SetStateEffect DEF Mutate, State
  <2>4. /\ op'[o].lease = op[o].lease /\ op'[o].before = op[o].before
        /\ op'[o].bundle = op[o].bundle /\ op'[o].desired = op[o].desired
        /\ op'[o].state = "MUTATING"
    BY <1>3, <2>3 DEF Operation
  <2>5. OpInv(o)'
    BY <1>3, <2>1, <2>2, <2>4 DEF OpInv, TreeInv, Active, Unsettled
  <2>6. WorldInv'
    BY <1>1, <2>1, <2>2, <2>3, <2>4, <2>5, OwnOperation DEF SavedIn, Active, Unsettled, TreeInv
  <2>7. /\ task' \in [Task -> TaskRecord] /\ task'[k].pc = "replace" /\ task'[k].op = o
        /\ task'[k].head = task[k].head
    BY <1>1, <1>2, <1>9, GotoEffect DEF Mutate, Pc, Mine
  <2>8. TypeOK' /\ BaselineTruthful'
    BY <1>1, <2>1, <2>3, <2>7 DEF TypeOK, TaskRecord, BaselineTruthful
  <2>9. TaskInv(k)'
    BY <2>1, <2>2, <2>4, <2>7 DEF TaskInv, Working, Aimed, StateAt, Mine, Active
  <2>10. QED
    BY <2>6, <2>8, <2>9, Together
<1>10. QED
  BY <1>4, <1>5, <1>6, <1>7, <1>8, <1>9

(***************************************************************************)
(* A restore, from the mutation of the tree to its end                     *)
(***************************************************************************)
\* The steps that replace the tree, or roll it back, keep the invariant.
LEMMA MutationKeeps ==
    ASSUME OneTask, Inv, NEW k \in Task,
           \/ Replace(k) \/ WriteTree(k) \/ Commit(k) \/ RetainBackup(k) \/ Establish(k)
           \/ RolledBack(k)
    PROVE  Inv'
<1>1. TypeOK /\ BaselineTruthful /\ WorldInv /\ TaskInv(k)
  BY DEF Inv
<1>2. PICK o \in Op : o = Mine(k)
  BY <1>1, Typed
<1>3. OpInv(o) /\ op[o] \in Operation /\ task[k] \in TaskRecord
  BY <1>1 DEF WorldInv, TypeOK, TaskRecord
<1>4. CASE Replace(k)
  <2>1. UNCHANGED <<head, op, cas, aged, ledger, lease, game, owed, trouble>> /\ tree' = Partial
    BY <1>4 DEF Replace, Emulator, Store, Backups
  <2>2. Unsettled(o) /\ Active(o) /\ TreeInv(o)
    BY <1>1, <1>2, <1>3, <1>4 DEF Replace, At, TaskInv, Working, StateAt, OpInv, Unsettled
  <2>3. OpInv(o)'
    BY <1>3, <2>1, <2>2 DEF OpInv, TreeInv, InCas, Active, Unsettled
  <2>4. ASSUME NEW s \in owed, tree = s \/ SavedIn(o, s) PROVE SavedIn(o, s)'
    <3>1. s # Partial /\ s \notin Cloud
      BY <1>1, SafAssumption DEF TypeOK
    <3>2. op[o].desired # s
      BY <1>1, <1>3, <3>1, SafAssumption DEF Operation, TypeOK
    <3>3. QED
      BY <2>1, <2>2, <2>4, <3>1, <3>2 DEF SavedIn, TreeInv, Unsettled
  <2>5. WorldInv'
    BY <1>1, <2>1, <2>2, <2>3, <2>4, OwnOperation DEF Active, Unsettled
  <2>6. /\ task' \in [Task -> TaskRecord] /\ task'[k].op = o /\ task'[k].head = task[k].head
        /\ \/ At(k, "replace") /\ task'[k].pc = "write"
           \/ At(k, "undo") /\ task'[k].pc = "unwrite"
    BY <1>1, <1>2, <1>4, GotoEffect DEF Replace, Pc, Mine
  <2>7. TypeOK' /\ BaselineTruthful'
    BY <1>1, <2>1, <2>6 DEF TypeOK, TaskRecord, BaselineTruthful
  <2>8. TaskInv(k)'
    BY <1>1, <1>2, <2>1, <2>2, <2>6 DEF TaskInv, At, Working, Aimed, StateAt, Mine, Active
  <2>9. QED
    BY <2>5, <2>7, <2>8, Together
<1>5. CASE WriteTree(k)
  <2>1. UNCHANGED <<head, op, cas, aged, ledger, lease, game, owed, trouble>>
    BY <1>5 DEF WriteTree, Emulator, Store, Backups
  <2>2. Unsettled(o) /\ Active(o) /\ TreeInv(o)
    BY <1>1, <1>2, <1>3, <1>5 DEF WriteTree, At, TaskInv, Working, StateAt, OpInv, Unsettled
  <2>3. /\ task' \in [Task -> TaskRecord] /\ task'[k].op = o /\ task'[k].head = task[k].head
        /\ \/ At(k, "write") /\ task'[k].pc = "commit" /\ tree' = op[o].desired
           \/ At(k, "unwrite") /\ task'[k].pc = "rolledBack" /\ tree' = op[o].before
    BY <1>1, <1>2, <1>5, GotoEffect DEF WriteTree, Pc, Mine
  <2>4. tree' \in Save
    <3>1. CASE At(k, "write")
      BY <1>1, <1>2, <1>3, <2>3, <3>1 DEF At, TaskInv, Aimed, Operation, Save, TaskRecord
    <3>2. CASE At(k, "unwrite")
      BY <1>3, <2>2, <2>3, <3>2 DEF At, TreeInv, Operation
    <3>3. QED
      BY <2>3, <3>1, <3>2
  <2>5. tree' # Partial
    BY <2>4, SafAssumption DEF Save
  <2>6. OpInv(o)'
    BY <1>3, <2>1, <2>2, <2>3 DEF OpInv, TreeInv, InCas, Active, Unsettled
  <2>7. ASSUME NEW s \in owed, tree = s \/ SavedIn(o, s) PROVE SavedIn(o, s)'
    <3>1. s # Partial /\ s \notin Cloud
      BY <1>1, SafAssumption DEF TypeOK
    <3>2. op[o].desired # s
      BY <1>1, <1>3, <3>1, SafAssumption DEF Operation, TypeOK
    <3>3. QED
      BY <2>1, <2>2, <2>7, <3>1, <3>2 DEF SavedIn, TreeInv, Unsettled
  <2>8. WorldInv'
    BY <1>1, <2>1, <2>2, <2>5, <2>6, <2>7, OwnOperation DEF Active, Unsettled
  <2>9. TypeOK' /\ BaselineTruthful'
    BY <1>1, <2>1, <2>3, <2>4 DEF TypeOK, TaskRecord, BaselineTruthful
  <2>10. TaskInv(k)'
    BY <1>1, <1>2, <2>1, <2>2, <2>3 DEF TaskInv, At, Working, Aimed, StateAt, Mine, Active
  <2>11. QED
    BY <2>8, <2>9, <2>10, Together
<1>6. CASE Commit(k)
  <2>1. UNCHANGED <<tree, head, cas, aged, ledger, lease, game, owed, trouble>>
    BY <1>6 DEF Commit, Emulator, Backups
  <2>2. /\ op[o].state = "MUTATING" /\ Active(o) /\ TreeInv(o) /\ task[k].head # Nothing
        /\ op[o].desired = task[k].head /\ tree = op[o].desired
    BY <1>1, <1>2, <1>3, <1>6 DEF Commit, At, TaskInv, Working, Aimed, StateAt, OpInv
  <2>3. /\ op' \in [Op -> Operation]
        /\ op'[o] = [op[o] EXCEPT !.state = "COMMITTED"]
        /\ \A p \in Op \ {o} : op'[p] = op[p]
    BY <1>1, <1>2, <1>6, SetStateEffect DEF Commit, State
  <2>4. /\ op'[o].lease = op[o].lease /\ op'[o].before = op[o].before
        /\ op'[o].bundle = op[o].bundle /\ op'[o].desired = op[o].desired
        /\ op'[o].state = "COMMITTED"
    BY <1>3, <2>3 DEF Operation
  <2>5. tree # Partial
    BY <1>1, <1>3, <2>2, SafAssumption DEF TaskRecord
  <2>6. OpInv(o)'
    BY <1>3, <2>1, <2>2, <2>4 DEF OpInv, TreeInv, Active, Unsettled
  <2>7. WorldInv'
    BY <1>1, <2>1, <2>2, <2>3, <2>4, <2>5, <2>6, OwnOperation DEF SavedIn, Active
  <2>8. /\ task' \in [Task -> TaskRecord] /\ task'[k].pc = "retain" /\ task'[k].op = o
        /\ task'[k].head = task[k].head
    BY <1>1, <1>2, <1>6, GotoEffect DEF Commit, Pc, Mine
  <2>9. TypeOK' /\ BaselineTruthful'
    BY <1>1, <2>1, <2>3, <2>8 DEF TypeOK, TaskRecord, BaselineTruthful
  <2>10. TaskInv(k)'
    BY <2>1, <2>2, <2>4, <2>8 DEF TaskInv, Working, Aimed, StateAt, Mine, Active
  <2>11. QED
    BY <2>7, <2>9, <2>10, Together
<1>7. CASE RetainBackup(k)
  <2>1. UNCHANGED <<tree, head, ledger, lease, game, owed, trouble>>
    BY <1>7 DEF RetainBackup, Emulator, Backups
  <2>2. /\ op[o].state = "COMMITTED" /\ Active(o) /\ task[k].head # Nothing
        /\ op[o].desired = task[k].head
    BY <1>1, <1>2, <1>7 DEF RetainBackup, At, TaskInv, Working, Aimed, StateAt
  <2>3. /\ WorldInv'
        /\ op' \in [Op -> Operation] /\ cas' \in [Op -> Save \cup {Nothing}]
        /\ aged' \subseteq Op
        /\ Retained(o)' /\ op'[o].state = "COMMITTED" /\ op'[o].desired = op[o].desired
    BY <1>1, <1>2, <1>7, <2>1, <2>2, RetainKeeps DEF RetainBackup
  <2>4. /\ task' \in [Task -> TaskRecord] /\ task'[k].pc = "establish" /\ task'[k].op = o
        /\ task'[k].head = task[k].head
    BY <1>1, <1>2, <1>7, GotoEffect DEF RetainBackup, Pc, Mine
  <2>5. TypeOK' /\ BaselineTruthful'
    BY <1>1, <2>1, <2>3, <2>4 DEF TypeOK, TaskRecord, BaselineTruthful
  <2>6. TaskInv(k)'
    BY <2>1, <2>2, <2>3, <2>4 DEF TaskInv, Working, Aimed, StateAt, Mine, Active
  <2>7. QED
    BY <2>3, <2>5, <2>6, Together
<1>8. CASE Establish(k)
  <2>1. UNCHANGED <<tree, head, op, cas, aged, lease, game, owed, trouble>>
        /\ ledger' = [tree |-> tree, head |-> task[k].head]
    BY <1>8 DEF Establish, Emulator, Backups
  <2>2. /\ op[o].state = "COMMITTED" /\ Active(o) /\ task[k].head # Nothing
        /\ op[o].desired = task[k].head /\ Retained(o)
    BY <1>1, <1>2, <1>8 DEF Establish, At, TaskInv, Working, Aimed, StateAt
  <2>3. tree = task[k].head /\ task[k].head \in Cloud
    BY <1>3, <2>2 DEF OpInv, TreeInv, TaskRecord
  <2>4. WorldInv'
    BY <1>1, <2>1, NothingChanges
  <2>5. /\ task' \in [Task -> TaskRecord] /\ task'[k].pc = "release" /\ task'[k].op = o
    BY <1>1, <1>2, <1>8, GotoEffect DEF Establish, Pc, Mine
  <2>6. TypeOK' /\ BaselineTruthful'
    BY <1>1, <2>1, <2>3, <2>5 DEF TypeOK, TaskRecord, BaselineTruthful, Save
  <2>7. TaskInv(k)'
    BY <2>1, <2>2, <2>5 DEF TaskInv, Working, Aimed, StateAt, Mine, Active,
       Retained, InCas
  <2>8. QED
    BY <2>4, <2>6, <2>7, Together
<1>9. CASE RolledBack(k)
  <2>1. UNCHANGED <<tree, head, cas, aged, ledger, lease, game, owed, trouble>>
    BY <1>9 DEF RolledBack, Emulator, Backups
  <2>2. op[o].state = "ROLLBACK_REQUIRED" /\ Active(o) /\ TreeInv(o) /\ tree = op[o].before
    BY <1>1, <1>2, <1>3, <1>9 DEF RolledBack, At, TaskInv, Working, StateAt, OpInv
  <2>3. /\ op' \in [Op -> Operation]
        /\ op'[o] = [op[o] EXCEPT !.state = "ROLLED_BACK"]
        /\ \A p \in Op \ {o} : op'[p] = op[p]
    BY <1>1, <1>2, <1>9, SetStateEffect DEF RolledBack, State
  <2>4. /\ op'[o].lease = op[o].lease /\ op'[o].before = op[o].before
        /\ op'[o].bundle = op[o].bundle /\ op'[o].desired = op[o].desired
        /\ op'[o].state = "ROLLED_BACK"
    BY <1>3, <2>3 DEF Operation
  <2>5. tree # Partial
    BY <1>3, <2>2, SafAssumption DEF Operation, Save, TreeInv, Unsettled
  <2>6. OpInv(o)'
    BY <1>3, <2>1, <2>2, <2>4 DEF OpInv, TreeInv, Active, Unsettled
  <2>7. WorldInv'
    BY <1>1, <2>1, <2>2, <2>3, <2>4, <2>5, <2>6, OwnOperation DEF SavedIn, Active
  <2>8. /\ task' \in [Task -> TaskRecord] /\ task'[k].pc \in {"release", "finally"}
        /\ task'[k].op = o
    BY <1>1, <1>2, <1>9, GotoEffect DEF RolledBack, Pc, Mine
  <2>9. TypeOK' /\ BaselineTruthful'
    BY <1>1, <2>1, <2>3, <2>8 DEF TypeOK, TaskRecord, BaselineTruthful
  <2>10. TaskInv(k)'
    BY <2>1, <2>2, <2>4, <2>8 DEF TaskInv, Working, Aimed, StateAt, Mine, Active,
       Retained
  <2>11. QED
    BY <2>7, <2>9, <2>10, Together
<1>10. QED
  BY <1>4, <1>5, <1>6, <1>7, <1>8, <1>9

\* The error path, the release and the deletion keep the invariant.
LEMMA EndKeeps ==
    ASSUME OneTask, Inv, NEW k \in Task,
           Finally(k) \/ Release(k) \/ FailRelease(k) \/ Delete(k)
    PROVE  Inv'
<1>1. TypeOK /\ BaselineTruthful /\ WorldInv /\ TaskInv(k)
  BY DEF Inv
<1>2. PICK o \in Op : o = Mine(k)
  BY <1>1, Typed
<1>3. OpInv(o) /\ op[o] \in Operation /\ task[k] \in TaskRecord
  BY <1>1 DEF WorldInv, TypeOK, TaskRecord
<1>4. CASE Finally(k)
  <2>1. UNCHANGED <<tree, head, op, cas, aged, ledger, lease, game, owed, trouble>>
    BY <1>4 DEF Finally, Emulator, Store, Backups
  <2>2. CASE op[o].state \in {"MUTATING", "ROLLBACK_REQUIRED"}
    <3>1. Finish(k)
      BY <1>2, <1>4, <2>2 DEF Finally
    <3>2. TaskInv(k)'
      BY <1>1, <3>1, FinishEffect DEF TaskInv, Working, Aimed, StateAt
    <3>3. QED
      BY <1>1, <2>1, <3>1, <3>2, FinishEffect, OnlyTask DEF TypeOK
  <2>3. CASE op[o].state \notin {"MUTATING", "ROLLBACK_REQUIRED"}
    <3>1. task' = [task EXCEPT ![k].pc = "release", ![k].mode = "failing"]
      BY <1>2, <1>4, <2>3 DEF Finally
    <3>2. /\ task' \in [Task -> TaskRecord] /\ task'[k].pc = "release" /\ task'[k].op = o
          /\ task'[k].mode = "failing"
      <4>1. [task[k] EXCEPT !.pc = "release", !.mode = "failing"] \in TaskRecord
        BY <1>3 DEF TaskRecord, Pc, Mode
      <4>2. task' = [task EXCEPT ![k] = [task[k] EXCEPT !.pc = "release", !.mode = "failing"]]
        BY <1>1, <3>1 DEF TypeOK
      <4>3. QED
        BY <1>1, <1>2, <1>3, <4>1, <4>2, TaskEffect DEF TaskRecord, Mine
    <3>3. TaskInv(k)'
      BY <1>1, <1>2, <1>4, <2>1, <2>3, <3>2 DEF Finally, At, TaskInv, Working, Aimed, StateAt, Mine
    <3>4. QED
      BY <1>1, <2>1, <3>2, <3>3, OnlyTask DEF TypeOK
  <2>4. QED
    BY <2>2, <2>3
<1>5. CASE Release(k) \/ FailRelease(k)
  <2>1. UNCHANGED <<tree, head, op, cas, aged, ledger, game, owed>> /\ trouble' \in 0..MaxTrouble
    BY <1>1, <1>5, SafAssumption DEF Release, FailRelease, Emulator, Store, Backups, TypeOK,
       CountTrouble, MayFail
  <2>2. op[o].state \notin {"MUTATING", "ROLLBACK_REQUIRED"} /\ OutcomeOf(op[o].state) \in Outcome
    BY <1>1, <1>2, <1>5 DEF Release, FailRelease, At, TaskInv, StateAt, OutcomeOf, Outcome
  <2>3. CASE lease' = lease
    <3>1. FailRelease(k) \/ (Release(k) /\ lease[o] \in Outcome)
      BY <1>1, <1>2, <1>5, <2>2, <2>3 DEF Release, SetLease, TypeOK
    <3>2. /\ task' \in [Task -> TaskRecord]
          /\ task'[k].op = o \/ task'[k].pc = "idle"
          /\ \/ task'[k].pc \in {"idle", "finally"}
             \/ /\ task'[k].pc = "delete" /\ lease[o] \in Outcome
                /\ task[k].mode # "failing" \/ op[o].state \in {"null", "PREPARED"}
      BY <1>1, <1>2, <3>1, FinishEffect, GotoEffect
         DEF FailRelease, Release, AfterRelease, Pc, Mine
    <3>3. TaskInv(k)'
      BY <1>1, <1>2, <1>5, <2>1, <2>2, <2>3, <3>2 DEF Release, FailRelease, At, TaskInv, Working,
         Aimed, StateAt, Mine, Retained, InCas
    <3>4. QED
      BY <2>1, <2>3, <3>2, <3>3, OnlyTask
  <2>4. CASE lease' # lease
    <3>1. lease' = [lease EXCEPT ![o] = OutcomeOf(op[o].state)]
      BY <1>2, <1>5, <2>4 DEF Release, FailRelease, SetLease
    <3>2. /\ lease' \in [Op -> {"unknown", "active"} \cup Outcome]
          /\ lease'[o] \in Outcome
          /\ \A p \in Op \ {o} : lease'[p] = lease[p]
      BY <1>1, <2>2, <3>1 DEF TypeOK
    <3>3. OpInv(o)'
      BY <1>3, <2>1, <2>2, <3>2 DEF OpInv, InCas, Active, Unsettled, Outcome
    <3>4. WorldInv'
      BY <1>1, <2>1, <2>2, <3>2, <3>3, OwnOperation DEF SavedIn, Active, Unsettled, Outcome
    <3>5. /\ task' \in [Task -> TaskRecord]
          /\ task'[k].op = o \/ task'[k].pc = "idle"
          /\ \/ task'[k].pc \in {"idle", "finally"}
             \/ /\ task'[k].pc = "delete"
                /\ task[k].mode # "failing" \/ op[o].state \in {"null", "PREPARED"}
      BY <1>1, <1>2, <1>5, FinishEffect, GotoEffect
         DEF FailRelease, Release, AfterRelease, Pc, Mine
    <3>6. TypeOK' /\ BaselineTruthful'
      BY <1>1, <2>1, <3>2, <3>5 DEF TypeOK, TaskRecord, BaselineTruthful
    <3>7. TaskInv(k)'
      BY <1>1, <1>2, <1>5, <2>1, <2>2, <3>2, <3>5 DEF Release, FailRelease, At, TaskInv, Working,
         Aimed, StateAt, Mine, Outcome, Retained, InCas
    <3>8. QED
      BY <3>4, <3>6, <3>7, Together
  <2>5. QED
    BY <2>3, <2>4
<1>6. CASE Delete(k)
  <2>1. UNCHANGED <<tree, head, cas, aged, ledger, lease, game, owed, trouble>>
    BY <1>6 DEF Delete, Emulator, Backups
  <2>2. /\ op[o].state \notin {"MUTATING", "ROLLBACK_REQUIRED"}
        /\ lease[o] \in Outcome /\ Retained(o)
    BY <1>1, <1>2, <1>6 DEF Delete, At, TaskInv, StateAt
  <2>3. /\ op' \in [Op -> Operation]
        /\ op'[o] = NoOperation
        /\ \A p \in Op \ {o} : op'[p] = op[p]
    BY <1>1, <1>2, <1>6 DEF Delete, TypeOK, NoOperation, Operation, State
  <2>4. OpInv(o)'
    BY <1>3, <2>1, <2>2, <2>3 DEF NoOperation, OpInv, InCas, Active, Unsettled, Outcome
  <2>5. ASSUME NEW s \in owed, SavedIn(o, s) PROVE SavedIn(o, s)'
    <3>1. s # Nothing
      BY <1>1, SafAssumption DEF TypeOK
    <3>2. QED
      BY <2>1, <2>2, <2>5, <3>1 DEF SavedIn, Retained, InCas
  <2>6. WorldInv'
    BY <1>1, <2>1, <2>2, <2>3, <2>4, <2>5, OwnOperation
       DEF NoOperation, Active, Unsettled, Outcome
  <2>7. task' \in [Task -> TaskRecord] /\ task'[k].pc \in {"recover", "idle"}
    BY <1>1, <1>6, FinishEffect, GotoEffect DEF Delete, Pc
  <2>8. TypeOK' /\ BaselineTruthful'
    BY <1>1, <2>1, <2>3, <2>7 DEF TypeOK, TaskRecord, BaselineTruthful
  <2>9. TaskInv(k)'
    BY <2>7 DEF TaskInv, Working, Aimed, StateAt
  <2>10. QED
    BY <2>6, <2>8, <2>9, Together
<1>7. QED
  BY <1>4, <1>5, <1>6

(***************************************************************************)
(* Failures, kills, and the rest of the world                              *)
(***************************************************************************)
\* A step that throws, and a kill at any step, keep the invariant.
LEMMA TroubleKeeps ==
    ASSUME OneTask, Inv, NEW k \in Task, Fail(k) \/ Kill(k)
    PROVE  Inv'
<1>1. TypeOK /\ BaselineTruthful /\ WorldInv /\ TaskInv(k)
  BY DEF Inv
<1>2. PICK o \in Op : o = Mine(k)
  BY <1>1, Typed
<1>3. OpInv(o) /\ op[o] \in Operation /\ task[k] \in TaskRecord
  BY <1>1 DEF WorldInv, TypeOK, TaskRecord
<1>4. /\ UNCHANGED <<tree, head, cas, aged, ledger, lease, game, owed>>
      /\ trouble' \in 0..MaxTrouble
  BY <1>1, SafAssumption DEF Fail, Kill, Emulator, Backups, TypeOK, CountTrouble, MayFail
<1>5. CASE Fail(k) /\ op' = op
  <2>1. /\ task' \in [Task -> TaskRecord]
        /\ \/ task'[k].pc = "idle"
           \/ /\ task[k].pc \in Working
              /\ task'[k].pc = "finally" /\ task'[k].op = o
           \/ task[k].pc = "establish" /\ task'[k].pc = "release" /\ task'[k].op = o
    <3>1. CASE /\ task[k].pc \in {"replace", "write", "commit"}
               /\ SetState(o, "ROLLBACK_REQUIRED")
      <4>1. op[o].state = "MUTATING"
        BY <1>1, <1>2, <3>1 DEF TaskInv, StateAt
      <4>2. op'[o] = [op[o] EXCEPT !.state = "ROLLBACK_REQUIRED"]
        BY <1>1, <3>1, SetStateEffect DEF State
      <4>3. op'[o].state = "ROLLBACK_REQUIRED"
        BY <1>3, <4>2 DEF Operation
      <4>4. QED
        BY <1>5, <4>1, <4>3
    <3>2. CASE \/ Finish(k)
               \/ task[k].pc \in Working /\ Goto(k, "finally")
               \/ task[k].pc = "establish" /\ Goto(k, "release")
      BY <1>1, <1>2, <3>2, FinishEffect, GotoEffect DEF Pc, Mine
    <3>3. QED
      BY <1>2, <1>5, <3>1, <3>2 DEF Fail, Working
  <2>2. TaskInv(k)'
    BY <1>1, <1>2, <1>4, <1>5, <2>1
       DEF TaskInv, Working, Aimed, StateAt, Mine, Active, Retained, InCas
  <2>3. QED
    BY <1>4, <1>5, <2>1, <2>2, OnlyTask
<1>6. CASE /\ task[k].pc \in {"replace", "write", "commit"}
           /\ SetState(o, "ROLLBACK_REQUIRED")
           /\ task' = [task EXCEPT ![k].pc = "undo", ![k].mode = "failing"]
  <2>1. op[o].state = "MUTATING" /\ Active(o) /\ TreeInv(o)
    BY <1>1, <1>2, <1>3, <1>6 DEF TaskInv, Working, StateAt, OpInv
  <2>2. /\ op' \in [Op -> Operation]
        /\ op'[o] = [op[o] EXCEPT !.state = "ROLLBACK_REQUIRED"]
        /\ \A p \in Op \ {o} : op'[p] = op[p]
    BY <1>1, <1>6, SetStateEffect DEF State
  <2>3. /\ op'[o].lease = op[o].lease /\ op'[o].before = op[o].before
        /\ op'[o].bundle = op[o].bundle /\ op'[o].desired = op[o].desired
        /\ op'[o].state = "ROLLBACK_REQUIRED"
    BY <1>3, <2>2 DEF Operation
  <2>4. OpInv(o)'
    BY <1>4, <2>1, <2>3 DEF OpInv, TreeInv, Active, Unsettled
  <2>5. WorldInv'
    BY <1>1, <1>4, <2>1, <2>2, <2>3, <2>4, OwnOperation DEF SavedIn, Active, Unsettled
  <2>6. task' \in [Task -> TaskRecord] /\ task'[k].pc = "undo" /\ task'[k].op = o
    <3>1. [task[k] EXCEPT !.pc = "undo", !.mode = "failing"] \in TaskRecord
      BY <1>3 DEF TaskRecord, Pc, Mode
    <3>2. task' = [task EXCEPT ![k] = [task[k] EXCEPT !.pc = "undo", !.mode = "failing"]]
      BY <1>1, <1>6 DEF TypeOK
    <3>3. QED
      BY <1>1, <1>2, <1>3, <3>1, <3>2, TaskEffect DEF TaskRecord, Mine
  <2>7. TypeOK' /\ BaselineTruthful'
    BY <1>1, <1>4, <2>2, <2>6 DEF TypeOK, TaskRecord, BaselineTruthful
  <2>8. TaskInv(k)'
    BY <1>4, <2>1, <2>3, <2>6 DEF TaskInv, Working, Aimed, StateAt, Mine, Active
  <2>9. QED
    BY <2>5, <2>7, <2>8, Together
<1>7. CASE Kill(k)
  <2>1. task' \in [Task -> TaskRecord] /\ task'[k].pc = "idle"
    <3>1. NoTask \in TaskRecord
      BY SafAssumption DEF TaskRecord, NoTask, Pc, Mode, Op
    <3>2. QED
      BY <1>7, <3>1 DEF Kill, NoTask
  <2>2. TaskInv(k)'
    BY <2>1 DEF TaskInv, Working, Aimed, StateAt
  <2>3. CASE ~At(k, "delete")
    BY <1>4, <1>7, <2>1, <2>2, <2>3, OnlyTask DEF Kill
  <2>4. CASE At(k, "delete")
    <3>1. /\ op[o].state \notin {"MUTATING", "ROLLBACK_REQUIRED"}
          /\ lease[o] \in Outcome /\ Retained(o)
      BY <1>1, <1>2, <2>4 DEF At, TaskInv, StateAt
    <3>2. PICK r \in Remnant(op[o]) : op' = [op EXCEPT ![o] = r]
      BY <1>2, <1>7, <2>4 DEF Kill
    <3>3. PICK l \in {op[o].lease, FALSE}, t \in {op[o].state, "null"},
               b \in {op[o].before, Nothing}, n \in {op[o].bundle, FALSE} :
            r = [lease |-> l, desired |-> IF l THEN op[o].desired ELSE Nothing,
                 state |-> t, before |-> b, bundle |-> n]
      BY <3>2 DEF Remnant
    <3>4. r \in Operation
      BY <1>3, <3>3 DEF Operation, State
    <3>5. op' \in [Op -> Operation] /\ op'[o] = r /\ \A p \in Op \ {o} : op'[p] = op[p]
      BY <1>1, <3>2, <3>4 DEF TypeOK
    <3>6. /\ op'[o].lease => op[o].lease
          /\ op'[o].state \in {op[o].state, "null"}
          /\ op'[o].before \in {op[o].before, Nothing}
          /\ op'[o].bundle => op[o].bundle
      <4>1. r.lease = l /\ r.state = t /\ r.before = b /\ r.bundle = n
        BY <3>3
      <4>2. (l => op[o].lease) /\ (n => op[o].bundle)
        BY <3>3
      <4>3. QED
        BY <3>3, <3>5, <4>1, <4>2
    <3>7. OpInv(o)'
      BY <1>3, <1>4, <3>1, <3>6 DEF OpInv, InCas, Retained, Active, Unsettled, Outcome
    <3>8. ASSUME NEW s \in owed, SavedIn(o, s) PROVE SavedIn(o, s)'
      <4>1. s # Nothing
        BY <1>1, SafAssumption DEF TypeOK
      <4>2. QED
        BY <1>4, <3>1, <3>8, <4>1 DEF SavedIn, Retained, InCas
    <3>9. WorldInv'
      BY <1>1, <1>4, <3>1, <3>5, <3>6, <3>7, <3>8, OwnOperation DEF Active, Unsettled, Outcome
    <3>10. TypeOK' /\ BaselineTruthful'
      BY <1>1, <1>4, <2>1, <3>5 DEF TypeOK, TaskRecord, BaselineTruthful
    <3>11. QED
      BY <2>2, <3>9, <3>10, Together
  <2>5. QED
    BY <2>3, <2>4
<1>8. QED
  BY <1>2, <1>5, <1>6, <1>7 DEF Fail

\* The clean-up, the emulator, the game and other devices keep the invariant.
LEMMA WorldKeeps ==
    ASSUME OneTask, Inv, CleanUp \/ Launch \/ Exit \/ CloudMoves
                         \/ (\E s \in Played : Play(s))
    PROVE  Inv'
<1>1. TypeOK /\ BaselineTruthful /\ WorldInv /\ (\A k \in Task : TaskInv(k))
      /\ (\A o \in Op : OpInv(o))
  BY DEF Inv, WorldInv
<1>2. /\ UNCHANGED <<cas, ledger, lease, task, trouble>>
      /\ aged' \subseteq Op
  <2>1. CASE CleanUp
    BY <1>1, <2>1 DEF CleanUp, CleanupRetention, Surplus, TypeOK
  <2>2. CASE ~CleanUp
    BY <1>1, <2>2 DEF Launch, Exit, CloudMoves, Play, Store, Backups, TypeOK
  <2>3. QED
    BY <2>1, <2>2
<1>3. CASE CleanUp /\ op' # op
  <2>1. PICK o \in Op : /\ ~op[o].lease
                        /\ op[o].state \in {"null", "PREPARED", "ROLLED_BACK"}
                        /\ op' = [op EXCEPT ![o] = NoOperation]
    BY <1>3 DEF CleanUp
  <2>2. ~Active(o) /\ UNCHANGED <<tree, head, game, owed>>
    BY <1>1, <1>3, <2>1 DEF CleanUp, Emulator, OpInv, TreeInv
  <2>3. op' \in [Op -> Operation] /\ op'[o] = NoOperation /\ \A p \in Op \ {o} : op'[p] = op[p]
    BY <1>1, <2>1 DEF TypeOK, NoOperation, Operation, State
  <2>4. OpInv(o)'
    BY <1>1, <1>2, <2>1, <2>2, <2>3 DEF OpInv, NoOperation, Active, Unsettled
  <2>5. WorldInv'
    BY <1>1, <1>2, <2>1, <2>2, <2>3, <2>4, OwnOperation DEF SavedIn, NoOperation, Active, Unsettled
  <2>6. TypeOK' /\ BaselineTruthful'
    BY <1>1, <1>2, <2>2, <2>3 DEF TypeOK, BaselineTruthful
  <2>7. ASSUME NEW k \in Task PROVE TaskInv(k)'
    <3>1. CASE Mine(k) = o
      <4>1. task[k].pc \notin Working \cup {"acquire"}
        BY <1>1, <2>1, <2>2, <3>1 DEF TaskInv
      <4>2. QED
        BY <1>1, <1>2, <2>1, <2>3, <3>1, <4>1
           DEF TaskInv, Working, Aimed, StateAt, Mine, NoOperation, Retained, InCas
    <3>2. CASE Mine(k) # o
      <4>1. Mine(k) \in Op /\ op'[Mine(k)] = op[Mine(k)] /\ Mine(k)' = Mine(k)
        BY <1>1, <1>2, <2>3, <3>2, Typed DEF Mine
      <4>2. QED
        BY <1>1, <1>2, <2>2, <4>1 DEF TaskInv, Active, Retained, InCas
    <3>3. QED
      BY <3>1, <3>2
  <2>8. QED
    BY <2>5, <2>6, <2>7 DEF Inv
<1>4. CASE Launch \/ Exit \/ CloudMoves
  <2>1. UNCHANGED <<tree, op, owed>> /\ game' \in BOOLEAN /\ head' \in Cloud
        /\ (game' => game \/ ~Held)
    <3>1. CASE Launch
      BY <1>1, <3>1 DEF Launch, Store, TypeOK
    <3>2. CASE Exit
      BY <1>1, <3>2 DEF Exit, Store, TypeOK
    <3>3. CASE CloudMoves
      <4>1. UNCHANGED <<tree, op, owed, game>> /\ head' \in Cloud
        BY <3>3 DEF CloudMoves, Store
      <4>2. QED
        BY <1>1, <4>1 DEF TypeOK
    <3>4. QED
      BY <1>4, <3>1, <3>2, <3>3
  <2>2. GameExcluded'
    BY <1>1, <1>2, <2>1 DEF WorldInv, GameExcluded, Held, Active
  <2>3. WorldInv'
    BY <1>1, <1>2, <2>1, <2>2 DEF WorldInv, OnePending, Pending, PartialHeld, SavesKept, SavedIn,
       OpInv, TreeInv, InCas, Active, Unsettled
  <2>4. TypeOK' /\ BaselineTruthful'
    BY <1>1, <1>2, <2>1 DEF TypeOK, BaselineTruthful
  <2>5. \A k \in Task : TaskInv(k)'
    BY <1>1, <1>2, <2>1 DEF TaskInv, Mine, Active, Retained, InCas
  <2>6. QED
    BY <2>3, <2>4, <2>5 DEF Inv
<1>5. CASE \E s \in Played : Play(s)
  <2>1. PICK s \in Played : Play(s)
    BY <1>5
  <2>2. UNCHANGED <<op, game, head>> /\ game /\ tree' = s /\ owed' = (owed \ {tree}) \cup {s}
    BY <2>1 DEF Play, Store
  <2>3. \A o \in Op : ~Active(o) /\ ~Unsettled(o)
    BY <1>1, <2>2 DEF WorldInv, GameExcluded, OpInv
  <2>4. tree' # Partial
    BY <2>2, SafAssumption
  <2>5. SavesKept'
    BY <1>1, <1>2, <2>2 DEF WorldInv, SavesKept, SavedIn
  <2>6. WorldInv'
    BY <1>1, <1>2, <2>2, <2>3, <2>4, <2>5 DEF WorldInv, OnePending, Pending, GameExcluded,
       PartialHeld, OpInv, InCas, Active, Unsettled
  <2>7. TypeOK' /\ BaselineTruthful'
    BY <1>1, <1>2, <2>2 DEF TypeOK, BaselineTruthful, Save
  <2>8. ASSUME NEW k \in Task PROVE TaskInv(k)'
    <3>1. task[k].pc \notin Working
      BY <1>1, <2>3, Typed DEF TaskInv
    <3>2. QED
      BY <1>1, <1>2, <2>2, <3>1 DEF TaskInv, Working, Aimed, StateAt, Mine, Retained, InCas
  <2>9. QED
    BY <2>6, <2>7, <2>8 DEF Inv
<1>6. CASE CleanUp /\ op' = op
  <2>1. UNCHANGED <<tree, head, op, game, owed>>
    BY <1>6 DEF CleanUp, Emulator
  <2>2. WorldInv' /\ TypeOK' /\ BaselineTruthful'
    BY <1>1, <1>2, <2>1, NothingChanges DEF TypeOK, BaselineTruthful
  <2>3. \A k \in Task : TaskInv(k)'
    BY <1>1, <1>2, <2>1 DEF TaskInv, Mine, Active, Retained, InCas
  <2>4. QED
    BY <2>2, <2>3 DEF Inv
<1>7. QED
  BY <1>3, <1>4, <1>5, <1>6

(***************************************************************************)
(* The backups that age                                                    *)
(***************************************************************************)
\* Operations are begun in order, and the one that is pending is the last.
Used(o) == lease[o] # "unknown" \/ op[o].lease

OrderInv ==
    /\ \A o, q \in Op : o < q /\ Used(q) => Used(o)
    /\ \A o \in Pending, q \in Op : o < q => ~Used(q)
    /\ \A o \in Op : Used(o) \/ op[o] = NoOperation

\* Only a backup with as many younger ones as are kept was deleted for its age.
AgedInv == \A o \in aged : cas[o] # Nothing /\ Cardinality(Younger(o)) >= Kept

ShelfInv == OrderInv /\ AgedInv

\* There are as many younger backups as a number in the end.
LEMMA YoungerFinite ==
    /\ IsFiniteSet(Op)
    /\ \A S \in SUBSET Op : IsFiniteSet(S) /\ Cardinality(S) \in Nat
    /\ \A S, T \in SUBSET Op : S \subseteq T => Cardinality(S) <= Cardinality(T)
<1>1. IsFiniteSet(Op)
  BY SafAssumption, FS_Interval DEF Op
<1>2. \A S \in SUBSET Op : IsFiniteSet(S) /\ Cardinality(S) \in Nat
  BY <1>1, FS_Subset, FS_CardinalityType
<1>3. \A S, T \in SUBSET Op : S \subseteq T => Cardinality(S) <= Cardinality(T)
  BY <1>2, FS_Subset
<1>4. QED
  BY <1>1, <1>2, <1>3

\* The backup of an operation that is pending was not deleted for its age.
LEMMA PendingKept ==
    ASSUME TypeOK, WorldInv, ShelfInv, NEW o \in Pending
    PROVE  o \notin aged
<1> SUFFICES ASSUME o \in aged PROVE FALSE
  OBVIOUS
<1>1. o \in Op
  BY DEF Pending
<1>2. Younger(o) # {}
  <2>1. Cardinality(Younger(o)) >= 1
    <3>1. Cardinality(Younger(o)) >= Kept
      BY DEF ShelfInv, AgedInv
    <3>2. Cardinality(Younger(o)) \in Nat
      BY YoungerFinite DEF Younger
    <3>3. QED
      BY <3>1, <3>2, SafAssumption
  <2>2. QED
    BY <2>1, FS_EmptySet
<1>3. PICK q \in Op : o < q /\ cas[q] # Nothing
  BY <1>1, <1>2 DEF Younger, Op
<1>4. Used(q)
  BY <1>3 DEF WorldInv, OpInv, Used
<1>5. QED
  BY <1>1, <1>3, <1>4 DEF ShelfInv, OrderInv

\* Backups that stay, and a clean-up of the surplus, keep what is said of the aged.
LEMMA AgedKeeps ==
    ASSUME TypeOK, AgedInv, \A o \in Op : cas[o] # Nothing => cas'[o] = cas[o],
           CleanupRetention(cas') \/ aged' = aged
    PROVE  AgedInv'
<1> SUFFICES ASSUME NEW o \in aged' PROVE cas'[o] # Nothing /\ Cardinality(Younger(o)') >= Kept
  BY DEF AgedInv
<1>1. CASE o \in aged
  <2>1. o \in Op /\ cas[o] # Nothing /\ Cardinality(Younger(o)) >= Kept
    BY <1>1 DEF AgedInv, TypeOK
  <2>2. Younger(o) \subseteq Younger(o)' /\ Younger(o)' \in SUBSET Op /\ Younger(o) \in SUBSET Op
    BY DEF Younger
  <2>3. /\ Cardinality(Younger(o)) <= Cardinality(Younger(o)')
        /\ Cardinality(Younger(o)) \in Nat /\ Cardinality(Younger(o)') \in Nat
    BY <2>2, YoungerFinite
  <2>4. QED
    BY <2>1, <2>3, SafAssumption
<1>2. CASE o \notin aged
  <2> DEFINE younger == {q \in {r \in Op : cas'[r] # Nothing} \ aged : q > o}
  <2>1. o \in Op /\ cas'[o] # Nothing /\ Cardinality(younger) >= Kept
    BY <1>2 DEF CleanupRetention, Surplus
  <2>2. younger \subseteq Younger(o)' /\ Younger(o)' \in SUBSET Op /\ younger \in SUBSET Op
    BY DEF Younger
  <2>3. /\ Cardinality(younger) <= Cardinality(Younger(o)')
        /\ Cardinality(younger) \in Nat /\ Cardinality(Younger(o)') \in Nat
    BY <2>2, YoungerFinite
  <2> HIDE DEF younger
  <2>4. QED
    BY <2>1, <2>3, SafAssumption
<1>3. QED
  BY <1>1, <1>2

\* An operation that the emulator knows and that does not become pending
\* changes no order.
LEMMA OrderKeeps ==
    ASSUME TypeOK, OrderInv, NEW o \in Op,
           \A p \in Op \ {o} : op'[p] = op[p] /\ lease'[p] = lease[p],
           lease[o] # "unknown", lease'[o] # "unknown", op'[o].lease => op[o].lease
    PROVE  OrderInv'
<1>1. \A p \in Op : Used(p)' = Used(p)
  BY DEF Used
<1>2. Pending' \subseteq Pending
  BY DEF Pending
<1>3. Used(o)'
  BY DEF Used
<1>4. QED
  BY <1>1, <1>2, <1>3 DEF OrderInv

\* Every step keeps the invariant.
LEMMA NextInv == ASSUME OneTask, Inv, [Next]_vars PROVE Inv'
<1>1. CASE UNCHANGED vars
  <2>1. UNCHANGED <<tree, head, op, cas, aged, ledger, lease, game, task, owed, trouble>>
    BY <1>1 DEF vars
  <2>2. WorldInv'
    BY <2>1, NothingChanges DEF Inv
  <2>3. TypeOK' /\ BaselineTruthful'
    BY <2>1 DEF Inv, TypeOK, BaselineTruthful
  <2>4. \A k \in Task : TaskInv(k)'
    BY <2>1 DEF Inv, TaskInv, Mine, Active, Retained, InCas
  <2>5. QED
    BY <2>2, <2>3, <2>4 DEF Inv
<1>2. CASE Next
  <2>1. ASSUME NEW k \in Task, Step(k) \/ Fail(k) \/ FailRelease(k) \/ Kill(k) PROVE Inv'
    BY <2>1, RecoveryKeeps, PreparationKeeps, MutationKeeps, EndKeeps, TroubleKeeps DEF Step
  <2>2. QED
    BY <1>2, <2>1, WorldKeeps DEF Next
<1>3. QED
  BY <1>1, <1>2

\* A restore's steps keep the order of operations.
LEMMA StepKeepsOrder ==
    ASSUME Inv, OrderInv, NEW k \in Task, Step(k) \/ Fail(k) \/ FailRelease(k) \/ Kill(k)
    PROVE  OrderInv'
<1>1. TypeOK /\ WorldInv /\ TaskInv(k) /\ (\A o \in Op : OpInv(o))
  BY DEF Inv, WorldInv
<1>2. PICK o \in Op : o = Mine(k)
  BY <1>1, Typed
<1>3. CASE UNCHANGED <<op, lease>>
  BY <1>3 DEF OrderInv, Used, Pending
<1>4. CASE Begin(k) \/ RecoverRefused(k) \/ RecoverActive(k) \/ Replace(k) \/ WriteTree(k)
           \/ Establish(k) \/ Finally(k)
  BY <1>3, <1>4 DEF Begin, RecoverRefused, RecoverActive, Replace, WriteTree, Establish,
     Finally, Store
<1>5. CASE Relock(k) \/ Capture(k) \/ Encrypt(k) \/ Confirm(k) \/ Mutate(k) \/ Commit(k)
           \/ RetainBackup(k) \/ RolledBack(k)
  <2>1. Active(o) /\ lease' = lease
    BY <1>1, <1>2, <1>5 DEF Relock, Capture, Encrypt, Confirm, Mutate, Commit, RetainBackup,
       RolledBack, At, TaskInv, Working, Active
  <2>2. op[o].lease
    BY <1>1, <2>1 DEF OpInv, TreeInv
  <2>3. \A p \in Op \ {o} : op'[p] = op[p]
    BY <1>1, <1>2, <1>5 DEF Relock, Capture, Encrypt, Confirm, Mutate, Commit, RetainBackup,
       RolledBack, SetState, Retain, TypeOK
  <2>4. QED
    BY <1>1, <2>1, <2>2, <2>3, OrderKeeps DEF Active
<1>6. CASE Release(k) \/ FailRelease(k)
  <2>1. lease[o] # "unknown" /\ op' = op
    BY <1>1, <1>2, <1>6 DEF Release, FailRelease, At, TaskInv, Store
  <2>2. OutcomeOf(op[o].state) # "unknown"
    BY DEF OutcomeOf
  <2>3. lease'[o] # "unknown" /\ \A p \in Op \ {o} : lease'[p] = lease[p]
    BY <1>1, <1>2, <1>6, <2>1, <2>2 DEF Release, FailRelease, SetLease, TypeOK
  <2>4. QED
    BY <1>1, <2>1, <2>3, OrderKeeps
<1>7. CASE Delete(k)
  <2>1. lease[o] # "unknown" /\ lease' = lease
    BY <1>1, <1>2, <1>7 DEF Delete, At, TaskInv, Outcome
  <2>2. ~op'[o].lease /\ \A p \in Op \ {o} : op'[p] = op[p]
    BY <1>1, <1>2, <1>7 DEF Delete, TypeOK, NoOperation
  <2>3. QED
    BY <1>1, <2>1, <2>2, OrderKeeps
<1>8. CASE Fail(k)
  <2>1. CASE op' = op
    BY <1>3, <1>8, <2>1 DEF Fail
  <2>2. CASE task[k].pc \in {"replace", "write", "commit"} /\ SetState(o, "ROLLBACK_REQUIRED")
    <3>1. Active(o) /\ lease' = lease
      BY <1>1, <1>2, <1>8, <2>2 DEF Fail, TaskInv, Working
    <3>2. op[o].lease
      BY <1>1, <3>1 DEF OpInv, TreeInv
    <3>3. \A p \in Op \ {o} : op'[p] = op[p]
      BY <1>1, <2>2 DEF SetState, TypeOK
    <3>4. QED
      BY <1>1, <3>1, <3>2, <3>3, OrderKeeps DEF Active
  <2>3. QED
    BY <1>2, <1>8, <2>1, <2>2 DEF Fail
<1>9. CASE Kill(k)
  <2>1. lease' = lease
    BY <1>9 DEF Kill
  <2>2. CASE At(k, "delete")
    <3>1. lease[o] # "unknown"
      BY <1>1, <1>2, <2>2 DEF At, TaskInv, Outcome
    <3>2. PICK r \in Remnant(op[o]) : op' = [op EXCEPT ![o] = r]
      BY <1>2, <1>9, <2>2 DEF Kill
    <3>3. (r.lease => op[o].lease) /\ op'[o] = r /\ \A p \in Op \ {o} : op'[p] = op[p]
      BY <1>1, <3>2 DEF Remnant, TypeOK
    <3>4. QED
      BY <1>1, <2>1, <3>1, <3>3, OrderKeeps
  <2>3. CASE ~At(k, "delete")
    BY <1>3, <1>9, <2>1, <2>3 DEF Kill
  <2>4. QED
    BY <2>2, <2>3
<1>10. CASE RecoverReleased(k)
  <2>1. PICK p \in Pending : /\ lease[p] \in Outcome
                             /\ Retain(p) \/ op' = op
    BY <1>10 DEF RecoverReleased
  <2>2. p \in Op /\ op[p].lease /\ lease[p] # "unknown" /\ lease' = lease
    BY <1>10, <2>1 DEF Pending, Outcome, RecoverReleased
  <2>3. \A q \in Op \ {p} : op'[q] = op[q]
    BY <1>1, <2>1, <2>2 DEF Retain, TypeOK
  <2>4. QED
    BY <1>1, <2>2, <2>3, OrderKeeps
<1>11. CASE RecoverUnknown(k)
  <2>1. op' = op
    BY <1>11 DEF RecoverUnknown, Store
  <2>2. CASE lease' # lease
    <3>1. PICK p \in Pending : SetLease(p, "active")
      BY <1>11, <2>2 DEF RecoverUnknown
    <3>2. \A q \in Op : Used(q)' = Used(q)
      BY <1>1, <2>1, <3>1 DEF Used, Pending, SetLease, TypeOK
    <3>3. QED
      BY <2>1, <3>2 DEF OrderInv, Pending
  <2>3. QED
    BY <1>3, <2>1, <2>2
<1>12. CASE Create(k)
  <2>1. CASE op' # op
    <3>1. PICK p \in Fresh : /\ \A q \in Fresh : p <= q
                             /\ op' = [op EXCEPT ![p].lease = TRUE]
      BY <1>12, <2>1 DEF Create
    <3>2. p \in Op /\ op[p] = NoOperation /\ ~Used(p) /\ lease' = lease /\ Pending = {}
      <4>1. p \in Op /\ op[p] = NoOperation /\ lease[p] = "unknown"
        BY <3>1 DEF Fresh
      <4>2. ~Used(p)
        BY <4>1 DEF Used, NoOperation
      <4>3. QED
        BY <1>12, <4>1, <4>2 DEF Create
    <3>3. op'[p].lease /\ \A q \in Op \ {p} : op'[q] = op[q]
      <4>1. op'[p] = [op[p] EXCEPT !.lease = TRUE] /\ \A q \in Op \ {p} : op'[q] = op[q]
        BY <1>1, <3>1, <3>2 DEF TypeOK
      <4>2. QED
        BY <3>2, <4>1 DEF NoOperation
    <3>4. Used(p)' /\ (\A q \in Op \ {p} : Used(q)' = Used(q)) /\ Pending' = {p}
      BY <3>2, <3>3 DEF Used, Pending
    <3>5. \A q \in Op : q < p => Used(q)
      BY <3>1, <3>2 DEF OrderInv, Fresh, Used, Op
    <3>6. \A q \in Op : p < q => ~Used(q)
      BY <3>2 DEF OrderInv
    <3>7. QED
      BY <3>2, <3>3, <3>4, <3>5, <3>6 DEF OrderInv, Op
  <2>2. QED
    BY <1>3, <1>12, <2>1 DEF Create
<1>13. CASE Acquire(k)
  <2>1. o \in Pending /\ lease[o] = "unknown"
    BY <1>1, <1>2, <1>13 DEF Acquire, At, TaskInv, Pending
  <2>2. CASE game
    <3>1. op' = [op EXCEPT ![o] = NoOperation] /\ lease' = lease
      BY <1>2, <1>13, <2>2 DEF Acquire
    <3>2. op'[o] = NoOperation /\ \A q \in Op \ {o} : op'[q] = op[q]
      BY <1>1, <3>1 DEF TypeOK
    <3>3. (\A q \in Op \ {o} : Used(q)' = Used(q)) /\ Pending' \subseteq Pending
      BY <3>1, <3>2 DEF Used, Pending, NoOperation
    <3>4. \A q \in Op : o < q => ~Used(q)
      BY <2>1 DEF OrderInv
    <3>5. QED
      BY <3>1, <3>2, <3>3, <3>4 DEF OrderInv, Used, Op
  <2>3. CASE ~game
    <3>1. op' = op /\ SetLease(o, "active")
      BY <1>2, <1>13, <2>3 DEF Acquire
    <3>2. \A q \in Op : Used(q)' = Used(q)
      BY <1>1, <2>1, <3>1 DEF Used, Pending, SetLease, TypeOK
    <3>3. QED
      BY <3>1, <3>2 DEF OrderInv, Pending
  <2>4. QED
    BY <2>2, <2>3
<1>14. QED
  BY <1>4, <1>5, <1>6, <1>7, <1>8, <1>9, <1>10, <1>11, <1>12, <1>13 DEF Step

\* Every step keeps what is said of the backups that age.
LEMMA NextShelf == ASSUME OneTask, Inv, ShelfInv, [Next]_vars PROVE ShelfInv'
<1>1. TypeOK /\ WorldInv /\ (\A k \in Task : TaskInv(k)) /\ (\A o \in Op : OpInv(o))
  BY DEF Inv, WorldInv
<1>2. OrderInv /\ AgedInv
  BY DEF ShelfInv
<1>3. OrderInv'
  <2>1. CASE UNCHANGED <<op, lease>>
    BY <1>2, <2>1 DEF OrderInv, Used, Pending
  <2>2. CASE CleanUp /\ op' # op
    <3>1. PICK o \in Op : ~op[o].lease /\ op' = [op EXCEPT ![o] = NoOperation]
      BY <2>2 DEF CleanUp
    <3>2. lease' = lease /\ op'[o] = NoOperation /\ \A p \in Op \ {o} : op'[p] = op[p]
      BY <1>1, <2>2, <3>1 DEF CleanUp, TypeOK
    <3>3. (\A p \in Op : Used(p)' = Used(p)) /\ Pending' \subseteq Pending
      BY <3>1, <3>2 DEF Used, Pending, NoOperation
    <3>4. QED
      BY <1>2, <3>2, <3>3 DEF OrderInv
  <2>3. CASE \E k \in Task : Step(k) \/ Fail(k) \/ FailRelease(k) \/ Kill(k)
    BY <1>2, <2>3, StepKeepsOrder
  <2>4. CASE \/ CleanUp /\ op' = op
             \/ Launch \/ Exit \/ CloudMoves
             \/ \E s \in Played : Play(s)
             \/ UNCHANGED vars
    BY <2>1, <2>4 DEF CleanUp, Launch, Exit, CloudMoves, Play, Store, vars
  <2>5. QED
    BY <2>2, <2>3, <2>4 DEF Next
<1>4. AgedInv'
  <2>1. CASE UNCHANGED <<cas, aged>>
    BY <1>2, <2>1 DEF AgedInv, Younger
  <2>2. CASE CleanUp
    BY <1>1, <1>2, <2>1, <2>2, AgedKeeps DEF CleanUp
  <2>3. CASE \E o \in Op : Retain(o) /\ op[o].state = "COMMITTED"
    <3>1. PICK o \in Op : Retain(o) /\ op[o].state = "COMMITTED"
      BY <2>3
    <3>2. \A p \in Op : cas[p] # Nothing => cas'[p] = cas[p]
      BY <1>1, <3>1, RetainEffect
    <3>3. CleanupRetention(cas')
      BY <3>1 DEF Retain
    <3>4. QED
      BY <1>1, <1>2, <3>2, <3>3, AgedKeeps
  <2>4. ASSUME NEW k \in Task, RecoverReleased(k) \/ Relock(k) \/ RetainBackup(k)
        PROVE  \/ UNCHANGED <<cas, aged>>
               \/ \E o \in Op : Retain(o) /\ op[o].state = "COMMITTED"
    <3>1. Mine(k) \in Op
      BY <1>1, Typed
    <3>2. CASE RecoverReleased(k)
      BY <3>2 DEF RecoverReleased, ReceiptMatches, Pending, Backups
    <3>3. CASE Relock(k)
      BY <3>1, <3>3 DEF Relock, Backups
    <3>4. CASE RetainBackup(k)
      BY <1>1, <3>1, <3>4 DEF RetainBackup, At, TaskInv, StateAt
    <3>5. QED
      BY <2>4, <3>2, <3>3, <3>4
  <2>5. \/ UNCHANGED <<cas, aged>>
        \/ CleanUp
        \/ \E k \in Task : RecoverReleased(k) \/ Relock(k) \/ RetainBackup(k)
    BY DEF Next, Step, vars, Begin, RecoverRefused, RecoverActive, RecoverUnknown, Create,
       Acquire, Capture, Encrypt, Confirm, Mutate, Replace, WriteTree, Commit, Establish,
       RolledBack, Finally, Release, Delete, Fail, FailRelease, Kill, Launch, Exit, Play,
       CloudMoves, Store, Backups
  <2>6. QED
    BY <2>1, <2>2, <2>3, <2>4, <2>5
<1>5. QED
  BY <1>3, <1>4 DEF ShelfInv

\* Both invariants hold in every behaviour.
LEMMA Invariance == ASSUME OneTask PROVE Spec => [](Inv /\ ShelfInv)
<1>1. Init => ShelfInv
  BY DEF Init, ShelfInv, OrderInv, AgedInv, Used, Pending, NoOperation
<1>2. QED
  BY <1>1, InitInv, NextInv, NextShelf, PTL DEF Spec

(***************************************************************************)
(* The properties                                                          *)
(***************************************************************************)
\* Restores that do not overlap keep every variable in its type.
THEOREM TypeCorrect == ASSUME OneTask PROVE Spec => []TypeOK
<1>1. Inv => TypeOK
  BY DEF Inv
<1>2. QED
  BY <1>1, Invariance, PTL

\* Whatever fails or is killed, a restore (CloudRestorePipeline) loses no save that
\* the game wrote: it is in the tree, in an operation or in restore-cas, and from
\* there it goes only when as many younger backups have come as are kept.
THEOREM PlayedSavesKept == ASSUME OneTask PROVE Spec => []PriorSaveKept
<1>1. Inv /\ ShelfInv => PriorSaveKept
  BY DEF Inv, WorldInv, SavesKept, SavedIn, ShelfInv, AgedInv, PriorSaveKept
<1>2. QED
  BY <1>1, Invariance, PTL

\* The emulator, which a lease keeps from running until the tree is settled,
\* never reads a tree that a restore has left half written.
THEOREM GameSafe == ASSUME OneTask PROVE Spec => []GameReadsWholeTree
<1>1. Inv => GameReadsWholeTree
  BY DEF Inv, WorldInv, GameExcluded, PartialHeld, GameReadsWholeTree
<1>2. QED
  BY <1>1, Invariance, PTL

\* captureAndEstablish never notes a tree as equal to a HEAD that it is not.
THEOREM Baseline == ASSUME OneTask PROVE Spec => []BaselineTruthful
<1>1. Inv => BaselineTruthful
  BY DEF Inv
<1>2. QED
  BY <1>1, Invariance, PTL

\* Every release tells the emulator what is true of the tree.
THEOREM Receipts == ASSUME OneTask PROVE Spec => ReceiptTruthful
<1> DEFINE Told(o) ==
        lease[o] = "active" /\ lease'[o] # "active" =>
            IF lease'[o] = "COMMITTED"
            THEN tree = op[o].desired /\ Retainable(o)
            ELSE tree # Partial /\ op[o].before \in {tree, Nothing}
<1>1. ASSUME Inv, ShelfInv, [Next]_vars, NEW o \in Op PROVE Told(o)
  <2> SUFFICES ASSUME lease[o] = "active", lease'[o] # "active" PROVE Told(o)
    OBVIOUS
  <2>1. TypeOK /\ WorldInv /\ OpInv(o)
    BY <1>1 DEF Inv, WorldInv
  <2>2. PICK k \in Task : Release(k) \/ FailRelease(k)
    BY <1>1, <2>1 DEF Next, Step, vars, Begin, RecoverReleased, RecoverRefused, RecoverActive,
       RecoverUnknown, Relock, Create, Acquire, Capture, Encrypt, Confirm, Mutate, Replace,
       WriteTree, Commit, RetainBackup, Establish, RolledBack, Finally, Delete, Fail, Kill,
       CleanUp, Launch, Exit, Play, CloudMoves, SetLease, TypeOK
  <2>3. /\ At(k, "release")
        /\ lease' \in {lease, [lease EXCEPT ![Mine(k)] = OutcomeOf(op[Mine(k)].state)]}
    BY <2>2 DEF Release, FailRelease, SetLease
  <2>4. Mine(k) = o /\ lease'[o] = OutcomeOf(op[o].state)
    BY <2>1, <2>3 DEF TypeOK
  <2>5. op[o] \in Operation /\ TaskInv(k) /\ TreeInv(o)
    BY <1>1, <2>1 DEF Inv, TypeOK, OpInv, Active
  <2>6. op[o].state \in {"null", "PREPARED", "COMMITTED", "ROLLED_BACK"}
    BY <2>3, <2>4, <2>5 DEF At, TaskInv, StateAt, Operation, State
  <2>7. CASE op[o].state = "COMMITTED"
    <3>1. o \notin aged
      BY <1>1, <2>1, <2>5, PendingKept DEF TreeInv, Pending
    <3>2. Retainable(o)
      BY <2>1, <2>5, <2>7, <3>1 DEF OpInv, TreeInv, InCas, Retainable
    <3>3. QED
      BY <2>4, <2>5, <2>7, <3>2 DEF TreeInv, OutcomeOf
  <2>8. CASE op[o].state = "ROLLED_BACK"
    <3>1. tree = op[o].before /\ tree # Partial
      BY <2>1, <2>5, <2>8, SafAssumption DEF TreeInv, Operation, Save, TypeOK
    <3>2. QED
      BY <2>4, <2>8, <3>1 DEF OutcomeOf
  <2>9. CASE op[o].state \in {"null", "PREPARED"}
    BY <2>4, <2>5, <2>9 DEF TreeInv, OutcomeOf
  <2>10. QED
    BY <2>6, <2>7, <2>8, <2>9
<1>2. Inv /\ ShelfInv /\ [Next]_vars => [\A o \in Op : Told(o)]_vars
  BY <1>1
<1>3. QED
  BY <1>2, Invariance, PTL DEF Spec, ReceiptTruthful
=============================================================================
