----------------------------- MODULE SafRestore -----------------------------
(***************************************************************************)
(* The Android application's restore of the cloud's HEAD into the          *)
(* emulator's save tree (CloudRestorePipeline.kt).  The tree is reached    *)
(* through the Storage Access Framework, which renames nothing atomically: *)
(* it is emptied and written again file by file.  What protects it is an   *)
(* operation directory with a copy of the tree, a state file and the       *)
(* identity of a lease that keeps the emulator (Nemessix) from running.    *)
(*                                                                         *)
(* The application may be killed at any step, and each step may fail; the  *)
(* next restore recovers every operation it finds first.  Tasks are        *)
(* restores that the user asks for; nothing but their own disabled button  *)
(* keeps two of them apart, and the instances that are checked have one.   *)
(* The emulator remembers its leases across kills of both programs.        *)
(***************************************************************************)
EXTENDS FiniteSets, Naturals

CONSTANTS
    Task,        \* restores that may run at the same time
    Played,      \* trees that the game writes
    Cloud,       \* trees that the HEAD may name
    Partial,     \* a tree that is being emptied or written
    Nothing,     \* no tree
    Kept,        \* backups that restore-cas keeps (20)
    MaxOp,       \* bound: restore operations
    MaxTrouble   \* bound: kills and failing steps

ASSUME SafAssumption ==
    /\ {Partial, Nothing} \cap (Played \cup Cloud) = {}
    /\ Partial # Nothing
    /\ Played \cap Cloud = {}
    /\ Kept \in Nat \ {0}
    /\ MaxOp \in Nat \ {0}
    /\ MaxTrouble \in Nat

VARIABLES
    tree,      \* the save tree
    head,      \* the tree that the cloud's HEAD names
    op,        \* the operation directories, in the order in which they are begun
    cas,       \* the encrypted backups moved to restore-cas, by operation
    aged,      \* the operations whose backup was deleted from there for its age
    ledger,    \* the baseline: the tree captured, and the HEAD it is equal to
    lease,     \* the emulator's record of each operation's lease
    game,      \* whether the emulator runs
    task,      \* what each restore does
    owed,      \* played trees that only the game itself may destroy
    trouble    \* how often something was killed or failed

vars == <<tree, head, op, cas, aged, ledger, lease, game, task, owed, trouble>>

Op == 1..MaxOp
Save == Played \cup Cloud
State == {"null", "PREPARED", "MUTATING", "ROLLBACK_REQUIRED", "COMMITTED", "ROLLED_BACK"}
Outcome == {"COMMITTED", "ROLLED_BACK", "ABORTED"}

Operation == [lease : BOOLEAN,             \* lease.json is there
              desired : Cloud \cup {Nothing}, \* the HEAD it names, and the backup
              state : State,
              before : Save \cup {Nothing}, \* the copy of the tree
              bundle : BOOLEAN]            \* the encrypted copy of it
NoOperation == [lease |-> FALSE, desired |-> Nothing, state |-> "null",
                before |-> Nothing, bundle |-> FALSE]

Pc == {"idle", "recover", "relock", "acquire", "capture", "encrypt",
       "confirm", "mutate", "replace", "write", "commit", "retain", "establish",
       "undo", "unwrite", "rolledBack", "release", "finally", "delete"}

\* On whose behalf a task works: recoverPending, a restore that has met no
\* error, or the error path of one that has.
Mode == {"recovering", "restoring", "failing"}

NoTask == [pc |-> "idle", op |-> 1, mode |-> "restoring", head |-> Nothing]

TypeOK ==
    /\ tree \in Save \cup {Partial}
    /\ head \in Cloud
    /\ op \in [Op -> Operation]
    /\ cas \in [Op -> Save \cup {Nothing}]
    /\ aged \subseteq Op
    /\ ledger \in [tree : Save, head : Cloud] \cup {[tree |-> Nothing, head |-> Nothing]}
    /\ lease \in [Op -> {"unknown", "active"} \cup Outcome]
    /\ game \in BOOLEAN
    /\ task \in [Task -> [pc : Pc, op : Op, mode : Mode, head : Cloud \cup {Nothing}]]
    /\ owed \subseteq Played
    /\ trouble \in 0..MaxTrouble

Init ==
    /\ tree \in Played
    /\ head \in Cloud
    /\ op = [o \in Op |-> NoOperation]
    /\ cas = [o \in Op |-> Nothing]
    /\ aged = {}
    /\ ledger = [tree |-> Nothing, head |-> Nothing]
    /\ lease = [o \in Op |-> "unknown"]
    /\ game = FALSE
    /\ task = [k \in Task |-> NoTask]
    /\ owed = {tree}
    /\ trouble = 0

(***************************************************************************)
(* Helpers                                                                 *)
(***************************************************************************)
At(k, pc) == task[k].pc = pc
Mine(k) == task[k].op
Goto(k, pc) == task' = [task EXCEPT ![k].pc = pc]
Finish(k) == task' = [task EXCEPT ![k] = NoTask]

Pending == {o \in Op : op[o].lease}
Fresh == {o \in Op : op[o] = NoOperation /\ lease[o] = "unknown"}
Held == \E o \in Op : lease[o] = "active"
SetState(o, s) == op' = [op EXCEPT ![o].state = s]
SetLease(o, l) == lease' = [lease EXCEPT ![o] = l]

Emulator == <<game, owed, head>>
Backups == <<cas, aged>>
Store == <<op, Backups, ledger>>

MayFail == trouble < MaxTrouble
CountTrouble == MayFail /\ trouble' = trouble + 1

\* Mutant: a release tells the state itself.
OutcomeOfAnyState(s) == s

\* The outcome that a release tells, by the state that the operation is in.
OutcomeOf(s) == IF s \in {"COMMITTED", "ROLLED_BACK"} THEN s ELSE "ABORTED"

\* A lease that was released is believed if it tells what the state file does.
ReceiptMatches(o) ==
    IF lease[o] = "ABORTED"
    THEN op[o].state \in {"null", "PREPARED"}
    ELSE op[o].state = lease[o] /\ op[o].desired # Nothing

\* Mutant: the backups are sorted the other way round.
SurplusYoungest(c) ==
    LET shelf == {o \in Op : c[o] # Nothing} \ aged
    IN  {o \in shelf : Cardinality({q \in shelf : q < o}) >= Kept}

\* All but the Kept youngest backups of a restore-cas c.  (A backup is as old as
\* its encryption, and restores encrypt in the order in which they are begun.)
Surplus(c) ==
    LET shelf == {o \in Op : c[o] # Nothing} \ aged
    IN  {o \in shelf : Cardinality({q \in shelf : q > o}) >= Kept}

\* They are deleted, and what cannot be deleted is passed over.
CleanupRetention(c) == \E gone \in SUBSET Surplus(c) : aged' = aged \cup gone

\* The encrypted backup moves to restore-cas, unless it is there; then the
\* surplus goes.
Retainable(o) == op[o].bundle \/ (cas[o] # Nothing /\ o \notin aged)
Retain(o) ==
    /\ Retainable(o)
    /\ op' = [op EXCEPT ![o].bundle = FALSE]
    /\ cas' = IF op[o].bundle THEN [cas EXCEPT ![o] = op[o].before] ELSE cas
    /\ CleanupRetention(cas')

(***************************************************************************)
(* Recovery of the operations that were left (recoverPending)              *)
(***************************************************************************)
Begin(k) ==
    /\ At(k, "idle")
    /\ Pending \cup Fresh # {}
    /\ task' = [task EXCEPT ![k].pc = "recover", ![k].mode = "recovering"]
    /\ UNCHANGED <<tree, lease, Emulator, Store, trouble>>

\* The lease was released before: the operation is only to be deleted.
RecoverReleased(k) ==
    /\ At(k, "recover")
    /\ \E o \in Pending :
        /\ lease[o] \in Outcome
        /\ ReceiptMatches(o)
        /\ IF lease[o] = "COMMITTED" THEN Retain(o) ELSE UNCHANGED <<op, Backups>>
        /\ task' = [task EXCEPT ![k].pc = "delete", ![k].op = o]
    /\ UNCHANGED <<tree, ledger, lease, Emulator, trouble>>

\* Recovery throws, and with it the restore: restore_terminal_receipt_mismatch.
RecoverRefused(k) ==
    /\ At(k, "recover")
    /\ \E o \in Pending : lease[o] \in Outcome /\ ~ReceiptMatches(o)
    /\ Finish(k)
    /\ UNCHANGED <<tree, lease, Emulator, Store, trouble>>

RecoverActive(k) ==
    /\ At(k, "recover")
    /\ \E o \in Pending :
        /\ lease[o] = "active"
        /\ task' = [task EXCEPT ![k].pc = "relock", ![k].op = o]
    /\ UNCHANGED <<tree, lease, Emulator, Store, trouble>>

\* The emulator never heard of the operation, which asks for its lease again.
RecoverUnknown(k) ==
    /\ At(k, "recover")
    /\ \E o \in Pending :
        /\ lease[o] = "unknown"
        /\ \/ /\ game
              /\ Finish(k)
              /\ UNCHANGED lease
           \/ /\ ~game
              /\ SetLease(o, "active")
              /\ task' = [task EXCEPT ![k].pc = "relock", ![k].op = o]
    /\ UNCHANGED <<tree, Emulator, Store, trouble>>

\* Mutant: only an operation still in MUTATING is rolled back.
RelockOnlyMutating(k) ==
    LET o == Mine(k) IN
    /\ At(k, "relock")
    /\ lease[o] = "active"
    /\ \/ /\ op[o].state = "MUTATING"
          /\ SetState(o, "ROLLBACK_REQUIRED")
          /\ Goto(k, "undo")
       \/ /\ op[o].state # "MUTATING"
          /\ Goto(k, "release")
          /\ UNCHANGED op
    /\ UNCHANGED <<tree, Backups, ledger, lease, Emulator, trouble>>

\* What is to be done with the operation that the task holds the lease of.  (A
\* roll-back is refused if the user has chosen another tree since; the refusal
\* is Fail's at "relock", and the tree here is the one the operation was begun on.)
Relock(k) ==
    LET o == Mine(k) IN
    /\ At(k, "relock")
    /\ lease[o] = "active"
    /\ \/ /\ op[o].state \in {"MUTATING", "ROLLBACK_REQUIRED"}
          /\ op[o].before # Nothing
          /\ SetState(o, "ROLLBACK_REQUIRED")
          /\ Goto(k, "undo")
          /\ UNCHANGED Backups
       \/ /\ op[o].state = "COMMITTED"
          /\ Retain(o)
          /\ Goto(k, "release")
       \/ /\ op[o].state \in {"ROLLED_BACK", "null", "PREPARED"}
          /\ Goto(k, "release")
          /\ UNCHANGED <<op, Backups>>
    /\ UNCHANGED <<tree, ledger, lease, Emulator, trouble>>

(***************************************************************************)
(* A restore (executeWithRoot)                                             *)
(***************************************************************************)
\* Its operation is on disk before the emulator is asked for a lease.
Create(k) ==
    /\ At(k, "recover")
    /\ Pending = {}
    /\ \/ /\ Fresh = {}
          /\ Finish(k)
          /\ UNCHANGED op
       \/ \E o \in Fresh :
          /\ \A q \in Fresh : o <= q
          /\ op' = [op EXCEPT ![o].lease = TRUE]
          /\ task' = [task EXCEPT ![k].pc = "acquire", ![k].op = o, ![k].mode = "restoring"]
    /\ UNCHANGED <<tree, Backups, ledger, lease, Emulator, trouble>>

\* Mutant: the operation is removed on every error, as if each proved no lease.
AcquireForgetsOnError(k) ==
    LET o == Mine(k) IN
    /\ At(k, "acquire")
    /\ \/ /\ game
          /\ op' = [op EXCEPT ![o] = NoOperation]
          /\ Finish(k)
          /\ UNCHANGED <<lease, trouble>>
       \/ /\ ~game
          /\ SetLease(o, "active")
          /\ \/ Goto(k, "capture") /\ UNCHANGED <<op, trouble>>
             \/ /\ op' = [op EXCEPT ![o] = NoOperation]
                /\ Finish(k)
                /\ CountTrouble
    /\ UNCHANGED <<tree, Backups, ledger, Emulator>>

\* An operation whose lease was denied is removed; one whose answer was lost stays.
Acquire(k) ==
    LET o == Mine(k) IN
    /\ At(k, "acquire")
    /\ \/ /\ game
          /\ op' = [op EXCEPT ![o] = NoOperation]
          /\ Finish(k)
          /\ UNCHANGED <<lease, trouble>>
       \/ /\ ~game
          /\ SetLease(o, "active")
          /\ \/ Goto(k, "capture") /\ UNCHANGED trouble
             \/ Finish(k) /\ CountTrouble
          /\ UNCHANGED op
    /\ UNCHANGED <<tree, Backups, ledger, Emulator>>

\* The HEAD is fetched and the tree captured, while the emulator is held.
Capture(k) ==
    /\ At(k, "capture")
    /\ task' = [task EXCEPT ![k].pc = "encrypt", ![k].head = head]
    /\ op' = [op EXCEPT ![Mine(k)].before = tree]
    /\ UNCHANGED <<tree, Backups, ledger, lease, Emulator, trouble>>

\* The backup is encrypted and the HEAD downloaded; lease.json names the two.
Encrypt(k) ==
    /\ At(k, "encrypt")
    /\ op' = [op EXCEPT ![Mine(k)].bundle = TRUE, ![Mine(k)].desired = task[k].head]
    /\ Goto(k, "confirm")
    /\ UNCHANGED <<tree, Backups, ledger, lease, Emulator, trouble>>

Confirm(k) ==
    /\ At(k, "confirm")
    /\ \/ /\ head = task[k].head
          /\ lease[Mine(k)] = "active"
          /\ SetState(Mine(k), "PREPARED")
          /\ Goto(k, "mutate")
       \/ /\ head # task[k].head \/ lease[Mine(k)] # "active"
          /\ Goto(k, "finally")
          /\ UNCHANGED op
    /\ UNCHANGED <<tree, Backups, ledger, lease, Emulator, trouble>>

Mutate(k) ==
    /\ At(k, "mutate")
    /\ SetState(Mine(k), "MUTATING")
    /\ Goto(k, "replace")
    /\ UNCHANGED <<tree, Backups, ledger, lease, Emulator, trouble>>

\* replaceFrom empties the tree and writes it again: two steps for many.
Replace(k) ==
    /\ \/ At(k, "replace") /\ Goto(k, "write")
       \/ At(k, "undo") /\ Goto(k, "unwrite")
    /\ tree' = Partial
    /\ UNCHANGED <<lease, Emulator, Store, trouble>>

WriteTree(k) ==
    /\ \/ /\ At(k, "write")
          /\ tree' = op[Mine(k)].desired
          /\ Goto(k, "commit")
       \/ /\ At(k, "unwrite")
          /\ tree' = op[Mine(k)].before
          /\ Goto(k, "rolledBack")
    /\ UNCHANGED <<lease, Emulator, Store, trouble>>

Commit(k) ==
    /\ At(k, "commit")
    /\ SetState(Mine(k), "COMMITTED")
    /\ Goto(k, "retain")
    /\ UNCHANGED <<tree, Backups, ledger, lease, Emulator, trouble>>

RetainBackup(k) ==
    /\ At(k, "retain")
    /\ Retain(Mine(k))
    /\ Goto(k, "establish")
    /\ UNCHANGED <<tree, ledger, lease, Emulator, trouble>>

\* Mutant: the HEAD is fetched anew for the baseline.
EstablishLatest(k) ==
    /\ At(k, "establish")
    /\ ledger' = [tree |-> tree, head |-> head]
    /\ Goto(k, "release")
    /\ UNCHANGED <<tree, op, Backups, lease, Emulator, trouble>>

\* The tree is captured again and noted as equal to the HEAD.
Establish(k) ==
    /\ At(k, "establish")
    /\ ledger' = [tree |-> tree, head |-> task[k].head]
    /\ Goto(k, "release")
    /\ UNCHANGED <<tree, op, Backups, lease, Emulator, trouble>>

\* A tree rolled back is told so, by recovery and by the restore's error path.
RolledBack(k) ==
    /\ At(k, "rolledBack")
    /\ SetState(Mine(k), "ROLLED_BACK")
    /\ Goto(k, IF task[k].mode = "recovering" THEN "release" ELSE "finally")
    /\ UNCHANGED <<tree, Backups, ledger, lease, Emulator, trouble>>

\* Mutant: the error path releases the emulator in every state.
FinallyAlwaysReleases(k) ==
    /\ At(k, "finally")
    /\ task' = [task EXCEPT ![k].pc = "release", ![k].mode = "failing"]
    /\ UNCHANGED <<tree, lease, Emulator, Store, trouble>>

\* The error path keeps the emulator held while the tree is unsettled.
Finally(k) ==
    /\ At(k, "finally")
    /\ \/ /\ op[Mine(k)].state \in {"MUTATING", "ROLLBACK_REQUIRED"}
          /\ Finish(k)
       \/ /\ op[Mine(k)].state \notin {"MUTATING", "ROLLBACK_REQUIRED"}
          /\ task' = [task EXCEPT ![k].pc = "release", ![k].mode = "failing"]
    /\ UNCHANGED <<tree, lease, Emulator, Store, trouble>>

\* After an error an operation that had begun is left for the next recovery.
AfterRelease(k) ==
    IF task[k].mode = "failing" /\ op[Mine(k)].state \notin {"null", "PREPARED"}
    THEN Finish(k)
    ELSE Goto(k, "delete")

Release(k) ==
    /\ At(k, "release")
    /\ SetLease(Mine(k), OutcomeOf(op[Mine(k)].state))
    /\ AfterRelease(k)
    /\ UNCHANGED <<tree, Emulator, Store, trouble>>

Delete(k) ==
    /\ At(k, "delete")
    /\ op' = [op EXCEPT ![Mine(k)] = NoOperation]
    /\ IF task[k].mode = "recovering" THEN Goto(k, "recover") ELSE Finish(k)
    /\ UNCHANGED <<tree, Backups, ledger, lease, Emulator, trouble>>

(***************************************************************************)
(* Trouble, and the rest of the world                                      *)
(***************************************************************************)
\* A step throws before it has done anything.
Fail(k) ==
    LET o == Mine(k) IN
    /\ CountTrouble
    /\ \/ /\ task[k].pc \in {"capture", "encrypt", "confirm", "mutate", "retain"}
          /\ Goto(k, "finally")
          /\ UNCHANGED op
       \/ /\ task[k].pc \in {"replace", "write", "commit"}
          /\ SetState(o, "ROLLBACK_REQUIRED")
          /\ task' = [task EXCEPT ![k].pc = "undo", ![k].mode = "failing"]
       \/ /\ task[k].pc = "establish"       \* captureAndEstablish's error is dropped
          /\ Goto(k, "release")
          /\ UNCHANGED op
       \/ /\ task[k].pc \in {"replace", "write", "commit",  \* nor can the state be written
                             "undo", "unwrite", "rolledBack"}
          /\ IF task[k].mode = "recovering" THEN Finish(k) ELSE Goto(k, "finally")
          /\ UNCHANGED op
       \/ /\ task[k].pc \in {"recover", "relock", "acquire"}
          /\ Finish(k)
          /\ UNCHANGED op
    /\ UNCHANGED <<tree, Backups, ledger, lease, Emulator>>

\* A release throws, with or without having been heard.
FailRelease(k) ==
    /\ At(k, "release")
    /\ CountTrouble
    /\ lease' \in {lease, [lease EXCEPT ![Mine(k)] = OutcomeOf(op[Mine(k)].state)]}
    /\ IF task[k].mode = "restoring" THEN Goto(k, "finally") ELSE Finish(k)
    /\ UNCHANGED <<tree, Emulator, Store>>

\* What a deletion that was interrupted may leave of an operation.
Remnant(r) ==
    {[lease |-> l, desired |-> IF l THEN r.desired ELSE Nothing,
      state |-> s, before |-> b, bundle |-> n] :
        l \in {r.lease, FALSE}, s \in {r.state, "null"},
        b \in {r.before, Nothing}, n \in {r.bundle, FALSE}}

\* The application is killed.
Kill(k) ==
    /\ ~At(k, "idle")
    /\ CountTrouble
    /\ IF At(k, "delete")
       THEN \E r \in Remnant(op[Mine(k)]) : op' = [op EXCEPT ![Mine(k)] = r]
       ELSE UNCHANGED op
    /\ task' = [t \in Task |-> NoTask]
    /\ UNCHANGED <<tree, Backups, ledger, lease, Emulator>>

\* When the application is opened: what has no lease.json was never begun, or is
\* done; at the end the surplus of backups goes.
CleanUp ==
    /\ \/ \E o \in Op :
          /\ op[o] # NoOperation
          /\ ~op[o].lease
          /\ op[o].state \in {"null", "PREPARED", "ROLLED_BACK"}
          /\ op' = [op EXCEPT ![o] = NoOperation]
          /\ UNCHANGED aged
       \/ CleanupRetention(cas) /\ UNCHANGED op
    /\ UNCHANGED <<tree, cas, ledger, lease, Emulator, task, trouble>>

\* The emulator starts unless it is held; the game then writes the tree.
Launch ==
    /\ ~game
    /\ ~Held
    /\ game' = TRUE
    /\ UNCHANGED <<tree, head, owed, lease, Store, task, trouble>>

Exit ==
    /\ game
    /\ game' = FALSE
    /\ UNCHANGED <<tree, head, owed, lease, Store, task, trouble>>

Play(s) ==
    /\ game
    /\ s # tree
    /\ tree' = s
    /\ owed' = (owed \ {tree}) \cup {s}
    /\ UNCHANGED <<game, head, lease, Store, task, trouble>>

\* Another device commits.
CloudMoves ==
    /\ head' \in Cloud \ {head}
    /\ UNCHANGED <<tree, game, owed, lease, Store, task, trouble>>

Step(k) ==
    \/ Begin(k) \/ RecoverReleased(k) \/ RecoverRefused(k) \/ RecoverActive(k)
    \/ RecoverUnknown(k) \/ Relock(k) \/ Create(k) \/ Acquire(k) \/ Capture(k)
    \/ Encrypt(k) \/ Confirm(k) \/ Mutate(k) \/ Replace(k) \/ WriteTree(k)
    \/ Commit(k) \/ RetainBackup(k) \/ Establish(k) \/ RolledBack(k) \/ Finally(k)
    \/ Release(k) \/ Delete(k)

Next ==
    \/ \E k \in Task : Step(k) \/ Fail(k) \/ FailRelease(k) \/ Kill(k)
    \/ CleanUp
    \/ Launch \/ Exit \/ CloudMoves
    \/ \E s \in Played : Play(s)

Spec == Init /\ [][Next]_vars

\* The user asks again after every error, with the same tree, and an application
\* that runs goes on.
FairSpec == Spec /\ \A k \in Task : WF_vars(Step(k))

(***************************************************************************)
(* Properties                                                              *)
(***************************************************************************)
\* The operations with a backup younger than o's, deleted or not.
Younger(o) == {q \in Op : q > o /\ cas[q] # Nothing}

\* A tree that the game wrote is lost only to the game: it is in the tree, in
\* an operation's backup or, once the operation is deleted, in restore-cas, until
\* as many younger backups have come there as are kept.
PriorSaveKept ==
    \A s \in owed :
        \/ tree = s
        \/ \E o \in Op :
              \/ s = op[o].before
              \/ s = cas[o] /\ (o \in aged => Cardinality(Younger(o)) >= Kept)

\* The emulator never runs on a tree that a restore, a failed one or a killed
\* one has left half written, whichever program was killed when.
GameReadsWholeTree == game => tree # Partial

\* What a release tells the emulator is true of the tree at that moment: a
\* committed one holds the HEAD and its backup is kept, and one that was rolled
\* back or given up holds what was captured before.
ReceiptTruthful ==
    [][\A o \in Op :
        lease[o] = "active" /\ lease'[o] # "active" =>
            IF lease'[o] = "COMMITTED"
            THEN tree = op[o].desired /\ Retainable(o)
            ELSE tree # Partial /\ op[o].before \in {tree, Nothing}]_vars

\* The baseline only ever equates a tree with the HEAD that it was restored from.
BaselineTruthful == ledger.tree = ledger.head

\* The emulator is not held for ever: every lease that was granted is released, if
\* the user asks again with the tree that the operation was begun on.
EmulatorFreed == Held ~> ~Held
=============================================================================
