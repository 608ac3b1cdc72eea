------------------------------ MODULE ExtraTxn ------------------------------
(***************************************************************************)
(* mh3g-save-convert's installation of a group of ExtData components (the  *)
(* guild cards, the quests) and its roll-back, as                          *)
(* crates/mh3g-save-convert/src/extras_transaction.rs performs them on     *)
(* POSIX systems: a transaction directory with a journal, a backup and a   *)
(* staged file for every component, then one atomic exchange of names      *)
(* after the other.  Nothing is compensated and nothing is removed: a call *)
(* that stops half-way, killed or failed, leaves a mixture, and the        *)
(* journal from which a roll-back can be made.                             *)
(*                                                                         *)
(* The calls exclude each other by an operating-system lock, which a kill  *)
(* releases.  A program that knows nothing of it (the emulator, say) may   *)
(* write over a component, or remove it, at any moment; it puts whole      *)
(* files into place, and stays out of the transaction directories.         *)
(***************************************************************************)
EXTENDS FiniteSets, Naturals

CONSTANTS
    Proc,           \* processes of the converter
    Count,          \* number of components in the group
    Own,            \* contents that the converter installs or finds at first
    Foreign,        \* contents that other programs write, each once
    Missing,        \* what is read of a file that does not exist
    Torn,           \* what is read of a file whose writer was stopped
    Free,           \* nobody holds the lock
    NoPlan,         \* a transaction that has not begun
    MaxTxn,         \* bound: transactions
    AnyOrder,       \* TRUE: an older installation is rolled back under a newer
    OutsiderCreates \* TRUE: other programs also create a missing component

Component == 1..Count
Txn == 1..MaxTxn
Bytes == Own \cup Foreign
File == Bytes \cup {Missing, Torn}
Plan == [before : [Component -> Bytes], after : [Component -> Own]]

ASSUME ExtraAssumption ==
    /\ Count \in Nat \ {0}
    /\ MaxTxn \in Nat \ {0}
    /\ Own \cap Foreign = {}
    /\ {Missing, Torn} \cap (Own \cup Foreign) = {}
    /\ Missing # Torn
    /\ Free \notin Proc
    /\ NoPlan \notin Plan
    /\ AnyOrder \in BOOLEAN
    /\ OutsiderCreates \in BOOLEAN

VARIABLES
    target,   \* the components in the emulator's directory
    plan,     \* for each transaction, the group before and after it
    journal,  \* its journal file: missing, torn or whole
    backup,   \* its backup files
    staged,   \* its staged files, which the exchange swaps with the targets
    lock,     \* who holds the lock
    task,     \* the call each process makes
    outsider, \* what other programs do to the components: "write", "remove"
    owed,     \* foreign contents that only other programs may destroy
    last      \* history: the transaction that changed a component last

vars == <<target, plan, journal, backup, staged, lock, task, outsider, owed, last>>

InstallPc == {"journal", "backups", "stage", "check", "exchange", "verify", "reverse"}
RollbackPc == {"undo", "undoExchange", "undoVerify", "undoReverse", "undoRename"}

Task == [pc : {"idle"} \cup InstallPc \cup RollbackPc,
         txn : Txn,
         at : 1..(Count + 1),                \* the component it is at
         found : [Component -> Bytes \cup {Missing}]] \* what a roll-back found

Idle == [pc |-> "idle", txn |-> 1, at |-> 1,
         found |-> [c \in Component |-> Missing]]

TypeOK ==
    /\ target \in [Component -> Bytes \cup {Missing}]
    /\ plan \in [Txn -> Plan \cup {NoPlan}]
    /\ journal \in [Txn -> {"missing", "torn", "whole"}]
    /\ backup \in [Txn -> [Component -> File]]
    /\ staged \in [Txn -> [Component -> File]]
    /\ lock \in Proc \cup {Free}
    /\ task \in [Proc -> Task]
    /\ outsider \subseteq {"write", "remove"}
    /\ owed \subseteq Foreign
    /\ last \in Txn \cup {0}

NoFiles == [t \in Txn |-> [c \in Component |-> Missing]]

Init ==
    /\ target \in [Component -> Own]
    /\ plan = [t \in Txn |-> NoPlan]
    /\ journal = [t \in Txn |-> "missing"]
    /\ backup = NoFiles
    /\ staged = NoFiles
    /\ lock = Free
    /\ task = [p \in Proc |-> Idle]
    /\ outsider \in SUBSET {"write", "remove"}
    /\ owed = {}
    /\ last = 0

(***************************************************************************)
(* Helpers                                                                 *)
(***************************************************************************)
At(p, pc) == task[p].pc = pc
Before(t, c) == plan[t].before[c]
After(t, c) == plan[t].after[c]

Goto(p, pc) == task' = [task EXCEPT ![p].pc = pc]
GotoNext(p, pc) == task' = [task EXCEPT ![p].pc = pc, ![p].at = @ + 1]
\* The next component, or the next phase after the last one.
Advance(p, phase) ==
    LET k == task[p] IN
    task' = [task EXCEPT ![p] =
                IF k.at < Count THEN [k EXCEPT !.at = k.at + 1]
                ELSE [k EXCEPT !.at = 1, !.pc = phase]]
\* An advisory lock of the operating system, on a file that stays.
TakeLock(p) == lock = Free /\ lock' = p
Return(p) == /\ task' = [task EXCEPT ![p] = Idle]
             /\ lock' = Free

World == <<outsider, owed>>
Files == <<target, plan, journal, backup, staged, last>>

\* Part of a transaction's changes are in place.
Mixed(t) ==
    /\ t # 0
    /\ \A c \in Component : target[c] \in {Before(t, c), After(t, c)}
    /\ \E c \in Component : target[c] # Before(t, c)
    /\ \E c \in Component : target[c] # After(t, c)

\* Transaction t holds what it has replaced.
Holds(t, c) == staged[t][c] = Before(t, c) /\ Before(t, c) # After(t, c)
Open(t) == plan[t] # NoPlan /\ \E c \in Component : Holds(t, c)

\* Mutant: the staged file is renamed onto the component.
SwapNamesRenames(t, c) ==
    /\ staged[t][c] \notin {Missing, Torn}
    /\ target' = [target EXCEPT ![c] = staged[t][c]]
    /\ staged' = [staged EXCEPT ![t][c] = Missing]

\* The two names of transaction t's component c change places.
SwapNames(t, c) ==
    /\ {target[c], staged[t][c]} \cap {Missing, Torn} = {}
    /\ target' = [target EXCEPT ![c] = staged[t][c]]
    /\ staged' = [staged EXCEPT ![t][c] = target[c]]

(***************************************************************************)
(* An installation                                                         *)
(***************************************************************************)
\* Mutant: the group that the dry run read is not compared under the lock.
StartInstallStale(p, t, after) ==
    /\ At(p, "idle")
    /\ TakeLock(p)
    /\ ~Mixed(last)
    /\ plan[t] = NoPlan /\ \A u \in 1..(t - 1) : plan[u] # NoPlan
    /\ \A c \in Component : target[c] # Missing
    /\ \E before \in [Component -> Own] :
           plan' = [plan EXCEPT ![t] = [before |-> before, after |-> after]]
    /\ task' = [task EXCEPT ![p].pc = "journal", ![p].txn = t]
    /\ UNCHANGED <<target, journal, backup, staged, last, World>>

\* Under the lock, the group is read and a transaction directory is created
\* for it.  (A call that finds another group than its dry run saw, or the
\* emulator running, does nothing.)  The user is told to roll an unfinished
\* installation back and is taken to do so before the next one.
StartInstall(p, t, after) ==
    /\ At(p, "idle")
    /\ TakeLock(p)
    /\ ~Mixed(last)
    /\ plan[t] = NoPlan /\ \A u \in 1..(t - 1) : plan[u] # NoPlan
    /\ \A c \in Component : target[c] # Missing
    /\ plan' = [plan EXCEPT ![t] = [before |-> target, after |-> after]]
    /\ task' = [task EXCEPT ![p].pc = "journal", ![p].txn = t]
    /\ UNCHANGED <<target, journal, backup, staged, last, World>>

WriteJournal(p) ==
    /\ At(p, "journal")
    /\ journal' = [journal EXCEPT ![task[p].txn] = "whole"]
    /\ Goto(p, "backups")
    /\ UNCHANGED <<target, plan, backup, staged, last, lock, World>>

\* Mutant: a component that the replacement leaves as it is gets no backup.
WriteBackupChangedOnly(p) ==
    LET t == task[p].txn  c == task[p].at IN
    /\ At(p, "backups")
    /\ backup' = IF Before(t, c) = After(t, c) THEN backup
                 ELSE [backup EXCEPT ![t][c] = Before(t, c)]
    /\ Advance(p, "stage")
    /\ UNCHANGED <<target, plan, journal, staged, last, lock, World>>

WriteBackup(p) ==
    LET t == task[p].txn  c == task[p].at IN
    /\ At(p, "backups")
    /\ backup' = [backup EXCEPT ![t][c] = Before(t, c)]
    /\ Advance(p, "stage")
    /\ UNCHANGED <<target, plan, journal, staged, last, lock, World>>

WriteStaged(p) ==
    LET t == task[p].txn  c == task[p].at IN
    /\ At(p, "stage")
    /\ staged' = [staged EXCEPT ![t][c] = After(t, c)]
    /\ Advance(p, "check")
    /\ UNCHANGED <<target, plan, journal, backup, last, lock, World>>

\* Before every exchange, and after the last one, the whole group must be as
\* the transaction has left it.
Check(p) ==
    LET t == task[p].txn
        n == task[p].at
        asLeft == /\ \A c \in 1..(n - 1) : target[c] = After(t, c)
                  /\ \A c \in n..Count : target[c] = Before(t, c)
    IN
    /\ At(p, "check")
    /\ \/ /\ n <= Count /\ asLeft /\ staged[t][n] = After(t, n)
          /\ Goto(p, "exchange")
          /\ UNCHANGED lock
       \/ n > Count /\ asLeft /\ Return(p)   \* success is reported
       \/ ~asLeft /\ Return(p)
    /\ UNCHANGED <<Files, World>>

Exchange(p) ==
    LET t == task[p].txn IN
    /\ task[p].pc \in {"exchange", "undoExchange"}
    /\ SwapNames(t, task[p].at)
    /\ last' = IF target' = target THEN last ELSE t
    /\ Goto(p, IF At(p, "exchange") THEN "verify" ELSE "undoVerify")
    /\ UNCHANGED <<plan, journal, backup, lock, World>>

\* What the exchange has moved is looked at.  If another program has written
\* in between, its bytes were moved out of the way; they are moved back if
\* the component still holds ours.
Verify(p) ==
    LET t == task[p].txn
        c == task[p].at
        installing == At(p, "verify")
        ours == IF installing THEN After(t, c) ELSE Before(t, c)
        theirs == IF installing THEN Before(t, c) ELSE After(t, c)
    IN
    /\ task[p].pc \in {"verify", "undoVerify"}
    /\ \/ /\ target[c] = ours /\ staged[t][c] = theirs
          /\ GotoNext(p, IF installing THEN "check" ELSE "undo")
          /\ UNCHANGED lock
       \/ /\ target[c] = ours /\ staged[t][c] # theirs
          /\ Goto(p, IF installing THEN "reverse" ELSE "undoReverse")
          /\ UNCHANGED lock
       \/ target[c] # ours /\ Return(p)
    /\ UNCHANGED <<Files, World>>

Reverse(p) ==
    /\ task[p].pc \in {"reverse", "undoReverse"}
    /\ SwapNames(task[p].txn, task[p].at)
    /\ Return(p)
    /\ UNCHANGED <<plan, journal, backup, last, World>>

(***************************************************************************)
(* A roll-back                                                             *)
(***************************************************************************)
\* The journal can be read and names this directory's files.
ValidJournal(t) == journal[t] = "whole"

\* Component c can be put back as it was before t, as far as its names tell.
Restorable(t, c) ==
    \/ target[c] \in {After(t, c), Missing} /\ backup[t][c] = Before(t, c)
    \/ /\ target[c] = Before(t, c) /\ target[c] # After(t, c)
       /\ backup[t][c] \in {Before(t, c), Missing}

\* Every component is looked at before the first is touched.  The journals
\* are kept for ever, and any of them may be named; the user is taken to roll
\* the newest installation back first.
StartRollback(p, t) ==
    /\ At(p, "idle")
    /\ AnyOrder \/ \A u \in Txn : Open(u) => u <= t
    /\ TakeLock(p)
    /\ ValidJournal(t)
    /\ \A c \in Component : Restorable(t, c)
    /\ task' = [task EXCEPT ![p].pc = "undo", ![p].txn = t, ![p].found = target]
    /\ UNCHANGED <<Files, World>>

\* A component that held the old bytes is left alone; another is put back if
\* it is as it was found, and the staged file holds the old bytes.
UndoComponent(p) ==
    LET t == task[p].txn
        c == task[p].at
        found == task[p].found[c]
        ready == target[c] = found /\ staged[t][c] = Before(t, c)
    IN
    /\ At(p, "undo") /\ c <= Count
    /\ \/ found \notin {After(t, c), Missing} /\ GotoNext(p, "undo") /\ UNCHANGED lock
       \/ found = After(t, c) /\ ready /\ Goto(p, "undoExchange") /\ UNCHANGED lock
       \/ found = Missing /\ ready /\ Goto(p, "undoRename") /\ UNCHANGED lock
       \/ found \in {After(t, c), Missing} /\ ~ready /\ Return(p)
    /\ UNCHANGED <<Files, World>>

\* A plain rename, which would replace a component that has come back.
UndoRename(p) ==
    LET t == task[p].txn  c == task[p].at IN
    /\ At(p, "undoRename")
    /\ target' = [target EXCEPT ![c] = staged[t][c]]
    /\ staged' = [staged EXCEPT ![t][c] = Missing]
    /\ last' = t
    /\ GotoNext(p, "undo")
    /\ UNCHANGED <<plan, journal, backup, lock, World>>

\* The roll-back looks at the group again and returns, with or without error.
FinishRollback(p) ==
    /\ At(p, "undo") /\ task[p].at > Count
    /\ Return(p)
    /\ UNCHANGED <<Files, World>>

(***************************************************************************)
(* Stops, and other programs                                               *)
(***************************************************************************)
\* A kill and a failing step come to the same: the lock is released, and the
\* file that was being written is left as it is.
Stop(p) ==
    LET t == task[p].txn  c == task[p].at IN
    /\ ~At(p, "idle")
    /\ Return(p)
    /\ \/ UNCHANGED <<journal, backup, staged>>
       \/ /\ At(p, "journal")
          /\ journal' = [journal EXCEPT ![t] = "torn"]
          /\ UNCHANGED <<backup, staged>>
       \/ /\ At(p, "backups")
          /\ backup' = [backup EXCEPT ![t][c] = Torn]
          /\ UNCHANGED <<journal, staged>>
       \/ /\ At(p, "stage")
          /\ staged' = [staged EXCEPT ![t][c] = Torn]
          /\ UNCHANGED <<journal, backup>>
    /\ UNCHANGED <<target, plan, last, World>>

Outside == <<plan, journal, backup, staged, lock, task, outsider, last>>

Overwrite(c, f) ==
    /\ "write" \in outsider
    /\ target[c] # Missing \/ OutsiderCreates
    /\ f \notin owed
    /\ target' = [target EXCEPT ![c] = f]
    /\ owed' = (owed \ {target[c]}) \cup {f}
    /\ UNCHANGED Outside

Remove(c) ==
    /\ "remove" \in outsider
    /\ target[c] # Missing
    /\ target' = [target EXCEPT ![c] = Missing]
    /\ owed' = owed \ {target[c]}
    /\ UNCHANGED Outside

Install(p) ==
    \/ \E t \in Txn, after \in [Component -> Own] : StartInstall(p, t, after)
    \/ WriteJournal(p) \/ WriteBackup(p) \/ WriteStaged(p) \/ Check(p)

RollBack(p) ==
    \/ \E t \in Txn : StartRollback(p, t)
    \/ UndoComponent(p) \/ UndoRename(p) \/ FinishRollback(p)

Next ==
    \/ \E p \in Proc : \/ Install(p) \/ RollBack(p)
                       \/ Exchange(p) \/ Verify(p) \/ Reverse(p) \/ Stop(p)
    \/ \E c \in Component : Remove(c) \/ \E f \in Foreign : Overwrite(c, f)

Spec == Init /\ [][Next]_vars

(***************************************************************************)
(* Properties                                                              *)
(***************************************************************************)
\* What another program has written over a component is never lost, at
\* whatever moment it wrote: it is in place, or a transaction holds it
\* ("Exchange retains that value under staged ... instead of losing it").
ForeignBytesKept ==
    \A f \in owed : \E c \in Component :
        target[c] = f \/ \E t \in Txn : staged[t][c] = f

\* No component holds bytes that are not t's, no staged file bytes that are
\* not its own transaction's.
Undisturbed(t) ==
    \A c \in Component :
        /\ target[c] \in {Before(t, c), After(t, c)}
        /\ \A u \in Txn :
               \/ staged[u][c] \in {Missing, Torn}
               \/ plan[u] # NoPlan /\ staged[u][c] \in {Before(u, c), After(u, c)}

\* The newest installation that has changed a component can be rolled back,
\* wherever it, a failed later one, or an earlier roll-back of it was stopped:
\* all that the roll-back will ask of the journal, the backups and the staged
\* files holds, while others do not write between its bytes or remove them.
MixtureRollsBack ==
    "remove" \notin outsider =>
    \A t \in Txn :
        /\ Open(t) /\ \A u \in Txn : Open(u) => u <= t
        /\ Undisturbed(t)
        /\ \A p \in Proc : At(p, "idle")
        => /\ ValidJournal(t)
           /\ \A c \in Component :
                  /\ Restorable(t, c)
                  /\ target[c] = After(t, c) => staged[t][c] = Before(t, c)

\* While no other program interferes, the group that the targets show, or that
\* a roll-back would bring back, is replaced and put back only as a whole:
\* replaced only over what the replacement was asked for, put back only from
\* what it led to.
Recoverable == IF Mixed(last) THEN plan[last].before ELSE target
G == INSTANCE GroupInstall WITH
        Group <- [Component -> Own], group <- Recoverable, asked <- plan
ImplementsGroupInstall ==
    /\ outsider # {} \/ G!Init
    /\ [][outsider # {} \/ G!Next]_(G!vars)
=============================================================================
