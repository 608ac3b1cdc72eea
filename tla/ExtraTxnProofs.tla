--------------------------- MODULE ExtraTxnProofs ---------------------------
(***************************************************************************)
(* For any processes, components, contents, transactions and bounds: what  *)
(* other programs write is kept, a group that is left as a mixture can be  *)
(* rolled back, and ExtraTxn implements GroupInstall.                      *)
(***************************************************************************)
EXTENDS ExtraTxn, TLAPS

(***************************************************************************)
(* The files of the transactions, whatever other programs do               *)
(***************************************************************************)
Unstaged(t) == \A c \in Component : staged[t][c] = Missing
BackedUp(t) == /\ journal[t] = "whole"
               /\ \A c \in Component : backup[t][c] = Before(t, c)

\* Transactions begin in order, and a staged file has its journal and backups.
TxnInv(t) ==
    /\ plan[t] = NoPlan => /\ Unstaged(t) /\ journal[t] = "missing"
                           /\ \A u \in Txn : u > t => plan[u] = NoPlan
    /\ plan[t] # NoPlan => \A c \in Component :
           staged[t][c] \in {Missing, Torn, Before(t, c), After(t, c)} \cup Foreign
    /\ ~Unstaged(t) => BackedUp(t)

\* The running call holds the lock.
OneCall == \A p \in Proc : At(p, "idle") \/ lock = p

\* Before and after an exchange, but for what other programs do.
Unswapped(t, c, old, new) ==
    staged[t][c] = new /\ target[c] \in {old, Missing} \cup Foreign
Exchanged(t, c, old, new) ==
    /\ staged[t][c] \in {old} \cup Foreign
    /\ target[c] \in {new, Missing} \cup Foreign

\* What a call k knows of the files at each of its steps.
PcInv(k) ==
    LET t == k.txn  c == k.at IN
    /\ k.pc \in {"idle", "journal"} => c = 1
    /\ k.pc # "idle" => plan[t] # NoPlan
    /\ k.pc \notin {"idle", "check", "undo"} => c <= Count
    /\ k.pc \in InstallPc => \A u \in Txn : u > t => plan[u] = NoPlan
    /\ k.pc \in {"journal", "backups"} => Unstaged(t)
    /\ k.pc = "backups" => /\ journal[t] = "whole"
                           /\ \A d \in 1..(c - 1) : backup[t][d] = Before(t, d)
    /\ k.pc = "stage" => /\ BackedUp(t)
                         /\ \A d \in 1..(c - 1) : staged[t][d] = After(t, d)
                         /\ \A d \in c..Count : staged[t][d] = Missing
    /\ k.pc \in {"check", "exchange", "verify", "reverse"} =>
           /\ \A d \in 1..(c - 1) : staged[t][d] = Before(t, d)
           /\ \A d \in (c + 1)..Count : staged[t][d] = After(t, d)
    /\ k.pc = "check" /\ c <= Count => staged[t][c] = After(t, c)
    /\ k.pc = "exchange" => Unswapped(t, c, Before(t, c), After(t, c))
    /\ k.pc \in {"verify", "reverse"} => Exchanged(t, c, Before(t, c), After(t, c))
    /\ k.pc = "reverse" => staged[t][c] # Before(t, c)
    /\ k.pc = "undoExchange" => Unswapped(t, c, After(t, c), Before(t, c))
    /\ k.pc \in {"undoVerify", "undoReverse"} => Exchanged(t, c, After(t, c), Before(t, c))
    /\ k.pc = "undoReverse" => staged[t][c] # After(t, c)
    /\ k.pc = "undoRename" => /\ staged[t][c] = Before(t, c)
                              /\ OutsiderCreates \/ target[c] = Missing

FilesInv ==
    /\ target \in [Component -> Bytes \cup {Missing}]
    /\ plan \in [Txn -> Plan \cup {NoPlan}]
    /\ journal \in [Txn -> {"missing", "torn", "whole"}]
    /\ backup \in [Txn -> [Component -> File]]
    /\ staged \in [Txn -> [Component -> File]]
    /\ outsider \subseteq {"write", "remove"} /\ owed \subseteq Foreign
    /\ last \in Txn \cup {0}
    /\ \A t \in Txn : TxnInv(t)
    /\ OutsiderCreates \/ ForeignBytesKept

CallInv ==
    /\ task \in [Proc -> Task] /\ lock \in Proc \cup {Free}
    /\ OneCall
    /\ \A p \in Proc : PcInv(task[p])

Inv == FilesInv /\ CallInv

(***************************************************************************)
(* The operators of the model                                              *)
(***************************************************************************)
Pc == {"idle"} \cup InstallPc \cup RollbackPc

LEMMA Numbers == /\ Count \in Nat /\ Count > 0 /\ MaxTxn \in Nat /\ MaxTxn > 0
                 /\ \A c \in Component : c \in Nat /\ c > 0 /\ c <= Count
                 /\ \A t \in Txn : t \in Nat /\ t > 0
BY ExtraAssumption DEF Component, Txn

\* What a plan says is bytes, of a file that is there.
LEMMA Planned ==
    ASSUME FilesInv, NEW t \in Txn, plan[t] # NoPlan, NEW c \in Component
    PROVE  /\ Before(t, c) \in Bytes /\ After(t, c) \in Own
           /\ {Before(t, c), After(t, c)} \cap {Missing, Torn} = {}
BY ExtraAssumption DEF FilesInv, Plan, Before, After, Bytes

LEMMA Resting == Idle \in Task /\ Idle.pc = "idle" /\ Idle.at = 1
<1>1. 1 \in Txn /\ 1 \in 1..(Count + 1)
  BY Numbers DEF Txn
<1>2. [c \in Component |-> Missing] \in [Component -> Bytes \cup {Missing}]
  OBVIOUS
<1>3. QED
  BY <1>1, <1>2 DEF Idle, Task

\* What a running call is.
LEMMA Known ==
    ASSUME CallInv, NEW p \in Proc
    PROVE  /\ task[p] \in Task /\ task[p].pc \in Pc /\ task[p].txn \in Txn
           /\ task[p].at \in 1..(Count + 1)
           /\ task[p].found \in [Component -> Bytes \cup {Missing}]
           /\ PcInv(task[p])
           /\ ~At(p, "idle") => lock = p /\ \A q \in Proc \ {p} : At(q, "idle")
BY DEF CallInv, Task, Pc, OneCall, At

\* The call after a step that changes its place only,
LEMMA Goes ==
    ASSUME CallInv, NEW p \in Proc, NEW x \in Pc, Goto(p, x)
    PROVE  \E k \in Task : /\ task' = [task EXCEPT ![p] = k] /\ k.pc = x
                           /\ k.txn = task[p].txn /\ k.at = task[p].at
                           /\ k.found = task[p].found
<1> DEFINE k == [task[p] EXCEPT !.pc = x]
<1>1. task[p] \in Task /\ task' = [task EXCEPT ![p] = k]
  BY Known DEF Goto
<1>2. k \in Task /\ k.pc = x /\ k.txn = task[p].txn /\ k.at = task[p].at
      /\ k.found = task[p].found
  BY <1>1 DEF Task, Pc
<1>3. QED
  BY <1>1, <1>2

\* that goes on with the next component,
LEMMA GoesNext ==
    ASSUME CallInv, NEW p \in Proc, NEW x \in Pc, GotoNext(p, x), task[p].at <= Count
    PROVE  \E k \in Task : /\ task' = [task EXCEPT ![p] = k] /\ k.pc = x
                           /\ k.txn = task[p].txn /\ k.at = task[p].at + 1
                           /\ k.found = task[p].found
<1> DEFINE k == [task[p] EXCEPT !.pc = x, !.at = @ + 1]
<1>1. task[p] \in Task /\ task' = [task EXCEPT ![p] = k]
  BY Known DEF GotoNext
<1>2. task[p].at + 1 \in 1..(Count + 1)
  BY Known, Numbers
<1>3. k \in Task /\ k.pc = x /\ k.txn = task[p].txn /\ k.at = task[p].at + 1
      /\ k.found = task[p].found
  BY <1>1, <1>2 DEF Task, Pc
<1>4. QED
  BY <1>1, <1>3

\* or with the next phase after the last component.
LEMMA Advances ==
    ASSUME CallInv, NEW p \in Proc, NEW x \in Pc, Advance(p, x), task[p].at <= Count
    PROVE  \E k \in Task : /\ task' = [task EXCEPT ![p] = k]
                           /\ k.txn = task[p].txn
                           /\ \/ /\ task[p].at < Count
                                 /\ k.at = task[p].at + 1 /\ k.pc = task[p].pc
                              \/ task[p].at = Count /\ k.at = 1 /\ k.pc = x
<1>1. task[p] \in Task /\ task[p].at \in 1..(Count + 1)
  BY Known
<1>2. CASE task[p].at < Count
  <2> DEFINE k == [task[p] EXCEPT !.at = task[p].at + 1]
  <2>1. task[p].at + 1 \in 1..(Count + 1)
    BY <1>1, <1>2, Numbers
  <2>2. k \in Task /\ k.txn = task[p].txn /\ k.at = task[p].at + 1 /\ k.pc = task[p].pc
    BY <1>1, <2>1 DEF Task
  <2>3. task' = [task EXCEPT ![p] = k]
    BY <1>2 DEF Advance
  <2>4. QED
    BY <1>2, <2>2, <2>3
<1>3. CASE ~(task[p].at < Count)
  <2> DEFINE k == [task[p] EXCEPT !.at = 1, !.pc = x]
  <2>1. task[p].at = Count /\ 1 \in 1..(Count + 1)
    BY <1>1, <1>3, Numbers
  <2>2. k \in Task /\ k.txn = task[p].txn /\ k.at = 1 /\ k.pc = x
    BY <1>1, <2>1 DEF Task, Pc
  <2>3. task' = [task EXCEPT ![p] = k]
    BY <1>3 DEF Advance
  <2>4. QED
    BY <2>1, <2>2, <2>3
<1>4. QED
  BY <1>2, <1>3

(***************************************************************************)
(* What every step of a call needs                                         *)
(***************************************************************************)
\* A call takes a step, and only it knows anything of the files.
LEMMA GoesOn ==
    ASSUME CallInv, NEW p \in Proc, NEW k \in Task, task' = [task EXCEPT ![p] = k],
           \A q \in Proc \ {p} : At(q, "idle"),
           lock' \in Proc \cup {Free}, k.pc = "idle" \/ lock' = p, PcInv(k)'
    PROVE  CallInv'
<1>1. /\ task' \in [Proc -> Task] /\ task'[p] = k
      /\ \A q \in Proc \ {p} : task'[q] = task[q]
  BY DEF CallInv
<1>2. OneCall'
  BY <1>1 DEF OneCall, At
<1>3. ASSUME NEW q \in Proc \ {p} PROVE PcInv(task[q])'
  <2>1. task'[q] = task[q] /\ task[q].pc = "idle" /\ PcInv(task[q])
    BY <1>1, Known DEF At
  <2>2. PICK j \in Task : j = task[q]
    BY Known
  <2>3. PcInv(j)'
    BY <2>1, <2>2 DEF PcInv, InstallPc
  <2>4. QED
    BY <2>1, <2>2, <2>3
<1>4. QED
  BY <1>1, <1>2, <1>3 DEF CallInv

\* A call ends.
LEMMA Ends ==
    ASSUME CallInv, NEW p \in Proc, ~At(p, "idle"), Return(p)
    PROVE  CallInv'
<1>1. PICK k \in Task : k = Idle
  BY Resting
<1>2. k.pc = "idle" /\ k.at = 1 /\ task' = [task EXCEPT ![p] = k] /\ lock' = Free
  BY <1>1, Resting DEF Return
<1>3. PcInv(k)'
  BY <1>2 DEF PcInv, InstallPc
<1>4. QED
  BY <1>2, <1>3, Known, GoesOn

\* Only t's files change.
LEMMA OneTxn ==
    ASSUME FilesInv, NEW t \in Txn, UNCHANGED plan, TxnInv(t)',
           \A u \in Txn \ {t} : /\ journal'[u] = journal[u] /\ backup'[u] = backup[u]
                                /\ staged'[u] = staged[u]
    PROVE  \A u \in Txn : TxnInv(u)'
<1>1. ASSUME NEW u \in Txn \ {t} PROVE TxnInv(u)'
  BY <1>1 DEF FilesInv, TxnInv, Unstaged, BackedUp, Before, After
<1>2. QED
  BY <1>1

\* No file changes.
LEMMA FilesStay ==
    ASSUME FilesInv, UNCHANGED <<Files, World>>
    PROVE  FilesInv' /\ \A t \in Txn : TxnInv(t)'
BY DEF FilesInv, Files, World, TxnInv, Unstaged, BackedUp, Before, After, ForeignBytesKept

(***************************************************************************)
(* An installation                                                         *)
(***************************************************************************)
LEMMA StartInstallKeeps ==
    ASSUME Inv, NEW p \in Proc, NEW t \in Txn, NEW after \in [Component -> Own],
           StartInstall(p, t, after)
    PROVE  Inv'
<1> DEFINE new == [before |-> target, after |-> after]
<1>1. /\ FilesInv /\ CallInv /\ At(p, "idle") /\ lock = Free /\ lock' = p
      /\ plan[t] = NoPlan /\ \A u \in 1..(t - 1) : plan[u] # NoPlan
      /\ plan' = [plan EXCEPT ![t] = new]
      /\ task' = [task EXCEPT ![p].pc = "journal", ![p].txn = t]
      /\ UNCHANGED <<target, journal, backup, staged, last, owed, outsider>>
  BY DEF StartInstall, Inv, TakeLock, World
<1>2. new \in Plan /\ new # NoPlan
  <2>1. target \in [Component -> Bytes]
    BY <1>1 DEF FilesInv, StartInstall
  <2>2. new \in Plan
    BY <2>1 DEF Plan
  <2>3. QED
    BY <2>2, ExtraAssumption
<1>3. /\ plan' \in [Txn -> Plan \cup {NoPlan}] /\ plan'[t] # NoPlan
      /\ \A u \in Txn \ {t} : plan'[u] = plan[u]
  <2> HIDE DEF new
  <2>1. QED
    BY <1>1, <1>2 DEF FilesInv
<1>4. \A u \in Txn : u > t => plan'[u] = NoPlan
  BY <1>1, <1>3, Numbers DEF FilesInv, TxnInv
<1>5. ASSUME NEW u \in Txn PROVE TxnInv(u)'
  <2>1. CASE u = t
    BY <1>1, <1>3, <1>4, <2>1 DEF FilesInv, TxnInv, Unstaged
  <2>2. CASE u # t
    <3>1. plan[u] = NoPlan => u > t
      BY <1>1, <2>2, Numbers DEF Txn
    <3>2. plan[u] = NoPlan => \A v \in Txn : v > u => plan'[v] = NoPlan
      BY <1>4, <3>1, Numbers
    <3>3. Unstaged(u)' = Unstaged(u) /\ BackedUp(u)' = BackedUp(u)
      BY <1>1, <1>3, <2>2 DEF Unstaged, BackedUp, Before
    <3>4. \A c \in Component : Before(u, c)' = Before(u, c) /\ After(u, c)' = After(u, c)
      BY <1>3, <2>2 DEF Before, After
    <3>5. TxnInv(u)
      BY <1>1 DEF FilesInv
    <3>6. QED
      BY <1>1, <1>3, <2>2, <3>2, <3>3, <3>4, <3>5 DEF TxnInv
  <2>3. QED
    BY <2>1, <2>2
<1>6. FilesInv'
  <2>1. ForeignBytesKept => ForeignBytesKept'
    BY <1>1 DEF ForeignBytesKept
  <2>2. QED
    BY <1>1, <1>3, <1>5, <2>1 DEF FilesInv
<1> DEFINE k == [task[p] EXCEPT !.pc = "journal", !.txn = t]
<1>7. k \in Task /\ k.pc = "journal" /\ k.txn = t /\ k.at = 1 /\ task' = [task EXCEPT ![p] = k]
  <2>1. task[p] \in Task /\ task[p].at = 1
    BY <1>1, Known DEF At, PcInv
  <2>2. QED
    BY <1>1, <2>1 DEF Task, InstallPc
<1>8. CallInv'
  <2> HIDE DEF k
  <2>1. PICK j \in Task : j = k
    BY <1>7
  <2>2. \A q \in Proc : At(q, "idle")
    BY <1>1, ExtraAssumption DEF CallInv, OneCall
  <2>3. PcInv(j)'
    BY <1>1, <1>3, <1>4, <1>7, <2>1, Numbers DEF PcInv, FilesInv, TxnInv, Unstaged
  <2>4. QED
    BY <1>1, <1>7, <2>1, <2>2, <2>3, GoesOn
<1>9. QED
  BY <1>6, <1>8 DEF Inv

LEMMA WriteJournalKeeps ==
    ASSUME Inv, NEW p \in Proc, WriteJournal(p)
    PROVE  Inv'
<1>0. PICK t \in Txn : t = task[p].txn
  BY Known DEF Inv
<1>1. /\ FilesInv /\ CallInv /\ At(p, "journal") /\ ~At(p, "idle")
      /\ journal' = [journal EXCEPT ![t] = "whole"] /\ Goto(p, "backups")
      /\ UNCHANGED <<target, plan, backup, staged, last, lock, owed, outsider>>
      /\ task[p].at \in 1..(Count + 1) /\ task[p].at <= Count
      /\ plan[t] # NoPlan /\ Unstaged(t) /\ \A u \in Txn : u > t => plan[u] = NoPlan
      /\ lock = p /\ \A q \in Proc \ {p} : At(q, "idle")
  BY <1>0, Known DEF WriteJournal, Inv, World, PcInv, At, InstallPc
<1>2. FilesInv'
  <2>1. TxnInv(t)'
    BY <1>1 DEF FilesInv, TxnInv, Unstaged, Before, After
  <2>2. \A u \in Txn : TxnInv(u)'
    BY <1>1, <2>1, OneTxn DEF FilesInv
  <2>3. QED
    BY <1>1, <2>2 DEF FilesInv, ForeignBytesKept
<1>3. CallInv'
  <2>1. "backups" \in Pc
    BY DEF Pc, InstallPc
  <2>2. PICK k \in Task : /\ task' = [task EXCEPT ![p] = k] /\ k.pc = "backups"
                          /\ k.txn = t /\ k.at = task[p].at
    BY <1>0, <1>1, <2>1, Goes
  <2>3. k.at = 1
    BY <1>1, <2>2, Known DEF PcInv, At
  <2>4. PcInv(k)'
    BY <1>1, <2>2, <2>3 DEF PcInv, FilesInv, Unstaged
  <2>5. QED
    BY <1>1, <2>2, <2>4, GoesOn DEF CallInv
<1>4. QED
  BY <1>2, <1>3 DEF Inv

LEMMA WriteBackupKeeps ==
    ASSUME Inv, NEW p \in Proc, WriteBackup(p)
    PROVE  Inv'
<1>1. PICK t \in Txn, c \in Component : t = task[p].txn /\ c = task[p].at
  BY Known, Numbers DEF Inv, WriteBackup, PcInv, At, Component
<1>2. /\ FilesInv /\ CallInv /\ At(p, "backups") /\ ~At(p, "idle")
      /\ backup' = [backup EXCEPT ![t][c] = Before(t, c)] /\ Advance(p, "stage")
      /\ UNCHANGED <<target, plan, journal, staged, last, lock, owed, outsider>>
      /\ plan[t] # NoPlan /\ Unstaged(t) /\ \A u \in Txn : u > t => plan[u] = NoPlan
      /\ journal[t] = "whole" /\ \A d \in 1..(c - 1) : backup[t][d] = Before(t, d)
      /\ lock = p /\ \A q \in Proc \ {p} : At(q, "idle")
  BY <1>1, Known DEF WriteBackup, Inv, World, PcInv, At, InstallPc
<1>3. /\ backup' \in [Txn -> [Component -> File]] /\ backup'[t][c] = Before(t, c)
      /\ \A d \in Component \ {c} : backup'[t][d] = backup[t][d]
      /\ \A u \in Txn \ {t} : backup'[u] = backup[u]
  BY <1>2, Planned DEF FilesInv, File, Bytes
<1>4. FilesInv'
  <2>1. TxnInv(t)'
    BY <1>2, <1>3 DEF FilesInv, TxnInv, Unstaged, Before, After
  <2>2. \A u \in Txn : TxnInv(u)'
    BY <1>2, <1>3, <2>1, OneTxn
  <2>3. QED
    BY <1>2, <1>3, <2>2 DEF FilesInv, ForeignBytesKept
<1>5. CallInv'
  <2>1. PICK k \in Task : /\ task' = [task EXCEPT ![p] = k] /\ k.txn = t
                          /\ \/ c < Count /\ k.at = c + 1 /\ k.pc = "backups"
                             \/ c = Count /\ k.at = 1 /\ k.pc = "stage"
    <3>1. "stage" \in Pc /\ task[p].at <= Count
      BY <1>1, Numbers DEF Pc, InstallPc
    <3>2. QED
      BY <1>1, <1>2, <3>1, Advances DEF At
  <2>2. \A d \in 1..c : backup'[t][d] = Before(t, d)
    BY <1>2, <1>3, Numbers DEF Component
  <2>3. CASE c < Count /\ k.at = c + 1 /\ k.pc = "backups"
    <3>1. PcInv(k)'
      BY <1>2, <2>1, <2>2, <2>3, Numbers DEF PcInv, FilesInv, Unstaged, Before
    <3>2. QED
      BY <1>2, <2>1, <3>1, GoesOn DEF CallInv
  <2>4. CASE c = Count /\ k.at = 1 /\ k.pc = "stage"
    <3>1. BackedUp(t)'
      BY <1>2, <2>2, <2>4 DEF BackedUp, Before, Component
    <3>2. PcInv(k)'
      BY <1>2, <2>1, <2>4, <3>1, Numbers DEF PcInv, FilesInv, Unstaged, Component
    <3>3. QED
      BY <1>2, <2>1, <3>2, GoesOn DEF CallInv
  <2>5. QED
    BY <2>1, <2>3, <2>4
<1>6. QED
  BY <1>4, <1>5 DEF Inv

\* A staged file is written, or begun, where there was none.
LEMMA WritingStaged ==
    ASSUME FilesInv, NEW t \in Txn, NEW c \in Component, plan[t] # NoPlan, BackedUp(t),
           staged[t][c] = Missing,
           staged' = [staged EXCEPT ![t][c] = After(t, c)]
               \/ staged' = [staged EXCEPT ![t][c] = Torn],
           UNCHANGED <<target, plan, journal, backup, last, owed, outsider>>
    PROVE  FilesInv'
<1>1. PICK x \in File : x \in {After(t, c), Torn} /\ staged' = [staged EXCEPT ![t][c] = x]
  BY Planned DEF File, Bytes
<1>2. /\ staged' \in [Txn -> [Component -> File]] /\ staged'[t][c] = x
      /\ \A d \in Component \ {c} : staged'[t][d] = staged[t][d]
      /\ \A u \in Txn \ {t} : staged'[u] = staged[u]
  BY <1>1 DEF FilesInv
<1>3. TxnInv(t)'
  BY <1>1, <1>2 DEF FilesInv, TxnInv, BackedUp, Before, After
<1>4. \A u \in Txn : TxnInv(u)'
  BY <1>2, <1>3, OneTxn
<1>5. ForeignBytesKept => ForeignBytesKept'
  BY <1>2, ExtraAssumption DEF FilesInv, ForeignBytesKept
<1>6. QED
  BY <1>2, <1>4, <1>5 DEF FilesInv

LEMMA WriteStagedKeeps ==
    ASSUME Inv, NEW p \in Proc, WriteStaged(p)
    PROVE  Inv'
<1>1. PICK t \in Txn, c \in Component : t = task[p].txn /\ c = task[p].at
  BY Known, Numbers DEF Inv, WriteStaged, PcInv, At, Component
<1>2. /\ FilesInv /\ CallInv /\ At(p, "stage") /\ ~At(p, "idle")
      /\ staged' = [staged EXCEPT ![t][c] = After(t, c)] /\ Advance(p, "check")
      /\ UNCHANGED <<target, plan, journal, backup, last, lock, owed, outsider>>
      /\ plan[t] # NoPlan /\ BackedUp(t) /\ \A u \in Txn : u > t => plan[u] = NoPlan
      /\ \A d \in 1..(c - 1) : staged[t][d] = After(t, d)
      /\ \A d \in c..Count : staged[t][d] = Missing
      /\ lock = p /\ \A q \in Proc \ {p} : At(q, "idle")
  BY <1>1, Known DEF WriteStaged, Inv, World, PcInv, At, InstallPc
<1>3. /\ c \in c..Count /\ staged[t][c] = Missing /\ staged'[t][c] = After(t, c)
      /\ \A d \in Component \ {c} : staged'[t][d] = staged[t][d]
  BY <1>2, Numbers DEF FilesInv
<1>4. FilesInv'
  BY <1>2, <1>3, WritingStaged
<1>5. CallInv'
  <2>1. PICK k \in Task : /\ task' = [task EXCEPT ![p] = k] /\ k.txn = t
                          /\ \/ c < Count /\ k.at = c + 1 /\ k.pc = "stage"
                             \/ c = Count /\ k.at = 1 /\ k.pc = "check"
    <3>1. "check" \in Pc /\ task[p].at <= Count
      BY <1>1, Numbers DEF Pc, InstallPc
    <3>2. QED
      BY <1>1, <1>2, <3>1, Advances DEF At
  <2>2. /\ \A d \in 1..c : staged'[t][d] = After(t, d)
        /\ \A d \in (c + 1)..Count : staged'[t][d] = Missing
    BY <1>2, <1>3, Numbers DEF Component
  <2>3. CASE c < Count /\ k.at = c + 1 /\ k.pc = "stage"
    <3>1. BackedUp(t)'
      BY <1>2 DEF BackedUp, Before
    <3>2. PcInv(k)'
      BY <1>2, <2>1, <2>2, <2>3, <3>1, Numbers DEF PcInv, After
    <3>3. QED
      BY <1>2, <2>1, <3>2, GoesOn DEF CallInv
  <2>4. CASE c = Count /\ k.at = 1 /\ k.pc = "check"
    <3>1. \A d \in 1..Count : staged'[t][d] = After(t, d)
      BY <2>2, <2>4
    <3>2. PcInv(k)'
      BY <1>2, <2>1, <2>4, <3>1, Numbers DEF PcInv, After
    <3>3. QED
      BY <1>2, <2>1, <3>2, GoesOn DEF CallInv
  <2>5. QED
    BY <2>1, <2>3, <2>4
<1>6. QED
  BY <1>4, <1>5 DEF Inv

LEMMA CheckKeeps ==
    ASSUME Inv, NEW p \in Proc, Check(p)
    PROVE  Inv'
<1>1. PICK t \in Txn : t = task[p].txn
  BY Known DEF Inv
<1>2. /\ FilesInv /\ CallInv /\ At(p, "check") /\ ~At(p, "idle") /\ FilesInv'
      /\ UNCHANGED <<Files, World>> /\ plan[t] # NoPlan
      /\ lock = p /\ \A q \in Proc \ {p} : At(q, "idle")
  BY <1>1, Known, FilesStay DEF Check, Inv, PcInv, At
<1>3. CASE Return(p)
  BY <1>2, <1>3, Ends DEF Inv
<1>4. CASE ~Return(p)
  <2>1. PICK c \in Component : c = task[p].at
    BY <1>4, Known, Numbers DEF Check, Inv, Component
  <2>2. /\ Goto(p, "exchange") /\ lock' = lock
        /\ staged[t][c] = After(t, c) /\ target[c] = Before(t, c)
    <3>1. c \in c..Count
      BY Numbers
    <3>2. QED
      BY <1>1, <1>4, <2>1, <3>1 DEF Check
  <2>3. "exchange" \in Pc
    BY DEF Pc, InstallPc
  <2>4. PICK k \in Task : /\ task' = [task EXCEPT ![p] = k] /\ k.pc = "exchange"
                          /\ k.txn = t /\ k.at = c
    BY <1>1, <1>2, <2>1, <2>2, <2>3, Goes
  <2>5. /\ \A d \in 1..(c - 1) : staged[t][d] = Before(t, d)
        /\ \A d \in (c + 1)..Count : staged[t][d] = After(t, d)
        /\ \A u \in Txn : u > t => plan[u] = NoPlan
    BY <1>1, <1>2, <2>1, Known DEF PcInv, At, InstallPc
  <2>6. PcInv(k)'
    BY <1>2, <2>2, <2>4, <2>5, Numbers
       DEF PcInv, Unswapped, Files, World, Before, After
  <2>7. QED
    BY <1>2, <2>2, <2>4, <2>6, GoesOn DEF Inv, CallInv
<1>5. QED
  BY <1>3, <1>4

(***************************************************************************)
(* The exchanges                                                           *)
(***************************************************************************)
\* Two names change places, and no byte is lost.
LEMMA SwapKeeps ==
    ASSUME FilesInv, NEW t \in Txn, NEW c \in Component, plan[t] # NoPlan,
           SwapNames(t, c), target[c] \in {Before(t, c), After(t, c), Missing} \cup Foreign,
           UNCHANGED <<plan, journal, backup, owed, outsider>>, last' \in Txn \cup {0}
    PROVE  /\ FilesInv'
           /\ target'[c] = staged[t][c] /\ staged'[t][c] = target[c]
           /\ {target[c], staged[t][c]} \cap {Missing, Torn} = {}
           /\ \A d \in Component \ {c} :
                  target'[d] = target[d] /\ \A u \in Txn : staged'[u][d] = staged[u][d]
           /\ \A u \in Txn \ {t} : staged'[u] = staged[u]
<1>1. /\ target' = [target EXCEPT ![c] = staged[t][c]]
      /\ staged' = [staged EXCEPT ![t][c] = target[c]]
      /\ {target[c], staged[t][c]} \cap {Missing, Torn} = {}
  BY DEF SwapNames
<1>2. target[c] \in File /\ staged[t][c] \in Bytes
  BY <1>1 DEF FilesInv, File
<1>3. /\ target' \in [Component -> Bytes \cup {Missing}]
      /\ staged' \in [Txn -> [Component -> File]]
      /\ target'[c] = staged[t][c] /\ staged'[t][c] = target[c]
      /\ \A u \in Txn \ {t} : staged'[u] = staged[u]
      /\ \A d \in Component \ {c} :
                  target'[d] = target[d] /\ \A u \in Txn : staged'[u][d] = staged[u][d]
  BY <1>1, <1>2 DEF FilesInv
<1>4. BackedUp(t)
  BY <1>1 DEF FilesInv, TxnInv, Unstaged
<1>5. \A u \in Txn : TxnInv(u)'
  <2>1. TxnInv(t)'
    BY <1>1, <1>3, <1>4 DEF FilesInv, TxnInv, BackedUp, Before, After
  <2>2. QED
    BY <1>3, <2>1, OneTxn
<1>6. ForeignBytesKept => ForeignBytesKept'
  <2> SUFFICES ASSUME ForeignBytesKept, NEW f \in owed
               PROVE  \E d \in Component : target'[d] = f \/ \E u \in Txn : staged'[u][d] = f
    BY DEF ForeignBytesKept
  <2>1. PICK d \in Component : target[d] = f \/ \E u \in Txn : staged[u][d] = f
    BY DEF ForeignBytesKept
  <2>2. CASE d # c
    BY <1>3, <2>1, <2>2
  <2>3. CASE d = c
    BY <1>3, <2>1, <2>3
  <2>4. QED
    BY <2>2, <2>3
<1>7. QED
  BY <1>1, <1>3, <1>5, <1>6 DEF FilesInv

LEMMA ExchangeKeeps ==
    ASSUME Inv, NEW p \in Proc, Exchange(p)
    PROVE  Inv'
<1>1. PICK t \in Txn, c \in Component : t = task[p].txn /\ c = task[p].at
  BY Known, Numbers DEF Inv, Exchange, PcInv, Component
<1>2. /\ FilesInv /\ CallInv /\ task[p].pc \in {"exchange", "undoExchange"} /\ ~At(p, "idle")
      /\ SwapNames(t, c) /\ last' \in Txn \cup {0}
      /\ Goto(p, IF At(p, "exchange") THEN "verify" ELSE "undoVerify")
      /\ UNCHANGED <<plan, journal, backup, lock, owed, outsider>>
      /\ plan[t] # NoPlan /\ PcInv(task[p])
      /\ lock = p /\ \A q \in Proc \ {p} : At(q, "idle")
  BY <1>1, Known DEF Exchange, Inv, FilesInv, World, PcInv, At
<1>3. /\ target[c] \in {Before(t, c), After(t, c), Missing} \cup Foreign
      /\ At(p, "exchange") => /\ Unswapped(t, c, Before(t, c), After(t, c))
                              /\ \A d \in 1..(c - 1) : staged[t][d] = Before(t, d)
                              /\ \A d \in (c + 1)..Count : staged[t][d] = After(t, d)
                              /\ \A u \in Txn : u > t => plan[u] = NoPlan
      /\ ~At(p, "exchange") => Unswapped(t, c, After(t, c), Before(t, c))
  BY <1>1, <1>2 DEF PcInv, Unswapped, At, InstallPc
<1>4. /\ FilesInv'
      /\ target'[c] = staged[t][c] /\ staged'[t][c] = target[c]
      /\ {target[c], staged[t][c]} \cap {Missing, Torn} = {}
      /\ \A d \in Component \ {c} : staged'[t][d] = staged[t][d]
  BY <1>2, <1>3, SwapKeeps
<1>5. CASE At(p, "exchange")
  <2>1. "verify" \in Pc
    BY DEF Pc, InstallPc
  <2>2. PICK k \in Task : /\ task' = [task EXCEPT ![p] = k] /\ k.pc = "verify"
                          /\ k.txn = t /\ k.at = c
    BY <1>1, <1>2, <1>5, <2>1, Goes
  <2>3. Exchanged(t, c, Before(t, c), After(t, c))'
    BY <1>2, <1>3, <1>4, <1>5 DEF Unswapped, Exchanged, Before, After
  <2>4. PcInv(k)'
    BY <1>2, <1>3, <1>4, <1>5, <2>2, <2>3, Numbers DEF PcInv, Before, After, Component
  <2>5. QED
    BY <1>2, <1>4, <2>2, <2>4, GoesOn DEF Inv, CallInv
<1>6. CASE ~At(p, "exchange")
  <2>1. "undoVerify" \in Pc
    BY DEF Pc, RollbackPc
  <2>2. PICK k \in Task : /\ task' = [task EXCEPT ![p] = k] /\ k.pc = "undoVerify"
                          /\ k.txn = t /\ k.at = c
    BY <1>1, <1>2, <1>6, <2>1, Goes
  <2>3. Exchanged(t, c, After(t, c), Before(t, c))'
    BY <1>2, <1>3, <1>4, <1>6 DEF Unswapped, Exchanged, Before, After
  <2>4. PcInv(k)'
    BY <1>2, <1>3, <1>4, <1>6, <2>2, <2>3, Numbers DEF PcInv, InstallPc
  <2>5. QED
    BY <1>2, <1>4, <2>2, <2>4, GoesOn DEF Inv, CallInv
<1>7. QED
  BY <1>5, <1>6

LEMMA VerifyKeeps ==
    ASSUME Inv, NEW p \in Proc, Verify(p)
    PROVE  Inv'
<1>1. PICK t \in Txn, c \in Component : t = task[p].txn /\ c = task[p].at
  BY Known, Numbers DEF Inv, Verify, PcInv, Component
<1>2. /\ FilesInv /\ CallInv /\ task[p].pc \in {"verify", "undoVerify"} /\ ~At(p, "idle")
      /\ FilesInv' /\ UNCHANGED <<Files, World>> /\ task[p].at <= Count
      /\ plan[t] # NoPlan /\ PcInv(task[p]) /\ c \in 1..Count
      /\ lock = p /\ \A q \in Proc \ {p} : At(q, "idle")
  BY <1>1, Known, FilesStay DEF Verify, Inv, PcInv, At, Component
<1>3. CASE Return(p)
  BY <1>2, <1>3, Ends DEF Inv
<1>4. CASE At(p, "verify") /\ ~Return(p)
  <2>1. /\ \A d \in 1..(c - 1) : staged[t][d] = Before(t, d)
        /\ \A d \in (c + 1)..Count : staged[t][d] = After(t, d)
        /\ \A u \in Txn : u > t => plan[u] = NoPlan
        /\ Exchanged(t, c, Before(t, c), After(t, c))
    BY <1>1, <1>2, <1>4 DEF PcInv, At, InstallPc
  <2>2. CASE staged[t][c] = Before(t, c)
    <3>1. GotoNext(p, "check") /\ lock' = lock /\ "check" \in Pc
      BY <1>1, <1>4, <2>2 DEF Verify, At, Pc, InstallPc
    <3>2. PICK k \in Task : /\ task' = [task EXCEPT ![p] = k] /\ k.pc = "check"
                            /\ k.txn = t /\ k.at = c + 1
      BY <1>1, <1>2, <3>1, GoesNext
    <3>3. PcInv(k)'
      BY <1>2, <2>1, <2>2, <3>2, Numbers DEF PcInv, Files, World, Before, After
    <3>4. QED
      BY <1>2, <3>1, <3>2, <3>3, GoesOn DEF Inv, CallInv
  <2>3. CASE staged[t][c] # Before(t, c)
    <3>1. Goto(p, "reverse") /\ lock' = lock /\ "reverse" \in Pc
      BY <1>1, <1>4, <2>3 DEF Verify, At, Pc, InstallPc
    <3>2. PICK k \in Task : /\ task' = [task EXCEPT ![p] = k] /\ k.pc = "reverse"
                            /\ k.txn = t /\ k.at = c
      BY <1>1, <1>2, <3>1, Goes
    <3>3. PcInv(k)'
      BY <1>2, <2>1, <2>3, <3>2, Numbers DEF PcInv, Exchanged, Files, World, Before, After
    <3>4. QED
      BY <1>2, <3>1, <3>2, <3>3, GoesOn DEF Inv, CallInv
  <2>4. QED
    BY <2>2, <2>3
<1>5. CASE ~At(p, "verify") /\ ~Return(p)
  <2>1. Exchanged(t, c, After(t, c), Before(t, c))
    BY <1>1, <1>2, <1>5 DEF PcInv, At
  <2>2. CASE staged[t][c] = After(t, c)
    <3>1. GotoNext(p, "undo") /\ lock' = lock /\ "undo" \in Pc
      BY <1>1, <1>5, <2>2 DEF Verify, At, Pc, RollbackPc
    <3>2. PICK k \in Task : /\ task' = [task EXCEPT ![p] = k] /\ k.pc = "undo"
                            /\ k.txn = t /\ k.at = c + 1
      BY <1>1, <1>2, <3>1, GoesNext
    <3>3. PcInv(k)'
      BY <1>2, <3>2 DEF PcInv, InstallPc, Files
    <3>4. QED
      BY <1>2, <3>1, <3>2, <3>3, GoesOn DEF Inv, CallInv
  <2>3. CASE staged[t][c] # After(t, c)
    <3>1. Goto(p, "undoReverse") /\ lock' = lock /\ "undoReverse" \in Pc
      BY <1>1, <1>5, <2>3 DEF Verify, At, Pc, RollbackPc
    <3>2. PICK k \in Task : /\ task' = [task EXCEPT ![p] = k] /\ k.pc = "undoReverse"
                            /\ k.txn = t /\ k.at = c
      BY <1>1, <1>2, <3>1, Goes
    <3>3. PcInv(k)'
      BY <1>2, <2>1, <2>3, <3>2, Numbers
         DEF PcInv, InstallPc, Exchanged, Files, World, Before, After
    <3>4. QED
      BY <1>2, <3>1, <3>2, <3>3, GoesOn DEF Inv, CallInv
  <2>4. QED
    BY <2>2, <2>3
<1>6. QED
  BY <1>3, <1>4, <1>5

LEMMA ReverseKeeps ==
    ASSUME Inv, NEW p \in Proc, Reverse(p)
    PROVE  Inv'
<1>1. PICK t \in Txn, c \in Component : t = task[p].txn /\ c = task[p].at
  BY Known, Numbers DEF Inv, Reverse, PcInv, Component
<1>2. /\ FilesInv /\ CallInv /\ task[p].pc \in {"reverse", "undoReverse"} /\ ~At(p, "idle")
      /\ SwapNames(t, c) /\ last' \in Txn \cup {0} /\ Return(p)
      /\ UNCHANGED <<plan, journal, backup, owed, outsider>>
      /\ plan[t] # NoPlan /\ PcInv(task[p])
  BY <1>1, Known DEF Reverse, Inv, FilesInv, World, PcInv, At
<1>3. target[c] \in {Before(t, c), After(t, c), Missing} \cup Foreign
  BY <1>1, <1>2 DEF PcInv, Exchanged
<1>4. FilesInv'
  BY <1>2, <1>3, SwapKeeps
<1>5. QED
  BY <1>2, <1>4, Ends DEF Inv

(***************************************************************************)
(* A roll-back                                                             *)
(***************************************************************************)
LEMMA StartRollbackKeeps ==
    ASSUME Inv, NEW p \in Proc, NEW t \in Txn, StartRollback(p, t)
    PROVE  Inv'
<1>1. /\ FilesInv /\ CallInv /\ At(p, "idle") /\ lock = Free /\ lock' = p
      /\ journal[t] = "whole" /\ FilesInv' /\ UNCHANGED <<Files, World>>
      /\ task' = [task EXCEPT ![p].pc = "undo", ![p].txn = t, ![p].found = target]
  BY FilesStay DEF StartRollback, Inv, TakeLock, ValidJournal
<1>2. plan[t] # NoPlan
  BY <1>1 DEF FilesInv, TxnInv
<1> DEFINE k == [task[p] EXCEPT !.pc = "undo", !.txn = t, !.found = target]
<1>3. k \in Task /\ k.pc = "undo" /\ k.txn = t /\ task' = [task EXCEPT ![p] = k]
  <2>1. task[p] \in Task /\ target \in [Component -> Bytes \cup {Missing}]
    BY <1>1, Known DEF FilesInv
  <2>2. k \in Task /\ k.pc = "undo" /\ k.txn = t
    BY <2>1 DEF Task, RollbackPc
  <2>3. QED
    BY <1>1, <2>2
<1> HIDE DEF k
<1>4. PICK j \in Task : j = k
  BY <1>3
<1>5. PcInv(j)'
  BY <1>1, <1>2, <1>3, <1>4 DEF PcInv, InstallPc, Files
<1>6. \A q \in Proc : At(q, "idle")
  BY <1>1, ExtraAssumption DEF CallInv, OneCall
<1>7. QED
  BY <1>1, <1>3, <1>4, <1>5, <1>6, GoesOn DEF Inv

\* A component is looked at, and the roll-back goes on, or exchanges, or stops.
LEMMA UndoComponentGoes ==
    ASSUME Inv, NEW p \in Proc, UndoComponent(p)
    PROVE  \/ Return(p)
           \/ /\ lock' = lock
              /\ \E k \in Task :
                    /\ task' = [task EXCEPT ![p] = k]
                    /\ k.txn = task[p].txn /\ k.found = task[p].found
                    /\ \/ k.pc = "undo" /\ k.at = task[p].at + 1
                       \/ /\ k.pc = "undoExchange" /\ k.at = task[p].at
                          /\ target[k.at] = After(k.txn, k.at)
                          /\ staged[k.txn][k.at] = Before(k.txn, k.at)
                       \/ /\ k.pc = "undoRename" /\ k.at = task[p].at
                          /\ task[p].found[k.at] = Missing
                          /\ target[k.at] = Missing
                          /\ staged[k.txn][k.at] = Before(k.txn, k.at)
<1>1. /\ CallInv /\ At(p, "undo") /\ task[p].at <= Count
      /\ "undo" \in Pc /\ "undoExchange" \in Pc /\ "undoRename" \in Pc
  BY DEF Inv, UndoComponent, Pc, RollbackPc
<1> DEFINE t == task[p].txn
           c == task[p].at
           found == task[p].found[c]
           ready == target[c] = found /\ staged[t][c] = Before(t, c)
<1>2. CASE GotoNext(p, "undo") /\ UNCHANGED lock
  BY <1>1, <1>2, GoesNext
<1>3. CASE found = After(t, c) /\ ready /\ Goto(p, "undoExchange") /\ UNCHANGED lock
  <2>1. PICK k \in Task : /\ task' = [task EXCEPT ![p] = k] /\ k.pc = "undoExchange"
                          /\ k.txn = t /\ k.at = c /\ k.found = task[p].found
    BY <1>1, <1>3, Goes
  <2>2. QED
    BY <1>3, <2>1
<1>4. CASE found = Missing /\ ready /\ Goto(p, "undoRename") /\ UNCHANGED lock
  <2>1. PICK k \in Task : /\ task' = [task EXCEPT ![p] = k] /\ k.pc = "undoRename"
                          /\ k.txn = t /\ k.at = c /\ k.found = task[p].found
    BY <1>1, <1>4, Goes
  <2>2. QED
    BY <1>4, <2>1
<1>5. QED
  BY <1>2, <1>3, <1>4 DEF UndoComponent

LEMMA UndoComponentKeeps ==
    ASSUME Inv, NEW p \in Proc, UndoComponent(p)
    PROVE  Inv'
<1>1. /\ FilesInv /\ CallInv /\ At(p, "undo") /\ ~At(p, "idle") /\ FilesInv'
      /\ UNCHANGED <<Files, World>> /\ task[p].at <= Count
      /\ plan[task[p].txn] # NoPlan /\ task[p].txn \in Txn /\ task[p].at \in 1..(Count + 1)
      /\ lock = p /\ \A q \in Proc \ {p} : At(q, "idle")
  BY Known, FilesStay DEF UndoComponent, Inv, PcInv, At
<1>2. CASE Return(p)
  BY <1>1, <1>2, Ends DEF Inv
<1>3. CASE ~Return(p)
  <2>1. PICK k \in Task :
            /\ lock' = lock /\ task' = [task EXCEPT ![p] = k] /\ k.txn = task[p].txn
            /\ \/ k.pc = "undo" /\ k.at = task[p].at + 1
               \/ /\ k.pc = "undoExchange" /\ k.at = task[p].at
                  /\ target[k.at] = After(k.txn, k.at)
                  /\ staged[k.txn][k.at] = Before(k.txn, k.at)
               \/ /\ k.pc = "undoRename" /\ k.at = task[p].at
                  /\ target[k.at] = Missing
                  /\ staged[k.txn][k.at] = Before(k.txn, k.at)
    BY <1>3, UndoComponentGoes
  <2>2. PcInv(k)'
    BY <1>1, <2>1 DEF PcInv, InstallPc, Unswapped, Files, Before, After
  <2>3. QED
    BY <1>1, <2>1, <2>2, GoesOn DEF Inv, CallInv
<1>4. QED
  BY <1>2, <1>3

LEMMA UndoRenameKeeps ==
    ASSUME Inv, NEW p \in Proc, UndoRename(p)
    PROVE  Inv'
<1>1. PICK t \in Txn, c \in Component : t = task[p].txn /\ c = task[p].at
  BY Known, Numbers DEF Inv, UndoRename, PcInv, At, Component
<1>2. /\ FilesInv /\ CallInv /\ At(p, "undoRename") /\ ~At(p, "idle")
      /\ target' = [target EXCEPT ![c] = staged[t][c]]
      /\ staged' = [staged EXCEPT ![t][c] = Missing] /\ last' = t
      /\ GotoNext(p, "undo")
      /\ UNCHANGED <<plan, journal, backup, lock, owed, outsider>>
      /\ plan[t] # NoPlan /\ task[p].at <= Count /\ task[p].at \in 1..(Count + 1)
      /\ staged[t][c] = Before(t, c) /\ (OutsiderCreates \/ target[c] = Missing)
      /\ lock = p /\ \A q \in Proc \ {p} : At(q, "idle")
  BY <1>1, Known DEF UndoRename, Inv, World, PcInv, At, Component
<1>3. Before(t, c) \in Bytes /\ Before(t, c) # Missing
  BY <1>2, Planned
<1>4. /\ target' \in [Component -> Bytes \cup {Missing}] /\ target'[c] = staged[t][c]
      /\ staged' \in [Txn -> [Component -> File]] /\ staged'[t][c] = Missing
      /\ \A d \in Component \ {c} :
             target'[d] = target[d] /\ \A u \in Txn : staged'[u][d] = staged[u][d]
      /\ \A u \in Txn \ {t} : staged'[u] = staged[u]
  BY <1>2, <1>3 DEF FilesInv, File
<1>5. FilesInv'
  <2>1. BackedUp(t)
    BY <1>2, <1>3 DEF FilesInv, TxnInv, Unstaged
  <2>2. TxnInv(t)'
    BY <1>2, <1>4, <2>1 DEF FilesInv, TxnInv, BackedUp, Before, After
  <2>3. \A u \in Txn : TxnInv(u)'
    BY <1>2, <1>4, <2>2, OneTxn
  <2>4. OutsiderCreates \/ ForeignBytesKept'
    <3> SUFFICES ASSUME ~OutsiderCreates, NEW f \in owed
                 PROVE  \E d \in Component : target'[d] = f \/ \E u \in Txn : staged'[u][d] = f
      BY <1>2 DEF ForeignBytesKept
    <3>1. f # Missing
      BY ExtraAssumption DEF FilesInv, Inv
    <3>2. PICK d \in Component : target[d] = f \/ \E u \in Txn : staged[u][d] = f
      BY <1>2 DEF FilesInv, ForeignBytesKept
    <3>3. CASE d # c
      BY <1>4, <3>2, <3>3
    <3>4. CASE d = c
      BY <1>2, <1>4, <3>1, <3>2, <3>4
    <3>5. QED
      BY <3>3, <3>4
  <2>5. QED
    BY <1>2, <1>4, <2>3, <2>4 DEF FilesInv
<1>6. CallInv'
  <2>1. "undo" \in Pc
    BY DEF Pc, RollbackPc
  <2>2. PICK k \in Task : task' = [task EXCEPT ![p] = k] /\ k.pc = "undo" /\ k.txn = t
    BY <1>1, <1>2, <2>1, GoesNext
  <2>3. PcInv(k)'
    BY <1>2, <2>2 DEF PcInv, InstallPc
  <2>4. QED
    BY <1>2, <2>2, <2>3, GoesOn DEF CallInv
<1>7. QED
  BY <1>5, <1>6 DEF Inv

(***************************************************************************)
(* Stops, and other programs                                               *)
(***************************************************************************)
LEMMA StopKeeps ==
    ASSUME Inv, NEW p \in Proc, Stop(p)
    PROVE  Inv'
<1>1. PICK t \in Txn : t = task[p].txn
  BY Known DEF Inv
<1>2. /\ FilesInv /\ CallInv /\ ~At(p, "idle") /\ Return(p) /\ PcInv(task[p])
      /\ UNCHANGED <<target, plan, last, owed, outsider>>
      /\ plan[t] # NoPlan /\ task[p].at \in 1..(Count + 1)
  BY <1>1, Known DEF Stop, Inv, World, PcInv, At
<1>3. ASSUME UNCHANGED <<journal, backup, staged>> PROVE FilesInv'
  BY <1>2, <1>3, FilesStay DEF Files, World
<1>4. ASSUME At(p, "journal"), journal' = [journal EXCEPT ![t] = "torn"],
             UNCHANGED <<backup, staged>>
      PROVE  FilesInv'
  <2>1. Unstaged(t)
    BY <1>1, <1>2, <1>4 DEF PcInv, At
  <2>2. TxnInv(t)'
    BY <1>2, <1>4, <2>1 DEF FilesInv, TxnInv, Unstaged, Before, After
  <2>3. \A u \in Txn : TxnInv(u)'
    BY <1>2, <1>4, <2>2, OneTxn DEF FilesInv
  <2>4. QED
    BY <1>2, <1>4, <2>3 DEF FilesInv, ForeignBytesKept
<1>5. ASSUME At(p, "backups"), ~UNCHANGED <<journal, backup, staged>> PROVE FilesInv'
  <2>1. PICK c \in Component : c = task[p].at
    BY <1>2, <1>5, Numbers DEF PcInv, At, Component
  <2>2. /\ backup' = [backup EXCEPT ![t][c] = Torn] /\ UNCHANGED <<journal, staged>>
        /\ Unstaged(t)
    BY <1>1, <1>2, <1>5, <2>1 DEF Stop, At, PcInv
  <2>3. /\ backup' \in [Txn -> [Component -> File]]
        /\ \A u \in Txn \ {t} : backup'[u] = backup[u]
    BY <1>2, <2>2 DEF FilesInv, File
  <2>4. TxnInv(t)'
    BY <1>2, <2>2, <2>3 DEF FilesInv, TxnInv, Unstaged, Before, After
  <2>5. \A u \in Txn : TxnInv(u)'
    BY <1>2, <2>2, <2>3, <2>4, OneTxn
  <2>6. QED
    BY <1>2, <2>2, <2>3, <2>5 DEF FilesInv, ForeignBytesKept
<1>6. ASSUME At(p, "stage"), ~UNCHANGED <<journal, backup, staged>> PROVE FilesInv'
  <2>1. PICK c \in Component : c = task[p].at
    BY <1>2, <1>6, Numbers DEF PcInv, At, Component
  <2>2. /\ staged' = [staged EXCEPT ![t][c] = Torn] /\ UNCHANGED <<journal, backup>>
        /\ BackedUp(t) /\ \A d \in c..Count : staged[t][d] = Missing
    BY <1>1, <1>2, <1>6, <2>1 DEF Stop, At, PcInv
  <2>3. staged[t][c] = Missing
    BY <2>2, Numbers
  <2>4. QED
    BY <1>2, <2>2, <2>3, WritingStaged
<1>7. FilesInv'
  <2>1. CASE UNCHANGED <<journal, backup, staged>>
    BY <1>3, <2>1
  <2>2. CASE ~UNCHANGED <<journal, backup, staged>>
    BY <1>1, <1>4, <1>5, <1>6, <2>2 DEF Stop
  <2>3. QED
    BY <2>1, <2>2
<1>8. QED
  BY <1>2, <1>7, Ends DEF Inv

\* Other programs change a component that is not missing, and leave all else.
LEMMA OutsideKeeps ==
    ASSUME Inv, NEW c \in Component, NEW x \in Foreign \cup {Missing},
           target[c] # Missing \/ OutsiderCreates,
           target' = [target EXCEPT ![c] = x],
           owed' = (owed \ {target[c]}) \cup ({x} \ {Missing}), UNCHANGED Outside
    PROVE  Inv'
<1>1. /\ FilesInv /\ CallInv
      /\ UNCHANGED <<plan, journal, backup, staged, lock, task, outsider, last>>
  BY DEF Inv, Outside
<1>2. /\ target' \in [Component -> Bytes \cup {Missing}] /\ target'[c] = x
      /\ \A d \in Component \ {c} : target'[d] = target[d]
      /\ owed' \subseteq Foreign
  BY <1>1 DEF FilesInv, Bytes
<1>3. FilesInv'
  <2>1. \A t \in Txn : TxnInv(t)'
    BY <1>1 DEF FilesInv, TxnInv, Unstaged, BackedUp, Before, After
  <2>2. ForeignBytesKept => ForeignBytesKept'
    <3> SUFFICES ASSUME ForeignBytesKept, NEW f \in owed'
                 PROVE  \E d \in Component : target'[d] = f \/ \E u \in Txn : staged[u][d] = f
      BY <1>1 DEF ForeignBytesKept
    <3>1. CASE f = x
      BY <1>2, <3>1
    <3>2. CASE f # x
      <4>1. f \in owed /\ f # target[c]
        BY <3>2
      <4>2. PICK d \in Component : target[d] = f \/ \E u \in Txn : staged[u][d] = f
        BY <4>1 DEF ForeignBytesKept
      <4>3. QED
        BY <1>2, <4>1, <4>2
    <3>3. QED
      BY <3>1, <3>2
  <2>3. QED
    BY <1>1, <1>2, <2>1, <2>2 DEF FilesInv
<1>4. ASSUME NEW q \in Proc PROVE PcInv(task[q])'
  <2>1. PICK k \in Task : k = task[q] /\ PcInv(k)
    BY <1>1, Known
  <2>2. k.at \in Component => target'[k.at] \in {target[k.at], Missing} \cup Foreign
    BY <1>2
  <2>3. OutsiderCreates \/ (k.at \in Component /\ target[k.at] = Missing => target'[k.at] = Missing)
    BY <1>2
  <2>4. k.at \in 1..(Count + 1)
    BY DEF Task
  <2>5. k.pc \notin {"idle", "check", "undo"} => k.at \in Component
    BY <2>1, <2>4, Numbers DEF PcInv, Component
  <2>6. /\ Unstaged(k.txn)' = Unstaged(k.txn) /\ BackedUp(k.txn)' = BackedUp(k.txn)
    BY <1>1 DEF Unstaged, BackedUp, Before
  <2>7. PcInv(k)'
    <3>1. CASE k.pc \in {"exchange", "undoExchange"}
      BY <1>1, <2>1, <2>2, <2>5, <2>6, <3>1 DEF PcInv, Unswapped, Before, After
    <3>2. CASE k.pc \in {"verify", "reverse", "undoVerify", "undoReverse"}
      BY <1>1, <2>1, <2>2, <2>5, <2>6, <3>2 DEF PcInv, Exchanged, Before, After
    <3>3. CASE k.pc = "undoRename"
      BY <1>1, <2>1, <2>3, <2>5, <2>6, <3>3 DEF PcInv, Before, After, InstallPc
    <3>4. CASE k.pc \notin {"exchange", "undoExchange", "verify", "reverse",
                           "undoVerify", "undoReverse", "undoRename"}
      BY <1>1, <2>1, <2>6, <3>4 DEF PcInv, Before, After
    <3>5. QED
      BY <3>1, <3>2, <3>3, <3>4
  <2>8. QED
    BY <1>1, <2>1, <2>7
<1>5. QED
  BY <1>1, <1>3, <1>4 DEF Inv, CallInv, OneCall, At

LEMMA InitInv == Init => Inv
<1> SUFFICES ASSUME Init PROVE Inv
  OBVIOUS
<1>1. FilesInv
  <2>1. /\ target \in [Component -> Bytes \cup {Missing}]
        /\ \A t \in Txn, c \in Component : staged[t][c] = Missing
        /\ backup \in [Txn -> [Component -> File]] /\ staged \in [Txn -> [Component -> File]]
    BY DEF Init, NoFiles, Bytes, File
  <2>2. \A t \in Txn : TxnInv(t)
    BY <2>1 DEF Init, TxnInv, Unstaged
  <2>3. QED
    BY <2>1, <2>2 DEF Init, FilesInv, ForeignBytesKept
<1>2. CallInv
  <2>1. \A p \in Proc : task[p] = Idle
    BY DEF Init
  <2>2. PICK k \in Task : k = Idle
    BY Resting
  <2>3. PcInv(k)
    BY <2>2, Resting DEF PcInv, InstallPc
  <2>4. QED
    BY <2>1, <2>2, <2>3, Resting DEF Init, CallInv, OneCall, At
<1>3. QED
  BY <1>1, <1>2 DEF Inv

\* Every step keeps the invariant.
LEMMA NextInv == ASSUME Inv, [Next]_vars PROVE Inv'
<1>1. ASSUME NEW p \in Proc, Install(p) PROVE Inv'
  BY <1>1, StartInstallKeeps, WriteJournalKeeps, WriteBackupKeeps, WriteStagedKeeps,
     CheckKeeps DEF Install
<1>2. ASSUME NEW p \in Proc, FinishRollback(p) PROVE Inv'
  BY <1>2, Ends, FilesStay DEF FinishRollback, Inv, At
<1>3. ASSUME NEW p \in Proc, RollBack(p) PROVE Inv'
  BY <1>2, <1>3, StartRollbackKeeps, UndoComponentKeeps, UndoRenameKeeps DEF RollBack
<1>4. ASSUME NEW c \in Component, Remove(c) PROVE Inv'
  <2>1. owed' = (owed \ {target[c]}) \cup ({Missing} \ {Missing})
    BY <1>4 DEF Remove
  <2>2. QED
    BY <1>4, <2>1, OutsideKeeps DEF Remove
<1>5. ASSUME NEW c \in Component, NEW f \in Foreign, Overwrite(c, f) PROVE Inv'
  <2>1. owed' = (owed \ {target[c]}) \cup ({f} \ {Missing})
    BY <1>5, ExtraAssumption DEF Overwrite
  <2>2. QED
    BY <1>5, <2>1, OutsideKeeps DEF Overwrite
<1>6. CASE UNCHANGED vars
  <2>1. FilesInv' /\ UNCHANGED <<task, lock>>
    BY <1>6, FilesStay DEF vars, Files, World, Inv
  <2>2. ASSUME NEW q \in Proc PROVE PcInv(task[q])'
    BY <1>6, Known DEF Inv, vars, PcInv, Unstaged, BackedUp, Unswapped, Exchanged, Before, After
  <2>3. QED
    BY <2>1, <2>2 DEF Inv, CallInv, OneCall, At
<1>7. QED
  BY <1>1, <1>3, <1>4, <1>5, <1>6, ExchangeKeeps, VerifyKeeps, ReverseKeeps, StopKeeps DEF Next

\* The files hold what the transactions and other programs have put into them,
\* and a call that is under way knows them.
THEOREM Invariance == Spec => []Inv
BY InitInv, NextInv, PTL DEF Spec

\* The type invariant: installations, roll-backs, stops and other programs keep
\* every variable in its type.
THEOREM TypeCorrect == Spec => []TypeOK
<1>1. Inv => TypeOK
  BY DEF Inv, FilesInv, CallInv, TypeOK
<1>2. QED
  BY <1>1, Invariance, PTL

\* What another program writes over a component, at whatever moment, is in place
\* or staged in a transaction, unless such a program has destroyed it.
THEOREM ForeignKept == ASSUME ~OutsiderCreates PROVE Spec => []ForeignBytesKept
<1>1. Inv => ForeignBytesKept
  BY DEF Inv, FilesInv
<1>2. QED
  BY <1>1, Invariance, PTL

(***************************************************************************)
(* The order of the installations, while nothing is removed                *)
(***************************************************************************)
Complete(t) == \A c \in Component : staged[t][c] \notin {Missing, Torn}

\* The call that is under way.
Call == IF lock = Free THEN Idle ELSE task[lock]

\* t holds what another program wrote.
Stray(t, c) == plan[t] # NoPlan /\ staged[t][c] \in Foreign \ {Before(t, c)}
\* It will come back, if the call k does not stop before.
Pending(k, c) == /\ k.pc \in {"verify", "reverse", "undoVerify", "undoReverse"}
                 /\ k.at = c /\ Stray(k.txn, c)
Lost(k, c) == \E t \in Txn : Stray(t, c) /\ ~(Pending(k, c) /\ t = k.txn)

\* What t has left in component c, and what may be found there since.
Left(t, c) == IF staged[t][c] = Before(t, c) THEN After(t, c) ELSE Before(t, c)
Agrees(t, c, x) == x = Left(t, c) \/ x \in Foreign

\* The call k may change the group for its transaction.
Changing(k) ==
    \/ k.pc \in InstallPc
    \/ k.pc \in {"undoVerify", "undoReverse"} /\ Before(k.txn, k.at) # After(k.txn, k.at)
Live(k, t) == Open(t) \/ (k.txn = t /\ Changing(k))
Newest(k, t) == Live(k, t) /\ \A u \in Txn : Live(k, u) => u <= t
Preceding(t, u) == Open(t) /\ t < u /\ \A v \in Txn : t < v /\ v < u => ~Open(v)

\* Each installation was made over what the one before it had left, and what
\* the newest one has left is in place, unless another program's bytes are lost
\* in a transaction, or are about to come back from it.
Chained(k, c) ==
    \A t, u \in Txn : Live(k, u) /\ Preceding(t, u) => Agrees(t, c, Before(u, c))
Settled(k, c) == \A t \in Txn : Newest(k, t) => Agrees(t, c, target[c])
Coherent(k, c) ==
    Lost(k, c) \/ (Chained(k, c) /\ (Settled(k, c) \/ Pending(k, c)))

OrderInv(k) ==
    /\ \A c \in Component : target[c] # Missing
    /\ \A t \in Txn : Open(t) => Complete(t)
    /\ k.pc \in RollbackPc =>
           /\ k.pc # "undoRename"
           /\ \A c \in Component : k.found[c] # Missing
           /\ Changing(k) => Complete(k.txn)
           /\ \A t \in Txn : Open(t) => t <= k.txn
    /\ \A c \in Component : Coherent(k, c)

\* A transaction's component whose staged file stays.
LEMMA Kept ==
    ASSUME UNCHANGED plan, NEW t \in Txn, NEW c \in Component, staged'[t][c] = staged[t][c]
    PROVE  /\ Left(t, c)' = Left(t, c)
           /\ Stray(t, c)' <=> Stray(t, c)
           /\ Holds(t, c)' <=> Holds(t, c)
BY DEF Left, Stray, Holds, Before, After

\* A component at which nothing has changed but the place of the call.
LEMMA CoherentStays ==
    ASSUME UNCHANGED plan, NEW k \in Task, NEW j \in Task, NEW c \in Component,
           target'[c] = target[c], Coherent(k, c), Pending(j, c)' <=> Pending(k, c),
           Pending(k, c) => j.txn = k.txn,
           \A t \in Txn : /\ Left(t, c)' = Left(t, c)
                          /\ Stray(t, c)' <=> Stray(t, c)
                          /\ Open(t)' <=> Open(t)
                          /\ (j.txn = t /\ Changing(j)') <=> (k.txn = t /\ Changing(k))
    PROVE  Coherent(j, c)'
<1>1. Lost(k, c) => Lost(j, c)'
  BY DEF Lost
<1>2. /\ \A t \in Txn : Live(j, t)' <=> Live(k, t)
      /\ \A t, u \in Txn : Preceding(t, u)' <=> Preceding(t, u)
  BY DEF Live, Preceding
<1>3. \A t \in Txn : Newest(j, t)' <=> Newest(k, t)
  BY <1>2 DEF Newest
<1>4. \A t, u \in Txn : Before(u, c)' = Before(u, c)
  BY DEF Before
<1>5. Chained(k, c) => Chained(j, c)'
  BY <1>2, <1>4 DEF Chained, Agrees
<1>6. Settled(k, c) => Settled(j, c)'
  BY <1>3 DEF Settled, Agrees
<1>7. QED
  BY <1>1, <1>5, <1>6 DEF Coherent

\* A call ends, or is through with a component.  If its transaction holds
\* nothing any more, what the one before it had left is in place again.
LEMMA LiveLost ==
    ASSUME NEW k \in Task, NEW i \in Task, NEW c \in Component, Coherent(k, c)',
           i.pc \notin InstallPc \cup {"undoVerify", "undoReverse"},
           Changing(k)' => /\ k.txn \in Txn /\ plan'[k.txn] # NoPlan
                           /\ \A t \in Txn : Open(t)' => t <= k.txn
    PROVE  Coherent(i, c)'
<1>1. ~Changing(i)' /\ ~Pending(i, c)'
  BY DEF Changing, Pending, InstallPc
<1>2. Lost(k, c)' \/ Pending(k, c)' => Lost(i, c)'
  <2>1. ASSUME Pending(k, c)' PROVE Lost(i, c)'
    BY <1>1, <2>1 DEF Lost, Pending, Task
  <2>2. QED
    BY <1>1, <2>1 DEF Lost
<1>3. ASSUME Chained(k, c)', Settled(k, c)' PROVE Coherent(i, c)'
  <2>1. \A u \in Txn : Live(i, u)' => Live(k, u)' /\ Open(u)'
    BY <1>1 DEF Live
  <2>2. Chained(i, c)'
    BY <1>3, <2>1 DEF Chained
  <2>3. ASSUME NEW s \in Txn, Newest(i, s)' PROVE Agrees(s, c, target[c])'
    <3>1. Open(s)' /\ Live(k, s)' /\ \A u \in Txn : Open(u)' => u <= s
      BY <2>1, <2>3 DEF Newest, Live
    <3>2. CASE ~Changing(k)' \/ Open(k.txn)'
      <4>1. \A u \in Txn : Live(k, u)' <=> Open(u)'
        BY <3>2 DEF Live
      <4>2. Newest(k, s)'
        BY <3>1, <4>1 DEF Newest
      <4>3. QED
        BY <1>3, <4>2 DEF Settled
    <3>3. CASE Changing(k)' /\ ~Open(k.txn)'
      <4>1. PICK t \in Txn : t = k.txn
        BY <3>3
      <4>2. plan'[t] # NoPlan /\ Live(k, t)' /\ ~Open(t)' /\ \A u \in Txn : Live(k, u)' => u <= t
        BY <3>3, <4>1, Numbers DEF Live
      <4>3. Agrees(t, c, target[c])'
        BY <1>3, <4>2 DEF Settled, Newest
      <4>4. Left(t, c)' = Before(t, c)'
        BY <4>2 DEF Open, Holds, Left
      <4>5. s < t
        BY <3>1, <4>2, Numbers
      <4>6. Preceding(s, t)'
        BY <3>1, <4>5, Numbers DEF Preceding
      <4>7. Agrees(s, c, Before(t, c))'
        BY <1>3, <4>2, <4>6 DEF Chained
      <4>8. QED
        BY <4>3, <4>4, <4>7 DEF Agrees
    <3>4. QED
      BY <3>2, <3>3
  <2>4. QED
    BY <2>2, <2>3 DEF Coherent, Settled
<1>4. QED
  BY <1>2, <1>3 DEF Coherent

\* Two names change places, for a transaction that is the newest to hold
\* anything, or whose component was never to change.
LEMMA SwapCoherent ==
    ASSUME NEW t \in Txn, NEW c \in Component, NEW k \in Task, NEW j \in Task,
           k.txn = t, j.txn = t, k.at = c, j.at = c,
           UNCHANGED plan, plan[t] # NoPlan,
           \A d \in Component \ {c} :
               target'[d] = target[d] /\ \A u \in Txn : staged'[u][d] = staged[u][d],
           \A u \in Txn \ {t} : staged'[u] = staged[u],
           Stray(t, c) => Pending(k, c),
           \/ /\ Live(k, t) /\ Live(j, t)' /\ \A u \in Txn : Open(u) => u <= t
              /\ target'[c] = Left(t, c)' \/ target'[c] \in Foreign \/ Pending(j, c)'
           \/ /\ Before(t, c) = After(t, c) /\ ~Changing(k) /\ ~Changing(j)'
              /\ \/ target'[c] \in Foreign \/ Pending(j, c)'
                 \/ target'[c] = target[c] /\ ~Stray(t, c),
           NEW d \in Component, Coherent(k, d)
    PROVE  Coherent(j, d)'
<1> DEFINE Top == Live(k, t) /\ Live(j, t)' /\ \A u \in Txn : Open(u) => u <= t
           Idem == Before(t, c) = After(t, c) /\ ~Changing(k) /\ ~Changing(j)'
<1>1. \A u \in Txn \ {t} : Open(u)' <=> Open(u)
  BY Kept DEF Open
<1>2. Idem => (Open(t)' <=> Open(t))
  <2>1. Idem => ~Holds(t, c) /\ ~Holds(t, c)'
    BY DEF Holds, Before, After
  <2>2. \A e \in Component \ {c} : Holds(t, e)' <=> Holds(t, e)
    BY Kept
  <2>3. QED
    BY <2>1, <2>2 DEF Open
<1>3. \A u \in Txn : Live(j, u)' <=> Live(k, u)
  BY <1>1, <1>2 DEF Live
<1>4. Top => \A u \in Txn : Live(k, u) => u <= t
  BY Numbers DEF Live
<1>5. \A s, u \in Txn : Live(j, u)' /\ Preceding(s, u)' => Preceding(s, u) /\ (Top => s # t)
  <2>1. CASE Top
    BY <1>1, <1>3, <1>4, <2>1, Numbers DEF Preceding
  <2>2. CASE ~Top
    BY <1>1, <1>2, <2>2 DEF Preceding
  <2>3. QED
    BY <2>1, <2>2
<1>6. \A u \in Txn : Newest(j, u)' => Newest(k, u) /\ (Top => u = t)
  BY <1>3, <1>4, Numbers DEF Newest
<1>7. \A u \in Txn, e \in Component : Before(u, e)' = Before(u, e)
  BY DEF Before
<1>8. CASE d # c
  <2>1. \A u \in Txn : Left(u, d)' = Left(u, d) /\ (Stray(u, d)' <=> Stray(u, d))
    BY <1>8, Kept
  <2>2. ~Pending(k, d) /\ ~Pending(j, d)'
    BY <1>8 DEF Pending
  <2>3. Lost(k, d) => Lost(j, d)'
    BY <2>1, <2>2 DEF Lost
  <2>4. Chained(k, d) => Chained(j, d)'
    BY <1>3, <1>5, <1>7, <2>1 DEF Chained, Agrees
  <2>5. Settled(k, d) => Settled(j, d)'
    BY <1>6, <1>8, <2>1 DEF Settled, Agrees
  <2>6. QED
    BY <2>2, <2>3, <2>4, <2>5 DEF Coherent
<1>9. CASE d = c
  <2>1. \A u \in Txn \ {t} : Left(u, c)' = Left(u, c) /\ (Stray(u, c)' <=> Stray(u, c))
    BY Kept
  <2>2. Lost(k, c) => Lost(j, c)'
    BY <2>1 DEF Lost
  <2>3. Idem => Left(t, c)' = Left(t, c)
    BY DEF Left, Before, After
  <2>4. Chained(k, c) => Chained(j, c)'
    <3>1. CASE Top
      BY <1>3, <1>5, <1>7, <2>1, <3>1 DEF Chained, Agrees
    <3>2. CASE Idem
      BY <1>3, <1>5, <1>7, <2>1, <2>3, <3>2 DEF Chained, Agrees
    <3>3. QED
      BY <3>1, <3>2
  <2>5. ASSUME Settled(k, c) \/ Pending(k, c) PROVE Settled(j, c)' \/ Pending(j, c)'
    <3>1. CASE target'[c] \in Foreign
      BY <3>1 DEF Settled, Agrees
    <3>2. CASE Top /\ target'[c] = Left(t, c)'
      BY <1>6, <3>2 DEF Settled, Agrees
    <3>3. CASE Idem /\ target'[c] = target[c] /\ ~Stray(t, c)
      <4>1. Settled(k, c)
        BY <2>5, <3>3 DEF Pending
      <4>2. \A u \in Txn : Left(u, c)' = Left(u, c)
        BY <2>1, <2>3, <3>3
      <4>3. QED
        BY <1>6, <3>3, <4>1, <4>2 DEF Settled, Agrees
    <3>4. QED
      BY <3>1, <3>2, <3>3
  <2>6. QED
    BY <1>9, <2>2, <2>4, <2>5 DEF Coherent
<1>10. QED
  BY <1>8, <1>9

\* The call under way, before and after a step.
LEMMA CallNow ==
    ASSUME CallInv, NEW p \in Proc
    PROVE  /\ Call \in Task
           /\ ~At(p, "idle") => Call = task[p]
           /\ lock = Free => Call.pc = "idle"
BY Known, Resting, ExtraAssumption DEF Call, CallInv

LEMMA CallBecomes ==
    ASSUME CallInv, NEW p \in Proc, NEW j \in Task,
           \/ task' = [task EXCEPT ![p] = j] /\ lock' = p
           \/ Return(p) /\ j = Idle
    PROVE  Call' = j
BY Resting, ExtraAssumption DEF Call, CallInv, Return

LEMMA CallThen ==
    ASSUME CallInv, NEW p \in Proc, NEW j \in Task,
           \/ task' = [task EXCEPT ![p] = j] /\ lock' = p
           \/ Return(p) /\ j = Idle,
           OrderInv(j)'
    PROVE  OrderInv(Call)'
<1>1. Call' = j
  BY CallBecomes
<1>2. QED
  BY <1>1

\* A call that may change the group is that of the newest transaction.
LEMMA ChangesNewest ==
    ASSUME FilesInv, NEW k \in Task, PcInv(k), OrderInv(k), Changing(k)
    PROVE  plan[k.txn] # NoPlan /\ \A t \in Txn : Open(t) => t <= k.txn
<1>1. k.txn \in Txn /\ plan[k.txn] # NoPlan
  BY DEF Task, Changing, PcInv, InstallPc
<1>2. CASE k.pc \in InstallPc
  BY <1>1, <1>2, Numbers DEF PcInv, Open
<1>3. CASE k.pc \in RollbackPc
  BY <1>1, <1>3 DEF OrderInv
<1>4. QED
  BY <1>1, <1>2, <1>3 DEF Changing, RollbackPc

\* A step that leaves the components, the plans and the staged files.
LEMMA StillOrdered ==
    ASSUME UNCHANGED <<target, plan, staged>>, NEW k \in Task, NEW j \in Task, OrderInv(k),
           \A t \in Txn : (j.txn = t /\ Changing(j)) <=> (k.txn = t /\ Changing(k)),
           \A c \in Component : /\ Pending(j, c) <=> Pending(k, c)
                                /\ Pending(k, c) => j.txn = k.txn,
           j.pc \in RollbackPc =>
               /\ j.pc # "undoRename"
               /\ \A c \in Component : j.found[c] # Missing
               /\ Changing(j) => Complete(j.txn)
               /\ \A t \in Txn : Open(t) => t <= j.txn
    PROVE  OrderInv(j)'
<1>1. \A t \in Txn, c \in Component :
          Left(t, c)' = Left(t, c) /\ (Stray(t, c)' <=> Stray(t, c))
  BY Kept
<1>2. \A t \in Txn : (Open(t)' <=> Open(t)) /\ (Complete(t)' <=> Complete(t))
  BY DEF Open, Holds, Before, After, Complete
<1>3. (Changing(j)' <=> Changing(j)) /\ \A c \in Component : Pending(j, c)' <=> Pending(j, c)
  BY DEF Changing, Pending, Stray, Before, After
<1>4. \A c \in Component : Coherent(j, c)'
  BY <1>1, <1>2, <1>3, CoherentStays DEF OrderInv
<1>5. j.txn \in Txn
  BY DEF Task
<1>6. QED
  BY <1>2, <1>3, <1>4, <1>5 DEF OrderInv

\* A call that would go on in order ends, or is through with a component.
LEMMA EndsOrdered ==
    ASSUME NEW k \in Task, NEW i \in Task, OrderInv(k)',
           i.pc \notin InstallPc \cup {"undoExchange", "undoVerify", "undoReverse", "undoRename"},
           i.pc = "undo" => k.pc \in RollbackPc /\ i.txn = k.txn /\ i.found = k.found,
           Changing(k)' => plan'[k.txn] # NoPlan /\ \A t \in Txn : Open(t)' => t <= k.txn
    PROVE  OrderInv(i)'
<1>1. k.txn \in Txn /\ i.pc \in Pc
  BY DEF Task, Pc
<1>2. \A c \in Component : Coherent(i, c)'
  BY <1>1, LiveLost DEF OrderInv, InstallPc
<1>3. ~Changing(i)'
  BY DEF Changing
<1>4. QED
  BY <1>1, <1>2, <1>3 DEF OrderInv, RollbackPc, Pc

(***************************************************************************)
(* The steps keep the order                                                *)
(***************************************************************************)
\* A call that ends and leaves the files as they are.
LEMMA ReturnOrdered ==
    ASSUME Inv, OrderInv(Call), NEW p \in Proc, ~At(p, "idle"), Return(p),
           UNCHANGED <<target, plan, staged>>
    PROVE  OrderInv(Call)'
<1>1. PICK k \in Task : k = Call /\ k = task[p] /\ OrderInv(k) /\ PcInv(k)
  BY CallNow, Known DEF Inv
<1>2. OrderInv(k)'
  BY <1>1, StillOrdered DEF OrderInv
<1>3. Changing(k)' => plan'[k.txn] # NoPlan /\ \A t \in Txn : Open(t)' => t <= k.txn
  <2>1. (Changing(k)' <=> Changing(k)) /\ \A t \in Txn : Open(t)' <=> Open(t)
    BY DEF Changing, Open, Holds, Before, After
  <2>2. QED
    BY <1>1, <2>1, ChangesNewest DEF Inv
<1>4. PICK i \in Task : i = Idle
  BY Resting
<1>5. OrderInv(i)'
  BY <1>2, <1>3, <1>4, Resting, EndsOrdered DEF InstallPc
<1>6. QED
  BY <1>4, <1>5, CallThen DEF Inv

LEMMA StartInstallOrdered ==
    ASSUME Inv, OrderInv(Call), NEW p \in Proc, NEW t \in Txn,
           NEW after \in [Component -> Own], StartInstall(p, t, after)
    PROVE  OrderInv(Call)'
<1>1. PICK k \in Task : k = Call /\ OrderInv(k) /\ k.pc = "idle"
  BY CallNow DEF Inv, StartInstall, TakeLock
<1>2. /\ plan[t] = NoPlan /\ \A u \in Txn : u > t => plan[u] = NoPlan
      /\ plan' = [plan EXCEPT ![t] = [before |-> target, after |-> after]]
      /\ UNCHANGED <<target, staged>> /\ FilesInv /\ CallInv /\ lock' = p
      /\ \A c \in Component : target[c] # Missing /\ staged[t][c] = Missing
      /\ task' = [task EXCEPT ![p].pc = "journal", ![p].txn = t]
  BY DEF StartInstall, Inv, FilesInv, TxnInv, Unstaged, TakeLock
<1>3. /\ \A u \in Txn \ {t} : plan'[u] = plan[u]
      /\ plan'[t] # NoPlan /\ \A c \in Component : Before(t, c)' = target[c]
  <2>1. plan'[t] = [before |-> target, after |-> after]
    BY <1>2 DEF FilesInv
  <2>2. [before |-> target, after |-> after] \in Plan
    <3>1. target \in [Component -> Bytes]
      BY <1>2 DEF FilesInv
    <3>2. QED
      BY <3>1 DEF Plan
  <2>3. QED
    BY <1>2, <2>1, <2>2, ExtraAssumption DEF FilesInv, Before
<1> DEFINE j == [task[p] EXCEPT !.pc = "journal", !.txn = t]
<1>4. j \in Task /\ j.pc = "journal" /\ j.txn = t /\ task' = [task EXCEPT ![p] = j]
  BY <1>2, Known DEF Task, InstallPc
<1> HIDE DEF j
<1>5. PICK n \in Task : n = j
  BY <1>4
<1>6. \A u \in Txn \ {t}, c \in Component :
          /\ Left(u, c)' = Left(u, c) /\ (Stray(u, c)' <=> Stray(u, c))
          /\ Before(u, c)' = Before(u, c)
  BY <1>2, <1>3 DEF Left, Stray, Before, After
<1>7. \A u \in Txn : /\ Open(u)' <=> (u # t /\ Open(u))
                     /\ Open(u) => u < t
                     /\ Open(u)' => Complete(u)'
  <2>1. \A u \in Txn \ {t} : (Open(u)' <=> Open(u)) /\ (Complete(u)' <=> Complete(u))
    BY <1>2, <1>3 DEF Open, Holds, Before, After, Complete
  <2>2. ~Open(t)' /\ ~Open(t)
    BY <1>2, <1>3 DEF Open, Holds
  <2>3. QED
    BY <1>1, <1>2, <2>1, <2>2, Numbers DEF OrderInv, Open
<1>8. \A u \in Txn : /\ Live(n, u)' <=> (u = t \/ Open(u))
                     /\ Live(k, u) <=> Open(u)
  BY <1>1, <1>4, <1>5, <1>7 DEF Live, Changing, InstallPc
<1>9. ASSUME NEW c \in Component PROVE Coherent(n, c)'
  <2>1. ~Pending(k, c) /\ ~Pending(n, c)' /\ ~Stray(t, c)
    BY <1>1, <1>2, <1>4, <1>5 DEF Pending, Stray
  <2>2. Lost(k, c) => Lost(n, c)'
    BY <1>6, <2>1 DEF Lost
  <2>3. ASSUME Chained(k, c), Settled(k, c), NEW s \in Txn, NEW u \in Txn,
               Live(n, u)', Preceding(s, u)'
        PROVE  Agrees(s, c, Before(u, c))'
    <3>1. s # t /\ Open(s) /\ s < u
      BY <1>7, <2>3 DEF Preceding
    <3>2. CASE u = t
      <4>1. \A v \in Txn : Open(v) => v <= s
        BY <1>7, <2>3, <3>2, Numbers DEF Preceding
      <4>2. Agrees(s, c, target[c])
        BY <1>8, <2>3, <3>1, <4>1 DEF Newest, Settled
      <4>3. QED
        BY <1>3, <1>6, <3>1, <3>2, <4>2 DEF Agrees
    <3>3. CASE u # t
      <4>1. ~Open(t)
        BY <1>7, Numbers
      <4>2. \A v \in Txn : Open(v)' <=> Open(v)
        BY <1>7, <4>1
      <4>3. Preceding(s, u) /\ Live(k, u)
        BY <1>8, <2>3, <3>3, <4>2 DEF Preceding
      <4>4. Agrees(s, c, Before(u, c))
        BY <2>3, <4>3 DEF Chained
      <4>5. QED
        BY <1>6, <3>1, <3>3, <4>4 DEF Agrees
    <3>4. QED
      BY <3>2, <3>3
  <2>4. ASSUME NEW u \in Txn, Newest(n, u)' PROVE Agrees(u, c, target[c])'
    <3>1. u = t
      BY <1>7, <1>8, <2>4, Numbers DEF Newest
    <3>2. Left(t, c)' = target[c]
      BY <1>2, <1>3 DEF Left
    <3>3. QED
      BY <1>2, <3>1, <3>2 DEF Agrees
  <2>5. Coherent(k, c)
    BY <1>1 DEF OrderInv
  <2>6. QED
    BY <2>1, <2>2, <2>3, <2>4, <2>5 DEF Coherent, Chained, Settled
<1>10. OrderInv(n)'
  BY <1>2, <1>4, <1>5, <1>7, <1>9 DEF OrderInv, RollbackPc
<1>11. QED
  BY <1>2, <1>4, <1>5, <1>10, CallThen

\* The journal and the backups do not matter to the order.
LEMMA WriteOrdered ==
    ASSUME Inv, OrderInv(Call), NEW p \in Proc, WriteJournal(p) \/ WriteBackup(p)
    PROVE  OrderInv(Call)'
<1>1. PICK k \in Task : /\ k = Call /\ k = task[p] /\ OrderInv(k) /\ PcInv(k)
                        /\ k.pc \in {"journal", "backups"} /\ lock = p
  BY CallNow, Known DEF Inv, WriteJournal, WriteBackup, At
<1>2. UNCHANGED <<target, plan, staged>> /\ lock' = lock
  BY DEF WriteJournal, WriteBackup
<1>3. PICK j \in Task : /\ task' = [task EXCEPT ![p] = j] /\ j.txn = k.txn
                        /\ j.pc \in {"backups", "stage"}
  <2>1. "backups" \in Pc /\ "stage" \in Pc /\ task[p].at <= Count
    BY <1>1 DEF Pc, InstallPc, PcInv
  <2>2. CASE WriteJournal(p)
    BY <1>1, <2>1, <2>2, Goes DEF WriteJournal, Inv
  <2>3. CASE WriteBackup(p)
    BY <1>1, <2>1, <2>3, Advances DEF WriteBackup, Inv, At
  <2>4. QED
    BY <2>2, <2>3
<1>4. /\ Changing(j) /\ Changing(k) /\ j.pc \notin RollbackPc
      /\ \A c \in Component : ~Pending(j, c) /\ ~Pending(k, c)
  BY <1>1, <1>3 DEF Changing, Pending, InstallPc, RollbackPc
<1>5. OrderInv(j)'
  BY <1>1, <1>2, <1>3, <1>4, StillOrdered
<1>6. QED
  BY <1>1, <1>2, <1>3, <1>5, CallThen DEF Inv

\* A transaction whose files are being staged holds nothing.
LEMMA Staging ==
    ASSUME FilesInv, NEW t \in Txn, NEW c \in Component, NEW k \in Task,
           k.pc = "stage", k.txn = t, k.at = c, PcInv(k), UNCHANGED plan,
           staged' = [staged EXCEPT ![t][c] = After(t, c)]
               \/ staged' = [staged EXCEPT ![t][c] = Torn]
    PROVE  /\ plan[t] # NoPlan /\ ~Open(t) /\ ~Open(t)'
           /\ staged'[t][c] \in {After(t, c), Torn}
           /\ \A d \in Component \ {c} : staged'[t][d] = staged[t][d]
           /\ \A u \in Txn \ {t} : staged'[u] = staged[u]
           /\ \A u \in Txn \ {t} : (Open(u)' <=> Open(u)) /\ (Complete(u)' <=> Complete(u))
           /\ \A u \in Txn, d \in Component :
                  Left(u, d)' = Left(u, d) /\ (Stray(u, d)' <=> Stray(u, d))
<1>1. /\ plan[t] # NoPlan
      /\ \A d \in Component : staged[t][d] \in {After(t, d), Missing}
      /\ staged[t][c] = Missing
  BY Numbers DEF PcInv, Component
<1>2. /\ staged'[t][c] \in {After(t, c), Torn}
      /\ \A d \in Component \ {c} : staged'[t][d] = staged[t][d]
      /\ \A u \in Txn \ {t} : staged'[u] = staged[u]
  BY DEF FilesInv
<1>3. \A d \in Component : Before(t, d) \notin {Missing, Torn} /\ After(t, d) \notin Foreign
  BY <1>1, Planned, ExtraAssumption
<1>4. ~Open(t) /\ ~Open(t)'
  BY <1>1, <1>2, <1>3 DEF Open, Holds, Before, After
<1>5. \A u \in Txn \ {t} : (Open(u)' <=> Open(u)) /\ (Complete(u)' <=> Complete(u))
  BY <1>2 DEF Open, Holds, Before, After, Complete
<1>6. ASSUME NEW u \in Txn, NEW d \in Component
      PROVE  Left(u, d)' = Left(u, d) /\ (Stray(u, d)' <=> Stray(u, d))
  <2>1. CASE u # t \/ d # c
    BY <1>2, <2>1, Kept
  <2>2. CASE u = t /\ d = c
    BY <1>1, <1>2, <1>3, <2>2, ExtraAssumption DEF Left, Stray, Before, After
  <2>3. QED
    BY <2>1, <2>2
<1>7. QED
  BY <1>1, <1>2, <1>4, <1>5, <1>6

LEMMA StagingOrdered ==
    ASSUME FilesInv, NEW t \in Txn, NEW c \in Component, NEW k \in Task, NEW j \in Task,
           k.pc = "stage", k.txn = t, k.at = c, PcInv(k), OrderInv(k),
           j.pc \in {"stage", "check"}, j.txn = t, UNCHANGED <<target, plan>>,
           staged' = [staged EXCEPT ![t][c] = After(t, c)]
               \/ staged' = [staged EXCEPT ![t][c] = Torn]
    PROVE  OrderInv(j)'
<1>1. /\ ~Open(t) /\ ~Open(t)'
      /\ \A u \in Txn \ {t} : (Open(u)' <=> Open(u)) /\ (Complete(u)' <=> Complete(u))
      /\ \A u \in Txn, d \in Component :
             Left(u, d)' = Left(u, d) /\ (Stray(u, d)' <=> Stray(u, d))
  BY Staging
<1>2. /\ Changing(j)' /\ Changing(k) /\ j.pc \notin RollbackPc
      /\ \A d \in Component : ~Pending(j, d)' /\ ~Pending(k, d)
  BY DEF Changing, Pending, InstallPc, RollbackPc
<1>3. \A d \in Component : Coherent(j, d)'
  BY <1>1, <1>2, CoherentStays DEF OrderInv
<1>4. QED
  BY <1>1, <1>2, <1>3 DEF OrderInv

LEMMA WriteStagedOrdered ==
    ASSUME Inv, OrderInv(Call), NEW p \in Proc, WriteStaged(p)
    PROVE  OrderInv(Call)'
<1>1. PICK k \in Task : /\ k = Call /\ k = task[p] /\ OrderInv(k) /\ PcInv(k)
                        /\ k.pc = "stage" /\ lock = p
  BY CallNow, Known DEF Inv, WriteStaged, At
<1>2. PICK t \in Txn, c \in Component : t = k.txn /\ c = k.at
  BY <1>1, Known, Numbers DEF Inv, PcInv, Component
<1>3. /\ UNCHANGED <<target, plan>> /\ lock' = lock /\ Advance(p, "check")
      /\ staged' = [staged EXCEPT ![t][c] = After(t, c)]
  BY <1>1, <1>2 DEF WriteStaged
<1>4. PICK j \in Task : /\ task' = [task EXCEPT ![p] = j] /\ j.txn = t
                        /\ j.pc \in {"stage", "check"}
  <2>1. "check" \in Pc /\ task[p].at <= Count
    BY <1>1 DEF Pc, InstallPc, PcInv
  <2>2. QED
    BY <1>1, <1>2, <1>3, <2>1, Advances DEF Inv
<1>5. OrderInv(j)'
  BY <1>1, <1>2, <1>3, <1>4, StagingOrdered DEF Inv
<1>6. QED
  BY <1>1, <1>3, <1>4, <1>5, CallThen DEF Inv

LEMMA CheckOrdered ==
    ASSUME Inv, OrderInv(Call), NEW p \in Proc, Check(p)
    PROVE  OrderInv(Call)'
<1>1. UNCHANGED <<target, plan, staged>> /\ At(p, "check") /\ ~At(p, "idle")
  BY DEF Check, Files, At
<1>2. CASE Return(p)
  BY <1>1, <1>2, ReturnOrdered
<1>3. CASE Goto(p, "exchange") /\ lock' = lock
  <2>1. PICK k \in Task : k = Call /\ k = task[p] /\ OrderInv(k) /\ k.pc = "check" /\ lock = p
    BY <1>1, CallNow, Known DEF Inv, At
  <2>2. "exchange" \in Pc
    BY DEF Pc, InstallPc
  <2>3. PICK j \in Task : /\ task' = [task EXCEPT ![p] = j] /\ j.txn = k.txn
                          /\ j.pc = "exchange"
    BY <1>3, <2>1, <2>2, Goes DEF Inv
  <2>4. /\ Changing(j) /\ Changing(k) /\ j.pc \notin RollbackPc
        /\ \A c \in Component : ~Pending(j, c) /\ ~Pending(k, c)
    BY <2>1, <2>3 DEF Changing, Pending, InstallPc, RollbackPc
  <2>5. OrderInv(j)'
    BY <1>1, <2>1, <2>3, <2>4, StillOrdered
  <2>6. QED
    BY <1>3, <2>1, <2>3, <2>5, CallThen DEF Inv
<1>4. QED
  BY <1>2, <1>3 DEF Check

\* Swapping leaves the transaction complete, and opens no other one.
LEMMA SwapComplete ==
    ASSUME FilesInv, NEW t \in Txn, NEW c \in Component, NEW k \in Task, OrderInv(k),
           UNCHANGED plan, {target[c], staged[t][c]} \cap {Missing, Torn} = {},
           target'[c] = staged[t][c] /\ staged'[t][c] = target[c],
           \A d \in Component \ {c} :
               target'[d] = target[d] /\ \A u \in Txn : staged'[u][d] = staged[u][d],
           \A u \in Txn \ {t} : staged'[u] = staged[u],
           Complete(t) \/ Before(t, c) = After(t, c)
    PROVE  /\ \A d \in Component : target'[d] # Missing
           /\ \A u \in Txn : Open(u)' => Complete(u)' /\ (Open(u) \/ u = t)
           /\ Complete(t) => Complete(t)'
<1>1. \A d \in Component : target'[d] # Missing
  BY DEF OrderInv
<1>2. \A u \in Txn \ {t} : (Open(u)' <=> Open(u)) /\ (Complete(u)' <=> Complete(u))
  BY DEF Open, Holds, Before, After, Complete
<1>3. Complete(t) => Complete(t)'
  BY DEF Complete
<1>4. Open(t)' /\ ~Complete(t) => Open(t)
  BY Kept DEF Open, Holds, Before, After
<1>5. QED
  BY <1>1, <1>2, <1>3, <1>4 DEF OrderInv

LEMMA ExchangeOrdered ==
    ASSUME Inv, OrderInv(Call), NEW p \in Proc, Exchange(p)
    PROVE  OrderInv(Call)'
<1>1. PICK k \in Task : /\ k = Call /\ k = task[p] /\ OrderInv(k) /\ PcInv(k) /\ lock = p
                        /\ k.pc \in {"exchange", "undoExchange"}
  BY CallNow, Known DEF Inv, Exchange, At
<1>2. PICK t \in Txn, c \in Component : t = k.txn /\ c = k.at
  BY <1>1, Known, Numbers DEF Inv, PcInv, Component
<1>3. /\ FilesInv /\ CallInv /\ SwapNames(t, c) /\ plan[t] # NoPlan /\ lock' = lock
      /\ UNCHANGED <<plan, journal, backup, owed, outsider>> /\ last' \in Txn \cup {0}
      /\ Goto(p, IF k.pc = "exchange" THEN "verify" ELSE "undoVerify")
  BY <1>1, <1>2 DEF Exchange, Inv, FilesInv, PcInv, World, At
<1>4. IF k.pc = "exchange" THEN Unswapped(t, c, Before(t, c), After(t, c))
                           ELSE Unswapped(t, c, After(t, c), Before(t, c))
  BY <1>1, <1>2 DEF PcInv
<1>5. /\ target'[c] = staged[t][c] /\ staged'[t][c] = target[c]
      /\ {target[c], staged[t][c]} \cap {Missing, Torn} = {}
      /\ \A d \in Component \ {c} :
             target'[d] = target[d] /\ \A u \in Txn : staged'[u][d] = staged[u][d]
      /\ \A u \in Txn \ {t} : staged'[u] = staged[u]
  BY <1>3, <1>4, SwapKeeps DEF Unswapped
<1>6. Before(t, c)' = Before(t, c) /\ After(t, c)' = After(t, c) /\ After(t, c) \notin Foreign
  BY <1>3, Planned, ExtraAssumption DEF Before, After
<1>7. CASE k.pc = "exchange"
  <2>1. "verify" \in Pc
    BY DEF Pc, InstallPc
  <2>2. PICK j \in Task : /\ task' = [task EXCEPT ![p] = j] /\ j.pc = "verify"
                          /\ j.txn = t /\ j.at = c
    BY <1>1, <1>2, <1>3, <1>7, <2>1, Goes
  <2>3. Live(k, t) /\ Live(j, t)' /\ \A u \in Txn : Open(u) => u <= t
    BY <1>1, <1>2, <1>3, <1>7, <2>2, ChangesNewest DEF Live, Changing, InstallPc
  <2>4. ~Stray(t, c) /\ (target'[c] = Left(t, c)' \/ Pending(j, c)')
    BY <1>3, <1>4, <1>5, <1>6, <1>7, <2>2 DEF Unswapped, Stray, Left, Pending
  <2>5. \A d \in Component : Coherent(j, d)'
    BY <1>1, <1>2, <1>3, <1>5, <2>2, <2>3, <2>4, SwapCoherent DEF OrderInv
  <2>6. Complete(t)
    <3>1. \A d \in Component : staged[t][d] \in {Before(t, d), After(t, d)}
      BY <1>1, <1>2, <1>4, <1>7, Numbers DEF PcInv, Unswapped, Component
    <3>2. QED
      BY <1>3, <3>1, Planned DEF Complete
  <2>7. OrderInv(j)'
    BY <1>1, <1>3, <1>5, <2>2, <2>5, <2>6, SwapComplete DEF OrderInv, RollbackPc
  <2>8. QED
    BY <1>1, <1>3, <2>2, <2>7, CallThen
<1>8. CASE k.pc = "undoExchange"
  <2>1. "undoVerify" \in Pc
    BY DEF Pc, RollbackPc
  <2>2. PICK j \in Task : /\ task' = [task EXCEPT ![p] = j] /\ j.pc = "undoVerify"
                          /\ j.txn = t /\ j.at = c /\ j.found = k.found
    BY <1>1, <1>2, <1>3, <1>8, <2>1, Goes
  <2>3. /\ \A u \in Txn : Open(u) => u <= t
        /\ \A d \in Component : j.found[d] # Missing
    BY <1>1, <1>2, <1>8, <2>2 DEF OrderInv, RollbackPc
  <2>4. Changing(j)' <=> Before(t, c) # After(t, c)
    BY <1>6, <2>2 DEF Changing, InstallPc
  <2>5. CASE Before(t, c) # After(t, c)
    <3>1. Open(t) /\ Complete(t)
      BY <1>1, <1>3, <1>4, <1>8, <2>5 DEF Unswapped, Open, Holds, OrderInv
    <3>2. Live(k, t) /\ Live(j, t)'
      BY <2>2, <2>4, <2>5, <3>1 DEF Live
    <3>3. /\ ~Stray(t, c)
          /\ target'[c] = Left(t, c)' \/ target'[c] \in Foreign \/ Pending(j, c)'
      <4>1. /\ staged[t][c] = Before(t, c) /\ target[c] \in {After(t, c)} \cup Foreign
            /\ target'[c] = Before(t, c) /\ staged'[t][c] = target[c]
        BY <1>4, <1>5, <1>8 DEF Unswapped
      <4>2. CASE target[c] = Before(t, c)
        BY <2>5, <4>1, <4>2 DEF Stray
      <4>3. CASE target[c] # Before(t, c)
        <5>1. Left(t, c)' = Before(t, c)
          BY <1>6, <4>1, <4>3 DEF Left
        <5>2. QED
          BY <4>1, <5>1 DEF Stray
      <4>4. QED
        BY <4>2, <4>3
    <3>4. \A d \in Component : Coherent(j, d)'
      BY <1>1, <1>2, <1>3, <1>5, <2>2, <2>3, <3>2, <3>3, SwapCoherent DEF OrderInv
    <3>5. /\ \A d \in Component : target'[d] # Missing
          /\ \A u \in Txn : Open(u)' => Complete(u)' /\ (Open(u) \/ u = t)
          /\ Complete(t)'
      BY <1>1, <1>3, <1>5, <3>1, SwapComplete
    <3>6. \A u \in Txn : Open(u)' => u <= t
      BY <2>3, <3>1, <3>5
    <3>7. OrderInv(j)'
      BY <2>2, <2>3, <3>4, <3>5, <3>6 DEF OrderInv
    <3>8. QED
      BY <1>1, <1>3, <2>2, <3>7, CallThen
  <2>6. CASE Before(t, c) = After(t, c)
    <3>1. ~Changing(k) /\ ~Changing(j)'
      BY <1>8, <2>4, <2>6 DEF Changing, InstallPc
    <3>2. ~Stray(t, c) /\ (target'[c] = target[c] \/ Pending(j, c)')
      BY <1>3, <1>4, <1>5, <1>6, <1>8, <2>2, <2>6 DEF Unswapped, Stray, Pending
    <3>3. \A d \in Component : Coherent(j, d)'
      BY <1>1, <1>2, <1>3, <1>5, <2>2, <2>6, <3>1, <3>2, SwapCoherent DEF OrderInv
    <3>4. /\ \A d \in Component : target'[d] # Missing
          /\ \A u \in Txn : Open(u)' => Complete(u)' /\ (Open(u) \/ u = t)
      BY <1>1, <1>3, <1>5, <2>6, SwapComplete
    <3>5. \A u \in Txn : Open(u)' => u <= t
      BY <2>3, <3>4, Numbers
    <3>6. OrderInv(j)'
      BY <2>2, <2>3, <3>1, <3>3, <3>4, <3>5 DEF OrderInv
    <3>7. QED
      BY <1>1, <1>3, <2>2, <3>6, CallThen
  <2>7. QED
    BY <2>5, <2>6
<1>9. QED
  BY <1>1, <1>7, <1>8

LEMMA VerifyOrdered ==
    ASSUME Inv, OrderInv(Call), NEW p \in Proc, Verify(p)
    PROVE  OrderInv(Call)'
<1>1. /\ UNCHANGED <<target, plan, staged>> /\ FilesInv /\ CallInv
      /\ task[p].pc \in {"verify", "undoVerify"} /\ ~At(p, "idle")
  BY DEF Verify, Files, At, Inv
<1>2. PICK k \in Task : k = Call /\ k = task[p] /\ OrderInv(k) /\ PcInv(k) /\ lock = p
  BY <1>1, CallNow, Known
<1>3. PICK t \in Txn, c \in Component : t = k.txn /\ c = k.at /\ k.at <= Count
  BY <1>1, <1>2, Known, Numbers DEF PcInv, Component
<1>4. CASE Return(p)
  BY <1>1, <1>4, ReturnOrdered
<1>5. CASE k.pc = "verify" /\ GotoNext(p, "check") /\ lock' = lock /\ staged[t][c] = Before(t, c)
  <2>1. "check" \in Pc
    BY DEF Pc, InstallPc
  <2>2. PICK j \in Task : task' = [task EXCEPT ![p] = j] /\ j.pc = "check" /\ j.txn = t
    BY <1>1, <1>2, <1>3, <1>5, <2>1, GoesNext
  <2>3. /\ Changing(j) /\ Changing(k) /\ j.pc \notin RollbackPc
        /\ \A d \in Component : ~Pending(j, d) /\ ~Pending(k, d)
    BY <1>3, <1>5, <2>2 DEF Changing, Pending, Stray, InstallPc, RollbackPc
  <2>4. OrderInv(j)'
    BY <1>1, <1>2, <1>3, <2>2, <2>3, StillOrdered
  <2>5. QED
    BY <1>1, <1>2, <1>5, <2>2, <2>4, CallThen
<1>6. ASSUME NEW x \in Pc, Goto(p, x), lock' = lock,
             \/ k.pc = "verify" /\ x = "reverse"
             \/ k.pc = "undoVerify" /\ x = "undoReverse"
      PROVE  OrderInv(Call)'
  <2>1. PICK j \in Task : /\ task' = [task EXCEPT ![p] = j] /\ j.pc = x
                          /\ j.txn = k.txn /\ j.at = k.at /\ j.found = k.found
    BY <1>1, <1>2, <1>6, Goes
  <2>2. /\ Changing(j) <=> Changing(k)
        /\ \A d \in Component : Pending(j, d) <=> Pending(k, d)
    BY <1>6, <2>1 DEF Changing, Pending, InstallPc
  <2>3. j.pc \in RollbackPc => k.pc \in RollbackPc /\ j.pc # "undoRename"
    BY <1>6, <2>1 DEF RollbackPc
  <2>4. OrderInv(j)'
    BY <1>1, <1>2, <2>1, <2>2, <2>3, StillOrdered DEF OrderInv
  <2>5. QED
    BY <1>1, <1>2, <1>6, <2>1, <2>4, CallThen
<1>7. CASE k.pc = "undoVerify" /\ GotoNext(p, "undo") /\ lock' = lock
  <2>1. "undo" \in Pc /\ k.pc \in RollbackPc
    BY <1>7 DEF Pc, RollbackPc
  <2>2. PICK j \in Task : /\ task' = [task EXCEPT ![p] = j] /\ j.pc = "undo"
                          /\ j.txn = k.txn /\ j.found = k.found
    BY <1>1, <1>2, <1>3, <1>7, <2>1, GoesNext
  <2>3. OrderInv(k)'
    BY <1>1, <1>2, StillOrdered DEF OrderInv
  <2>4. Changing(k)' => plan'[k.txn] # NoPlan /\ \A u \in Txn : Open(u)' => u <= k.txn
    <3>1. (Changing(k)' <=> Changing(k)) /\ \A u \in Txn : Open(u)' <=> Open(u)
      BY <1>1 DEF Changing, Open, Holds, Before, After
    <3>2. QED
      BY <1>1, <1>2, <3>1, ChangesNewest
  <2>5. OrderInv(j)'
    BY <2>1, <2>2, <2>3, <2>4, EndsOrdered DEF InstallPc
  <2>6. QED
    BY <1>1, <1>2, <1>7, <2>2, <2>5, CallThen
<1>8. QED
  <2>1. "reverse" \in Pc /\ "undoReverse" \in Pc
    BY DEF Pc, InstallPc, RollbackPc
  <2>2. CASE k.pc = "verify"
    <3>1. \/ GotoNext(p, "check") /\ lock' = lock /\ staged[t][c] = Before(t, c)
          \/ Goto(p, "reverse") /\ lock' = lock
          \/ Return(p)
      BY <1>2, <1>3, <2>2 DEF Verify, At
    <3>2. QED
      BY <1>4, <1>5, <1>6, <2>1, <2>2, <3>1
  <2>3. CASE k.pc = "undoVerify"
    <3>1. \/ GotoNext(p, "undo") /\ lock' = lock
          \/ Goto(p, "undoReverse") /\ lock' = lock
          \/ Return(p)
      BY <1>2, <1>3, <2>3 DEF Verify, At
    <3>2. QED
      BY <1>4, <1>6, <1>7, <2>1, <2>3, <3>1
  <2>4. QED
    BY <1>1, <1>2, <2>2, <2>3

LEMMA ReverseOrdered ==
    ASSUME Inv, OrderInv(Call), NEW p \in Proc, Reverse(p)
    PROVE  OrderInv(Call)'
<1>1. PICK k \in Task : /\ k = Call /\ k = task[p] /\ OrderInv(k) /\ PcInv(k) /\ lock = p
                        /\ k.pc \in {"reverse", "undoReverse"}
  BY CallNow, Known DEF Inv, Reverse, At
<1>2. PICK t \in Txn, c \in Component : t = k.txn /\ c = k.at
  BY <1>1, Known, Numbers DEF Inv, PcInv, Component
<1>3. /\ FilesInv /\ CallInv /\ SwapNames(t, c) /\ plan[t] # NoPlan /\ Return(p)
      /\ UNCHANGED <<plan, journal, backup, owed, outsider>> /\ last' \in Txn \cup {0}
  BY <1>1, <1>2 DEF Reverse, Inv, FilesInv, PcInv, World
<1>4. IF k.pc = "reverse"
      THEN Exchanged(t, c, Before(t, c), After(t, c)) /\ staged[t][c] # Before(t, c)
      ELSE Exchanged(t, c, After(t, c), Before(t, c)) /\ staged[t][c] # After(t, c)
  BY <1>1, <1>2 DEF PcInv
<1>5. /\ target'[c] = staged[t][c] /\ staged'[t][c] = target[c]
      /\ {target[c], staged[t][c]} \cap {Missing, Torn} = {}
      /\ \A d \in Component \ {c} :
             target'[d] = target[d] /\ \A u \in Txn : staged'[u][d] = staged[u][d]
      /\ \A u \in Txn \ {t} : staged'[u] = staged[u]
  BY <1>3, <1>4, SwapKeeps DEF Exchanged
<1>6. target'[c] \in Foreign /\ (Stray(t, c) => Pending(k, c))
  BY <1>1, <1>2, <1>4, <1>5 DEF Exchanged, Pending
<1>7. Changing(k) => Complete(t) /\ \A u \in Txn : Open(u) => u <= t
  <2>1. ASSUME k.pc = "reverse" PROVE Complete(t)
    <3>1. \A d \in Component \ {c} : staged[t][d] \in {Before(t, d), After(t, d)}
      BY <1>1, <1>2, <2>1, Numbers DEF PcInv, Component
    <3>2. QED
      BY <1>3, <1>5, <3>1, Planned DEF Complete
  <2>2. QED
    BY <1>1, <1>2, <1>3, <2>1, ChangesNewest DEF OrderInv, RollbackPc
\* As if the call went on.
<1>8. PICK j \in Task : /\ j.txn = t /\ j.at = c /\ j.found = k.found
                        /\ j.pc = IF Changing(k) THEN "check" ELSE "idle"
  <2>1. [k EXCEPT !.pc = IF Changing(k) THEN "check" ELSE "idle"] \in Task
    BY DEF Task, InstallPc
  <2>2. QED
    BY <1>2, <2>1 DEF Task
<1>9. (Changing(j)' <=> Changing(k)) /\ j.pc \notin RollbackPc
  BY <1>8 DEF Changing, InstallPc, RollbackPc
<1>10. ~Changing(k) => Before(t, c) = After(t, c)
  BY <1>1, <1>2 DEF Changing, InstallPc
<1>11. ASSUME NEW d \in Component PROVE Coherent(j, d)'
  <2>1. Coherent(k, d)
    BY <1>1 DEF OrderInv
  <2>2. CASE Changing(k)
    <3>1. Live(k, t) /\ Live(j, t)'
      BY <1>2, <1>8, <1>9, <2>2 DEF Live
    <3>2. QED
      BY <1>2, <1>3, <1>5, <1>6, <1>7, <1>8, <2>1, <2>2, <3>1, SwapCoherent
  <2>3. CASE ~Changing(k)
    BY <1>2, <1>3, <1>5, <1>6, <1>8, <1>9, <1>10, <2>1, <2>3, SwapCoherent
  <2>4. QED
    BY <2>2, <2>3
<1>12. /\ \A d \in Component : target'[d] # Missing
       /\ \A u \in Txn : Open(u)' => Complete(u)' /\ (Open(u) \/ u = t)
  BY <1>1, <1>3, <1>5, <1>7, <1>10, SwapComplete
<1>13. OrderInv(j)'
  BY <1>9, <1>11, <1>12 DEF OrderInv
<1>14. PICK i \in Task : i = Idle
  BY Resting
<1>15. OrderInv(i)'
  <2>1. Changing(j)' => plan'[j.txn] # NoPlan /\ \A u \in Txn : Open(u)' => u <= j.txn
    BY <1>3, <1>7, <1>8, <1>9, <1>12, Numbers
  <2>2. QED
    BY <1>13, <1>14, <2>1, Resting, EndsOrdered DEF InstallPc
<1>16. QED
  BY <1>3, <1>14, <1>15, CallThen

LEMMA StartRollbackOrdered ==
    ASSUME ~AnyOrder, Inv, OrderInv(Call), NEW p \in Proc, NEW t \in Txn, StartRollback(p, t)
    PROVE  OrderInv(Call)'
<1>1. /\ FilesInv /\ CallInv /\ At(p, "idle") /\ lock = Free /\ lock' = p
      /\ UNCHANGED <<target, plan, staged>> /\ \A u \in Txn : Open(u) => u <= t
      /\ task' = [task EXCEPT ![p].pc = "undo", ![p].txn = t, ![p].found = target]
  BY DEF StartRollback, Inv, TakeLock, Files
<1>2. PICK k \in Task : k = Call /\ OrderInv(k) /\ k.pc = "idle"
  BY <1>1, CallNow
<1> DEFINE n == [task[p] EXCEPT !.pc = "undo", !.txn = t, !.found = target]
<1>3. /\ n \in Task /\ n.pc = "undo" /\ n.txn = t /\ n.found = target
      /\ task' = [task EXCEPT ![p] = n]
  <2>1. task[p] \in Task /\ target \in [Component -> Bytes \cup {Missing}]
    BY <1>1, Known DEF FilesInv
  <2>2. n \in Task /\ n.pc = "undo" /\ n.txn = t /\ n.found = target
    BY <2>1 DEF Task, RollbackPc
  <2>3. QED
    BY <1>1, <2>2
<1> HIDE DEF n
<1>4. PICK j \in Task : j = n
  BY <1>3
<1>5. /\ ~Changing(j) /\ ~Changing(k) /\ j.pc # "undoRename"
      /\ \A c \in Component : ~Pending(j, c) /\ ~Pending(k, c)
  BY <1>2, <1>3, <1>4 DEF Changing, Pending, InstallPc
<1>6. \A c \in Component : j.found[c] # Missing
  BY <1>2, <1>3, <1>4 DEF OrderInv
<1>7. OrderInv(j)'
  BY <1>1, <1>2, <1>3, <1>4, <1>5, <1>6, StillOrdered
<1>8. QED
  BY <1>1, <1>3, <1>4, <1>7, CallThen

LEMMA UndoComponentOrdered ==
    ASSUME Inv, OrderInv(Call), NEW p \in Proc, UndoComponent(p)
    PROVE  OrderInv(Call)'
<1>1. /\ UNCHANGED <<target, plan, staged>> /\ ~At(p, "idle") /\ CallInv
      /\ task[p].pc = "undo" /\ task[p].at <= Count
  BY DEF UndoComponent, Files, At, Inv
<1>2. CASE Return(p)
  BY <1>1, <1>2, ReturnOrdered
<1>3. CASE ~Return(p)
  <2>1. PICK k \in Task : k = Call /\ k = task[p] /\ OrderInv(k) /\ k.pc = "undo" /\ lock = p
    BY <1>1, CallNow, Known
  <2>2. k.at \in Component
    BY <1>1, <2>1, Known, Numbers DEF Component
  <2>3. \A c \in Component : k.found[c] # Missing
    BY <2>1 DEF OrderInv, RollbackPc
  <2>4. PICK j \in Task : /\ lock' = lock /\ task' = [task EXCEPT ![p] = j]
                          /\ j.txn = k.txn /\ j.found = k.found
                          /\ j.pc \in {"undo", "undoExchange"}
    BY <1>3, <2>1, <2>2, <2>3, UndoComponentGoes
  <2>5. /\ ~Changing(j) /\ ~Changing(k)
        /\ \A c \in Component : ~Pending(j, c) /\ ~Pending(k, c)
    BY <2>1, <2>4 DEF Changing, Pending, InstallPc
  <2>6. OrderInv(j)'
    BY <1>1, <2>1, <2>4, <2>5, StillOrdered DEF OrderInv, RollbackPc
  <2>7. QED
    BY <1>1, <2>1, <2>4, <2>6, CallThen
<1>4. QED
  BY <1>2, <1>3

\* No component is missing, so that no plain rename is made.
LEMMA UndoRenameOrdered ==
    ASSUME Inv, OrderInv(Call), NEW p \in Proc
    PROVE  ~UndoRename(p)
<1>1. SUFFICES ASSUME At(p, "undoRename") PROVE FALSE
  BY DEF UndoRename
<1>2. Call.pc = "undoRename"
  BY <1>1, CallNow DEF Inv, At
<1>3. QED
  BY <1>2 DEF OrderInv, RollbackPc

LEMMA StopOrdered ==
    ASSUME Inv, OrderInv(Call), NEW p \in Proc, Stop(p)
    PROVE  OrderInv(Call)'
<1>1. ~At(p, "idle") /\ Return(p) /\ UNCHANGED <<target, plan>> /\ FilesInv /\ CallInv
  BY DEF Stop, Inv
<1>2. CASE UNCHANGED staged
  BY <1>1, <1>2, ReturnOrdered
<1>3. CASE ~UNCHANGED staged
  <2>1. PICK k \in Task : /\ k = Call /\ k = task[p] /\ OrderInv(k) /\ PcInv(k)
                          /\ k.pc = "stage"
    BY <1>1, <1>3, CallNow, Known DEF Stop, At
  <2>2. PICK t \in Txn, c \in Component : t = k.txn /\ c = k.at
    BY <1>1, <2>1, Known, Numbers DEF PcInv, Component
  <2>3. staged' = [staged EXCEPT ![t][c] = Torn]
    BY <1>3, <2>1, <2>2 DEF Stop, At
  <2>4. OrderInv(k)'
    BY <1>1, <2>1, <2>2, <2>3, StagingOrdered
  <2>5. plan'[t] # NoPlan /\ \A u \in Txn : Open(u)' => u <= t
    BY <1>1, <2>1, <2>2, Numbers DEF PcInv, InstallPc, Open
  <2>6. PICK i \in Task : i = Idle
    BY Resting
  <2>7. OrderInv(i)'
    BY <2>2, <2>4, <2>5, <2>6, Resting, EndsOrdered DEF InstallPc
  <2>8. QED
    BY <1>1, <2>6, <2>7, CallThen
<1>4. QED
  BY <1>2, <1>3

\* Another program writes over a component.
LEMMA OverwriteOrdered ==
    ASSUME Inv, OrderInv(Call), NEW c \in Component, NEW f \in Foreign, Overwrite(c, f)
    PROVE  OrderInv(Call)'
<1>1. PICK k \in Task : k = Call /\ OrderInv(k)
  BY Resting DEF Call, Inv, CallInv
<1>2. UNCHANGED <<plan, staged, lock, task>> /\ Call' = k
  BY <1>1 DEF Overwrite, Outside, Call
<1>3. target'[c] = f /\ \A d \in Component \ {c} : target'[d] = target[d]
  BY DEF Overwrite, Inv, FilesInv
<1>4. \A t \in Txn : /\ Open(t)' <=> Open(t)
                     /\ Complete(t)' <=> Complete(t)
                     /\ Live(k, t)' <=> Live(k, t)
                     /\ \A d \in Component : /\ Left(t, d)' = Left(t, d)
                                             /\ Stray(t, d)' <=> Stray(t, d)
                                             /\ Before(t, d)' = Before(t, d)
  BY <1>2 DEF Open, Holds, Complete, Live, Changing, Left, Stray, Before, After
<1>5. (Changing(k)' <=> Changing(k)) /\ \A d \in Component : Pending(k, d)' <=> Pending(k, d)
  BY <1>2 DEF Changing, Pending, Stray, Before, After
<1>6. ASSUME NEW d \in Component PROVE Coherent(k, d)'
  <2>1. CASE d # c
    BY <1>1, <1>2, <1>3, <1>4, <1>5, <2>1, CoherentStays DEF OrderInv
  <2>2. CASE d = c
    <3>1. Coherent(k, c)
      BY <1>1 DEF OrderInv
    <3>2. Lost(k, c) => Lost(k, c)'
      BY <1>4, <1>5 DEF Lost
    <3>3. Chained(k, c) => Chained(k, c)'
      BY <1>4 DEF Chained, Preceding, Agrees
    <3>4. Settled(k, c)'
      BY <1>3 DEF Settled, Agrees
    <3>5. QED
      BY <2>2, <3>1, <3>2, <3>3, <3>4 DEF Coherent
  <2>3. QED
    BY <2>1, <2>2
<1>7. \A d \in Component : target'[d] # Missing
  BY <1>1, <1>3, ExtraAssumption DEF OrderInv
<1>8. OrderInv(k)'
  BY <1>1, <1>4, <1>5, <1>6, <1>7 DEF OrderInv, Task
<1>9. QED
  BY <1>2, <1>8

Ordered == "remove" \in outsider \/ OrderInv(Call)

LEMMA InitOrdered == Init => Ordered
<1> SUFFICES ASSUME Init PROVE Ordered
  OBVIOUS
<1>1. PICK k \in Task : k = Call /\ k.pc = "idle"
  BY Resting DEF Init, Call
<1>2. \A t \in Txn : ~Live(k, t) /\ ~Open(t)
  BY <1>1 DEF Init, Open, Live, Changing, InstallPc
<1>3. \A c \in Component : Coherent(k, c)
  BY <1>2 DEF Coherent, Chained, Settled, Newest
<1>4. \A c \in Component : target[c] # Missing
  BY ExtraAssumption DEF Init
<1>5. QED
  BY <1>1, <1>2, <1>3, <1>4 DEF Ordered, OrderInv, RollbackPc

\* What other programs do is settled at first.
LEMMA OutsiderStays == ASSUME [Next]_vars PROVE outsider' = outsider
<1>1. ASSUME NEW p \in Proc, Install(p) PROVE outsider' = outsider
  BY <1>1 DEF Install, StartInstall, WriteJournal, WriteBackup, WriteStaged, Check, World
<1>2. ASSUME NEW p \in Proc, RollBack(p) PROVE outsider' = outsider
  BY <1>2 DEF RollBack, StartRollback, UndoComponent, UndoRename, FinishRollback, World
<1>3. ASSUME NEW p \in Proc, Exchange(p) \/ Verify(p) \/ Reverse(p) \/ Stop(p)
      PROVE  outsider' = outsider
  BY <1>3 DEF Exchange, Verify, Reverse, Stop, World
<1>4. ASSUME NEW c \in Component, Remove(c) \/ \E f \in Foreign : Overwrite(c, f)
      PROVE  outsider' = outsider
  BY <1>4 DEF Remove, Overwrite, Outside
<1>5. QED
  BY <1>1, <1>2, <1>3, <1>4 DEF Next, vars

\* Every step keeps the order, if the newest installation is rolled back first.
LEMMA NextOrdered == ASSUME ~AnyOrder, Inv, Ordered, [Next]_vars PROVE Ordered'
<1>1. CASE "remove" \in outsider
  <2>1. outsider' = outsider
    BY OutsiderStays
  <2>2. QED
    BY <1>1, <2>1 DEF Ordered
<1>2. CASE "remove" \notin outsider /\ OrderInv(Call)
  <2>1. ASSUME NEW p \in Proc, Install(p) PROVE OrderInv(Call)'
    BY <1>2, <2>1, StartInstallOrdered, WriteOrdered, WriteStagedOrdered, CheckOrdered
       DEF Install
  <2>2. ASSUME NEW p \in Proc, FinishRollback(p) PROVE OrderInv(Call)'
    BY <1>2, <2>2, ReturnOrdered DEF FinishRollback, Files, At
  <2>3. ASSUME NEW p \in Proc, RollBack(p) PROVE OrderInv(Call)'
    BY <1>2, <2>2, <2>3, StartRollbackOrdered, UndoComponentOrdered, UndoRenameOrdered
       DEF RollBack
  <2>4. ASSUME NEW c \in Component, NEW f \in Foreign, Overwrite(c, f) PROVE OrderInv(Call)'
    BY <1>2, <2>4, OverwriteOrdered
  <2>5. \A c \in Component : ~Remove(c)
    BY <1>2 DEF Remove
  <2>6. ASSUME UNCHANGED vars PROVE OrderInv(Call)'
    <3>1. PICK k \in Task : k = Call /\ OrderInv(k)
      BY <1>2, Resting DEF Call, Inv, CallInv
    <3>2. Call' = k /\ UNCHANGED <<target, plan, staged>>
      BY <2>6, <3>1 DEF vars, Call
    <3>3. OrderInv(k)'
      BY <3>1, <3>2, StillOrdered DEF OrderInv
    <3>4. QED
      BY <3>2, <3>3
  <2>7. OrderInv(Call)'
    BY <1>2, <2>1, <2>3, <2>4, <2>5, <2>6, ExchangeOrdered, VerifyOrdered, ReverseOrdered,
       StopOrdered DEF Next
  <2>8. QED
    BY <2>7 DEF Ordered
<1>3. QED
  BY <1>1, <1>2 DEF Ordered

\* In order, the newest installation that holds anything has what a roll-back
\* asks for.
LEMMA OrderedRollsBack ==
    ASSUME Inv, OrderInv(Call), NEW t \in Txn, Open(t), \A u \in Txn : Open(u) => u <= t,
           Undisturbed(t), \A p \in Proc : At(p, "idle")
    PROVE  /\ ValidJournal(t)
           /\ \A c \in Component :
                  /\ Restorable(t, c)
                  /\ target[c] = After(t, c) => staged[t][c] = Before(t, c)
<1>1. PICK k \in Task : k = Call /\ OrderInv(k) /\ k.pc = "idle"
  BY Resting DEF Call, Inv, CallInv, At
<1>2. ~Changing(k) /\ \A c \in Component : ~Pending(k, c)
  BY <1>1 DEF Changing, Pending, InstallPc
<1>3. Newest(k, t)
  BY <1>2 DEF Newest, Live
<1>4. FilesInv /\ plan[t] # NoPlan
  BY DEF Inv, Open
<1>5. BackedUp(t)
  <2>1. ~Unstaged(t)
    BY <1>4, Planned DEF Open, Holds, Unstaged
  <2>2. QED
    BY <1>4, <2>1 DEF FilesInv, TxnInv
<1>6. ASSUME NEW c \in Component
      PROVE  Restorable(t, c) /\ (target[c] = After(t, c) => staged[t][c] = Before(t, c))
  <2>1. target[c] \in {Before(t, c), After(t, c)} /\ After(t, c) \notin Foreign
    BY <1>4, Planned, ExtraAssumption DEF Undisturbed
  <2>2. staged[t][c] \in {Before(t, c), After(t, c)}
    BY <1>1 DEF OrderInv, Complete, Undisturbed
  <2>3. ~Lost(k, c)
    <3>1. ASSUME NEW u \in Txn, Stray(u, c) PROVE FALSE
      <4>1. After(u, c) \notin Foreign /\ {Missing, Torn} \cap Foreign = {}
        BY <1>4, <3>1, Planned, ExtraAssumption DEF Stray
      <4>2. QED
        BY <3>1, <4>1 DEF Stray, Undisturbed
    <3>2. QED
      BY <3>1 DEF Lost
  <2>4. Agrees(t, c, target[c])
    BY <1>1, <1>2, <1>3, <2>3 DEF OrderInv, Coherent, Settled
  <2>5. target[c] = After(t, c) => staged[t][c] = Before(t, c)
    BY <2>1, <2>2, <2>4 DEF Agrees, Left
  <2>6. Restorable(t, c)
    BY <1>5, <2>1 DEF Restorable, BackedUp
  <2>7. QED
    BY <2>5, <2>6
<1>7. QED
  BY <1>5, <1>6 DEF BackedUp, ValidJournal

\* The transactions are in order, whatever stops and whatever is written over.
THEOREM Order == ASSUME ~AnyOrder PROVE Spec => [](Inv /\ Ordered)
<1>1. Init => Inv /\ Ordered
  BY InitInv, InitOrdered
<1>2. ASSUME Inv /\ Ordered, [Next]_vars PROVE (Inv /\ Ordered)'
  BY <1>2, NextInv, NextOrdered
<1>3. QED
  BY <1>1, <1>2, PTL DEF Spec

\* While nothing is removed and the newest installation is rolled back first,
\* the newest one that has changed a component can be rolled back, wherever it,
\* a later one that failed, or an earlier roll-back of it was stopped.
THEOREM RollsBack == ASSUME ~AnyOrder PROVE Spec => []MixtureRollsBack
<1>1. Inv /\ Ordered => MixtureRollsBack
  <2> SUFFICES ASSUME Inv, Ordered, "remove" \notin outsider, NEW t \in Txn,
                      Open(t), \A u \in Txn : Open(u) => u <= t,
                      Undisturbed(t), \A p \in Proc : At(p, "idle")
               PROVE  /\ ValidJournal(t)
                      /\ \A c \in Component :
                             /\ Restorable(t, c)
                             /\ target[c] = After(t, c) => staged[t][c] = Before(t, c)
    BY DEF MixtureRollsBack
  <2>1. OrderInv(Call)
    BY DEF Ordered
  <2>2. QED
    BY <2>1, OrderedRollsBack
<1>2. QED
  BY <1>1, Order, PTL

(***************************************************************************)
(* The refinement of GroupInstall, while no other program interferes       *)
(***************************************************************************)
\* No bytes are there but the converter's.
Clean == /\ target \in [Component -> Own]
         /\ \A t \in Txn : plan[t] # NoPlan =>
                \A c \in Component : staged[t][c] \notin Foreign /\ Before(t, c) \in Own

\* t is through: it has left all that it was to install.
Full(t) == \A c \in Component : Left(t, c) = After(t, c)

\* The group is as the last transaction to change it has left it; of those that
\* hold anything, only that one may be half-way.
LastInv ==
    /\ last # 0 => plan[last] # NoPlan /\ \A c \in Component : target[c] = Left(last, c)
    /\ \A t \in Txn : Open(t) => t <= last /\ (Full(t) \/ last = t)

\* What an installation k was asked for over, and what an exchange will find.
GroupCall(k) ==
    /\ k.pc \in InstallPc =>
           /\ last = k.txn \/ (~Mixed(last) /\ target = plan[k.txn].before)
           /\ \A t \in Txn : Open(t) => t = k.txn \/ Full(t)
    /\ k.pc = "exchange" =>
           /\ \A d \in 1..(k.at - 1) : target[d] = After(k.txn, d)
           /\ \A d \in (k.at)..Count : target[d] = Before(k.txn, d)
    /\ k.pc = "undoExchange" => target[k.at] = After(k.txn, k.at)

GroupInv(k) == Clean /\ LastInv /\ GroupCall(k)

\* A step of the abstract specification.
GroupStep == G!Next \/ UNCHANGED <<Recoverable, plan>>

\* What the newest transaction to hold anything has left is in place.
LEMMA NewestLeft ==
    ASSUME FilesInv, Clean, NEW k \in Task, OrderInv(k), NEW t \in Txn, Newest(k, t),
           k.pc # "idle" => plan[k.txn] # NoPlan
    PROVE  \A c \in Component : target[c] = Left(t, c)
<1>1. SUFFICES ASSUME NEW c \in Component PROVE target[c] = Left(t, c)
  OBVIOUS
<1>2. \A u \in Txn : ~Stray(u, c)
  BY DEF Clean, Stray
<1>3. ~Lost(k, c) /\ ~Pending(k, c)
  BY <1>2 DEF Lost, Pending, Task
<1>4. Agrees(t, c, target[c])
  BY <1>3 DEF OrderInv, Coherent, Settled
<1>5. target[c] \notin Foreign
  BY ExtraAssumption DEF Clean
<1>6. QED
  BY <1>4, <1>5 DEF Agrees

\* A step that leaves the components, and what each transaction holds.
LEMMA GroupStays ==
    ASSUME Inv, UNCHANGED <<target, plan, last>>, NEW k \in Task, NEW j \in Task, GroupInv(k),
           \A t \in Txn : Open(t)' <=> Open(t),
           \A t \in Txn, c \in Component :
               Left(t, c)' = Left(t, c) /\ (plan[t] # NoPlan => staged'[t][c] \notin Foreign),
           j.pc \in InstallPc => k.pc \in InstallPc /\ j.txn = k.txn,
           j.pc = "exchange" =>
               /\ \A d \in 1..(j.at - 1) : target[d] = After(j.txn, d)
               /\ \A d \in (j.at)..Count : target[d] = Before(j.txn, d),
           j.pc = "undoExchange" => target[j.at] = After(j.txn, j.at)
    PROVE  GroupInv(j)' /\ UNCHANGED <<Recoverable, plan>>
<1>1. \A t \in Txn : Full(t)' <=> Full(t)
  BY DEF Full, After
<1>2. (Mixed(last)' <=> Mixed(last)) /\ UNCHANGED Recoverable
  BY DEF Mixed, Recoverable, Before, After
<1>3. Clean'
  BY DEF GroupInv, Clean, Before
<1>4. LastInv'
  <2>1. last \in Txn \cup {0}
    BY DEF Inv, FilesInv
  <2>2. last # 0 => \A c \in Component : Left(last, c)' = Left(last, c)
    BY <2>1
  <2>3. QED
    BY <1>1, <2>2 DEF GroupInv, LastInv
<1>5. GroupCall(j)'
  BY <1>1, <1>2 DEF GroupInv, GroupCall, Before, After
<1>6. QED
  BY <1>2, <1>3, <1>4, <1>5 DEF GroupInv

\* The files stay, and the call goes on, or ends.
LEMMA CallStays ==
    ASSUME Inv, UNCHANGED <<target, plan, last, staged>>, GroupInv(Call),
           NEW j \in Task, Call' = j,
           j.pc \in InstallPc => Call.pc \in InstallPc /\ j.txn = Call.txn,
           j.pc = "exchange" =>
               /\ \A d \in 1..(j.at - 1) : target[d] = After(j.txn, d)
               /\ \A d \in (j.at)..Count : target[d] = Before(j.txn, d),
           j.pc = "undoExchange" => target[j.at] = After(j.txn, j.at)
    PROVE  GroupInv(Call)' /\ UNCHANGED <<Recoverable, plan>>
<1>1. PICK k \in Task : k = Call /\ GroupInv(k)
  BY Resting DEF Call, Inv, CallInv
<1>2. /\ \A t \in Txn : Open(t)' <=> Open(t)
      /\ \A t \in Txn, c \in Component :
             Left(t, c)' = Left(t, c) /\ (plan[t] # NoPlan => staged'[t][c] \notin Foreign)
  BY <1>1 DEF Open, Holds, Left, Before, After, GroupInv, Clean
<1>3. GroupInv(j)' /\ UNCHANGED <<Recoverable, plan>>
  BY <1>1, <1>2, GroupStays
<1>4. QED
  BY <1>3

\* A call that ends and leaves the files.
LEMMA ReturnGroup ==
    ASSUME Inv, GroupInv(Call), NEW p \in Proc, Return(p),
           UNCHANGED <<target, plan, last, staged>>
    PROVE  GroupInv(Call)' /\ UNCHANGED <<Recoverable, plan>>
<1>1. PICK j \in Task : j = Idle
  BY Resting
<1>2. Call' = j /\ j.pc = "idle"
  BY <1>1, Resting, CallBecomes DEF Inv
<1>3. QED
  BY <1>2, CallStays DEF InstallPc

LEMMA WriteGroup ==
    ASSUME Inv, GroupInv(Call), NEW p \in Proc, WriteJournal(p) \/ WriteBackup(p)
    PROVE  GroupInv(Call)' /\ GroupStep
<1>1. /\ Call = task[p] /\ Call.pc \in {"journal", "backups"} /\ lock' = p
      /\ UNCHANGED <<target, plan, last, staged>> /\ CallInv /\ task[p].at <= Count
  BY CallNow, Known DEF Inv, WriteJournal, WriteBackup, At, PcInv
<1>2. PICK j \in Task : /\ task' = [task EXCEPT ![p] = j] /\ j.txn = Call.txn
                        /\ j.pc \in {"backups", "stage"}
  <2>1. "backups" \in Pc /\ "stage" \in Pc
    BY DEF Pc, InstallPc
  <2>2. CASE WriteJournal(p)
    BY <1>1, <2>1, <2>2, Goes DEF WriteJournal
  <2>3. CASE WriteBackup(p)
    BY <1>1, <2>1, <2>3, Advances DEF WriteBackup, At
  <2>4. QED
    BY <2>2, <2>3
<1>3. Call' = j
  BY <1>1, <1>2, CallBecomes
<1>4. QED
  BY <1>1, <1>2, <1>3, CallStays DEF GroupStep, InstallPc

\* A file is staged, or its writer is stopped.
LEMMA StagingGroup ==
    ASSUME Inv, NEW k \in Task, k.pc = "stage", PcInv(k), GroupInv(k), NEW j \in Task,
           j.pc \in {"idle", "stage", "check"}, j.txn = k.txn \/ j.pc = "idle",
           NEW t \in Txn, t = k.txn, NEW c \in Component, c = k.at,
           UNCHANGED <<target, plan, last>>,
           staged' = [staged EXCEPT ![t][c] = After(t, c)]
               \/ staged' = [staged EXCEPT ![t][c] = Torn]
    PROVE  GroupInv(j)' /\ GroupStep
<1>1. /\ \A u \in Txn : Open(u)' <=> Open(u)
      /\ \A u \in Txn, d \in Component : Left(u, d)' = Left(u, d)
      /\ \A u \in Txn, d \in Component :
             staged'[u][d] \in {staged[u][d], Torn} \/ (u = t /\ staged'[u][d] = After(t, d))
      /\ plan[t] # NoPlan
  BY Staging DEF Inv
<1>2. \A u \in Txn, d \in Component : plan[u] # NoPlan => staged'[u][d] \notin Foreign
  BY <1>1, Planned, ExtraAssumption DEF GroupInv, Clean, Inv
<1>3. QED
  BY <1>1, <1>2, GroupStays DEF GroupStep, InstallPc

LEMMA WriteStagedGroup ==
    ASSUME Inv, GroupInv(Call), NEW p \in Proc, WriteStaged(p)
    PROVE  GroupInv(Call)' /\ GroupStep
<1>1. PICK k \in Task : /\ k = Call /\ k = task[p] /\ GroupInv(k) /\ PcInv(k)
                        /\ k.pc = "stage" /\ lock = p
  BY CallNow, Known DEF Inv, WriteStaged, At
<1>2. PICK t \in Txn, c \in Component : t = k.txn /\ c = k.at
  BY <1>1, Known, Numbers DEF Inv, PcInv, Component
<1>3. /\ UNCHANGED <<target, plan, last>> /\ lock' = p /\ Advance(p, "check")
      /\ staged' = [staged EXCEPT ![t][c] = After(t, c)] /\ CallInv
  BY <1>1, <1>2 DEF WriteStaged, Inv
<1>4. PICK j \in Task : /\ task' = [task EXCEPT ![p] = j] /\ j.txn = t
                        /\ j.pc \in {"stage", "check"}
  <2>1. "check" \in Pc /\ task[p].at <= Count
    BY <1>1 DEF Pc, InstallPc, PcInv
  <2>2. QED
    BY <1>1, <1>2, <1>3, <2>1, Advances
<1>5. GroupInv(j)' /\ GroupStep
  BY <1>1, <1>2, <1>3, <1>4, StagingGroup
<1>6. Call' = j
  BY <1>3, <1>4, CallBecomes
<1>7. QED
  BY <1>5, <1>6

LEMMA CheckGroup ==
    ASSUME Inv, GroupInv(Call), NEW p \in Proc, Check(p)
    PROVE  GroupInv(Call)' /\ GroupStep
<1>1. /\ UNCHANGED <<target, plan, last, staged>> /\ CallInv /\ ~At(p, "idle")
      /\ task[p].pc = "check"
  BY DEF Check, Files, At, Inv
<1>2. CASE Return(p)
  BY <1>1, <1>2, ReturnGroup DEF GroupStep
<1>3. CASE ~Return(p)
  <2>1. PICK k \in Task : k = Call /\ k = task[p] /\ lock = p /\ k.pc = "check"
    BY <1>1, CallNow, Known
  <2>2. /\ \A c \in 1..(k.at - 1) : target[c] = After(k.txn, c)
        /\ \A c \in (k.at)..Count : target[c] = Before(k.txn, c)
        /\ Goto(p, "exchange") /\ lock' = p
    BY <1>3, <2>1 DEF Check
  <2>3. "exchange" \in Pc
    BY DEF Pc, InstallPc
  <2>4. PICK j \in Task : /\ task' = [task EXCEPT ![p] = j] /\ j.pc = "exchange"
                          /\ j.txn = k.txn /\ j.at = k.at
    BY <1>1, <2>1, <2>2, <2>3, Goes
  <2>5. Call' = j
    BY <1>1, <2>2, <2>4, CallBecomes
  <2>6. QED
    BY <1>1, <2>1, <2>2, <2>4, <2>5, CallStays DEF GroupStep, InstallPc
<1>4. QED
  BY <1>2, <1>3

LEMMA VerifyGroup ==
    ASSUME Inv, GroupInv(Call), NEW p \in Proc, Verify(p)
    PROVE  GroupInv(Call)' /\ GroupStep
<1>1. /\ UNCHANGED <<target, plan, last, staged>> /\ CallInv /\ ~At(p, "idle")
      /\ task[p].pc \in {"verify", "undoVerify"} /\ task[p].at <= Count
  BY Known DEF Verify, Files, At, Inv, PcInv
<1>2. CASE Return(p)
  BY <1>1, <1>2, ReturnGroup DEF GroupStep
<1>3. CASE ~Return(p)
  <2>1. PICK k \in Task : k = Call /\ k = task[p] /\ lock = p
    BY <1>1, CallNow, Known
  <2>2. PICK x \in Pc : /\ lock' = p
                        /\ Goto(p, x) \/ GotoNext(p, x)
                        /\ \/ k.pc = "verify" /\ x \in {"check", "reverse"}
                           \/ k.pc = "undoVerify" /\ x \in {"undo", "undoReverse"}
    <3>1. {"check", "reverse", "undo", "undoReverse"} \subseteq Pc
      BY DEF Pc, InstallPc, RollbackPc
    <3>2. CASE k.pc = "verify"
      <4>1. \/ GotoNext(p, "check") /\ lock' = lock
            \/ Goto(p, "reverse") /\ lock' = lock
        BY <1>3, <2>1, <3>2 DEF Verify, At
      <4>2. QED
        BY <2>1, <3>1, <3>2, <4>1
    <3>3. CASE k.pc = "undoVerify"
      <4>1. \/ GotoNext(p, "undo") /\ lock' = lock
            \/ Goto(p, "undoReverse") /\ lock' = lock
        BY <1>3, <2>1, <3>3 DEF Verify, At
      <4>2. QED
        BY <2>1, <3>1, <3>3, <4>1
    <3>4. QED
      BY <1>1, <2>1, <3>2, <3>3
  <2>3. PICK j \in Task : task' = [task EXCEPT ![p] = j] /\ j.pc = x /\ j.txn = k.txn
    BY <1>1, <2>1, <2>2, Goes, GoesNext
  <2>4. Call' = j
    BY <1>1, <2>2, <2>3, CallBecomes
  <2>5. QED
    BY <1>1, <2>1, <2>2, <2>3, <2>4, CallStays DEF GroupStep, InstallPc
<1>4. QED
  BY <1>2, <1>3

\* Moving another program's bytes back: there are none.
LEMMA ReverseGroup ==
    ASSUME Inv, GroupInv(Call), NEW p \in Proc
    PROVE  ~Reverse(p)
<1>1. SUFFICES ASSUME Reverse(p) PROVE FALSE
  OBVIOUS
<1>2. /\ CallInv /\ task[p].pc \in {"reverse", "undoReverse"} /\ task[p].txn \in Txn
      /\ PcInv(task[p])
  BY <1>1, Known DEF Inv, Reverse
<1>3. PICK t \in Txn, c \in Component : t = task[p].txn /\ c = task[p].at
  BY <1>2, Known, Numbers DEF PcInv, Component
<1>4. plan[t] # NoPlan /\ staged[t][c] \in Foreign
  BY <1>2, <1>3 DEF PcInv, Exchanged
<1>5. QED
  BY <1>4 DEF GroupInv, Clean

LEMMA RollBackGroup ==
    ASSUME Inv, OrderInv(Call), GroupInv(Call), NEW p \in Proc, RollBack(p)
    PROVE  GroupInv(Call)' /\ GroupStep
<1>1. CallInv /\ ~UndoRename(p)
  BY UndoRenameOrdered DEF Inv
<1>2. ASSUME NEW t \in Txn, StartRollback(p, t) PROVE GroupInv(Call)' /\ GroupStep
  <2>1. /\ UNCHANGED <<target, plan, last, staged>> /\ lock' = p
        /\ task' = [task EXCEPT ![p].pc = "undo", ![p].txn = t, ![p].found = target]
        /\ task[p] \in Task /\ target \in [Component -> Bytes \cup {Missing}]
    BY <1>1, <1>2, Known DEF StartRollback, TakeLock, Files, Inv, FilesInv
  <2> DEFINE n == [task[p] EXCEPT !.pc = "undo", !.txn = t, !.found = target]
  <2>2. n \in Task /\ n.pc = "undo" /\ task' = [task EXCEPT ![p] = n]
    BY <2>1 DEF Task, RollbackPc
  <2> HIDE DEF n
  <2>3. PICK j \in Task : j = n
    BY <2>2
  <2>4. Call' = j
    BY <1>1, <2>1, <2>2, <2>3, CallBecomes
  <2>5. QED
    BY <2>1, <2>2, <2>3, <2>4, CallStays DEF GroupStep, InstallPc
<1>3. ASSUME UndoComponent(p) \/ FinishRollback(p) PROVE GroupInv(Call)' /\ GroupStep
  <2>1. UNCHANGED <<target, plan, last, staged>> /\ ~At(p, "idle") /\ task[p].pc = "undo"
    BY <1>3 DEF UndoComponent, FinishRollback, Files, At
  <2>2. CASE Return(p)
    BY <2>1, <2>2, ReturnGroup DEF GroupStep
  <2>3. CASE ~Return(p)
    <3>1. PICK k \in Task : k = Call /\ k = task[p] /\ lock = p
      BY <1>1, <2>1, CallNow, Known
    <3>2. PICK j \in Task :
              /\ lock' = p /\ task' = [task EXCEPT ![p] = j]
              /\ j.pc \in {"undo", "undoExchange", "undoRename"}
              /\ j.pc = "undoExchange" => target[j.at] = After(j.txn, j.at)
      BY <1>3, <2>3, <3>1, UndoComponentGoes DEF FinishRollback
    <3>3. Call' = j
      BY <1>1, <3>2, CallBecomes
    <3>4. QED
      BY <2>1, <3>2, <3>3, CallStays DEF GroupStep, InstallPc
  <2>4. QED
    BY <2>2, <2>3
<1>4. QED
  BY <1>1, <1>2, <1>3 DEF RollBack

LEMMA StopGroup ==
    ASSUME Inv, GroupInv(Call), NEW p \in Proc, Stop(p)
    PROVE  GroupInv(Call)' /\ GroupStep
<1>1. ~At(p, "idle") /\ Return(p) /\ UNCHANGED <<target, plan, last>> /\ CallInv
  BY DEF Stop, Inv
<1>2. CASE UNCHANGED staged
  BY <1>1, <1>2, ReturnGroup DEF GroupStep
<1>3. CASE ~UNCHANGED staged
  <2>1. PICK k \in Task : /\ k = Call /\ k = task[p] /\ GroupInv(k) /\ PcInv(k)
                          /\ k.pc = "stage"
    BY <1>1, <1>3, CallNow, Known DEF Stop, At
  <2>2. PICK t \in Txn, c \in Component : t = k.txn /\ c = k.at
    BY <1>1, <2>1, Known, Numbers DEF PcInv, Component
  <2>3. staged' = [staged EXCEPT ![t][c] = Torn]
    BY <1>3, <2>1, <2>2 DEF Stop, At
  <2>4. PICK j \in Task : j = Idle /\ j.pc = "idle"
    BY Resting
  <2>5. GroupInv(j)' /\ GroupStep
    BY <1>1, <2>1, <2>2, <2>3, <2>4, StagingGroup
  <2>6. Call' = j
    BY <1>1, <2>4, CallBecomes
  <2>7. QED
    BY <2>5, <2>6
<1>4. QED
  BY <1>2, <1>3

\* The last transaction, if it is through or holds nothing, is no mixture.
LEMMA NotMixed ==
    ASSUME FilesInv, LastInv, ~Open(last) \/ Full(last)
    PROVE  ~Mixed(last)
<1>1. SUFFICES ASSUME last # 0 PROVE ~Mixed(last)
  BY DEF Mixed
<1>2. /\ last \in Txn /\ plan[last] # NoPlan
      /\ \A c \in Component : target[c] = Left(last, c)
  BY <1>1 DEF FilesInv, LastInv
<1>3. CASE Full(last)
  BY <1>2, <1>3 DEF Full, Mixed
<1>4. CASE ~Open(last)
  <2>1. \A c \in Component : Left(last, c) = Before(last, c)
    BY <1>2, <1>4 DEF Open, Holds, Left
  <2>2. QED
    BY <1>2, <2>1 DEF Mixed
<1>5. QED
  BY <1>3, <1>4

LEMMA StartInstallGroup ==
    ASSUME Inv, GroupInv(Call), NEW p \in Proc, NEW t \in Txn,
           NEW after \in [Component -> Own], StartInstall(p, t, after)
    PROVE  GroupInv(Call)' /\ GroupStep
<1>1. /\ ~Mixed(last) /\ plan[t] = NoPlan /\ lock' = p
      /\ plan' = [plan EXCEPT ![t] = [before |-> target, after |-> after]]
      /\ UNCHANGED <<target, staged, last>> /\ FilesInv /\ CallInv
      /\ \A c \in Component : target[c] # Missing /\ staged[t][c] = Missing
      /\ task' = [task EXCEPT ![p].pc = "journal", ![p].txn = t]
      /\ Clean /\ LastInv
  BY DEF StartInstall, Inv, FilesInv, TxnInv, Unstaged, TakeLock, GroupInv
<1>2. /\ \A u \in Txn \ {t} : plan'[u] = plan[u]
      /\ plan'[t] = [before |-> target, after |-> after] /\ plan'[t] # NoPlan
      /\ target \in [Component -> Own] /\ last # t
  <2>1. plan'[t] = [before |-> target, after |-> after]
    BY <1>1 DEF FilesInv
  <2>2. [before |-> target, after |-> after] \in Plan /\ target \in [Component -> Own]
    <3>1. target \in [Component -> Bytes] /\ target \in [Component -> Own]
      BY <1>1 DEF Clean, Bytes
    <3>2. QED
      BY <3>1 DEF Plan
  <2>3. last # t
    BY <1>1, Numbers DEF LastInv
  <2>4. QED
    BY <1>1, <2>1, <2>2, <2>3, ExtraAssumption DEF FilesInv
<1>3. \A u \in Txn \ {t} :
          /\ \A c \in Component : /\ Left(u, c)' = Left(u, c) /\ Before(u, c)' = Before(u, c)
                                  /\ After(u, c)' = After(u, c)
          /\ Open(u)' <=> Open(u)
          /\ Full(u)' <=> Full(u)
          /\ Mixed(u)' <=> Mixed(u)
  BY <1>1, <1>2 DEF Left, Open, Holds, Full, Mixed, Before, After
<1>4. ~Open(t)' /\ ~Mixed(last)' /\ last \in Txn \cup {0}
  <2>1. ~Open(t)'
    BY <1>1, <1>2 DEF Open, Holds, Before
  <2>2. last \in Txn \cup {0}
    BY <1>1 DEF FilesInv
  <2>3. CASE last = 0
    BY <1>1, <2>1, <2>2, <2>3 DEF Mixed
  <2>4. CASE last # 0
    BY <1>1, <1>2, <1>3, <2>1, <2>2, <2>4
  <2>5. QED
    BY <2>3, <2>4
<1>5. Clean'
  BY <1>1, <1>2, ExtraAssumption DEF Clean, Before
<1>6. LastInv'
  BY <1>1, <1>2, <1>3, <1>4 DEF LastInv
<1>7. \A u \in Txn : Open(u) => Full(u)
  <2>1. ASSUME NEW u \in Txn, Open(u), last = u PROVE Full(u)
    <3>1. /\ \A c \in Component : target[c] = Left(u, c)
          /\ \A c \in Component : target[c] \in {Before(u, c), After(u, c)}
      <4>1. last # 0
        BY <2>1, Numbers
      <4>2. \A c \in Component : target[c] = Left(u, c)
        BY <1>1, <2>1, <4>1 DEF LastInv
      <4>3. QED
        BY <4>2 DEF Left
    <3>2. PICK d \in Component : target[d] # Before(u, d)
      BY <2>1, <3>1 DEF Open, Holds, Left
    <3>3. \A c \in Component : target[c] = After(u, c)
      BY <1>1, <2>1, <3>1, <3>2, Numbers DEF Mixed
    <3>4. QED
      BY <3>1, <3>3 DEF Full
  <2>2. QED
    BY <1>1, <2>1 DEF LastInv
<1> DEFINE n == [task[p] EXCEPT !.pc = "journal", !.txn = t]
<1>8. n \in Task /\ n.pc = "journal" /\ n.txn = t /\ task' = [task EXCEPT ![p] = n]
  BY <1>1, Known DEF Task, InstallPc
<1> HIDE DEF n
<1>9. PICK j \in Task : j = n
  BY <1>8
<1>10. Call' = j
  BY <1>1, <1>8, <1>9, CallBecomes
<1>11. GroupCall(j)'
  <2>1. target' = plan'[t].before
    BY <1>1, <1>2
  <2>2. \A u \in Txn : Open(u)' => Full(u)'
    BY <1>3, <1>4, <1>7
  <2>3. QED
    BY <1>4, <1>8, <1>9, <2>1, <2>2 DEF GroupCall
<1>12. G!Ask(t, after)
  <2>1. Recoverable = target /\ Recoverable' = target
    BY <1>1, <1>4 DEF Recoverable
  <2>2. QED
    BY <1>1, <2>1 DEF G!Ask
<1>13. QED
  BY <1>5, <1>6, <1>10, <1>11, <1>12 DEF GroupInv, GroupStep, G!Next

\* The exchange of an installation takes effect with the last component.
LEMMA ExchangeGroup ==
    ASSUME Inv, OrderInv(Call), GroupInv(Call), NEW p \in Proc, Exchange(p)
    PROVE  GroupInv(Call)' /\ GroupStep
<1>1. PICK k \in Task : /\ k = Call /\ k = task[p] /\ OrderInv(k) /\ GroupInv(k) /\ PcInv(k)
                        /\ lock = p /\ k.pc \in {"exchange", "undoExchange"}
  BY CallNow, Known DEF Inv, Exchange, At
<1>2. PICK t \in Txn, c \in Component : t = k.txn /\ c = k.at
  BY <1>1, Known, Numbers DEF Inv, PcInv, Component
<1>3. /\ FilesInv /\ CallInv /\ SwapNames(t, c) /\ plan[t] # NoPlan /\ lock' = p
      /\ UNCHANGED <<plan, journal, backup, owed, outsider>> /\ last' \in Txn \cup {0}
      /\ last' = IF target' = target THEN last ELSE t
      /\ Goto(p, IF k.pc = "exchange" THEN "verify" ELSE "undoVerify")
      /\ Clean /\ LastInv /\ GroupCall(k)
  BY <1>1, <1>2 DEF Exchange, Inv, FilesInv, PcInv, World, At, GroupInv
<1>4. IF k.pc = "exchange"
      THEN staged[t][c] = After(t, c) /\ target[c] = Before(t, c)
      ELSE staged[t][c] = Before(t, c) /\ target[c] = After(t, c)
  <2>1. c \in (k.at)..Count
    BY <1>2, Numbers DEF Component
  <2>2. QED
    BY <1>1, <1>2, <1>3, <2>1 DEF PcInv, Unswapped, GroupCall
<1>5. /\ target'[c] = staged[t][c] /\ staged'[t][c] = target[c] /\ FilesInv'
      /\ \A d \in Component \ {c} :
             target'[d] = target[d] /\ \A u \in Txn : staged'[u][d] = staged[u][d]
      /\ \A u \in Txn \ {t} : staged'[u] = staged[u]
  BY <1>1, <1>3, <1>4, SwapKeeps
<1>6. \A u \in Txn, d \in Component : Before(u, d)' = Before(u, d) /\ After(u, d)' = After(u, d)
  BY <1>3 DEF Before, After
<1>7. PICK j \in Task : /\ task' = [task EXCEPT ![p] = j] /\ j.txn = t
                        /\ \/ k.pc = "exchange" /\ j.pc = "verify"
                           \/ k.pc = "undoExchange" /\ j.pc = "undoVerify"
  <2>1. "verify" \in Pc /\ "undoVerify" \in Pc
    BY DEF Pc, InstallPc, RollbackPc
  <2>2. CASE k.pc = "exchange"
    BY <1>1, <1>2, <1>3, <2>1, <2>2, Goes
  <2>3. CASE k.pc = "undoExchange"
    BY <1>1, <1>2, <1>3, <2>1, <2>3, Goes
  <2>4. QED
    BY <1>1, <2>2, <2>3
<1>8. Call' = j
  BY <1>3, <1>7, CallBecomes
<1>9. CASE Before(t, c) = After(t, c)
  <2>1. \A u \in Txn, d \in Component : staged'[u][d] = staged[u][d]
    BY <1>4, <1>5, <1>9
  <2>2. target' = target
    <3>1. \A d \in Component : target'[d] = target[d]
      BY <1>4, <1>5, <1>9
    <3>2. QED
      BY <1>3, <1>5, <3>1 DEF FilesInv
  <2>3. /\ \A u \in Txn : Open(u)' <=> Open(u)
        /\ \A u \in Txn, d \in Component : Left(u, d)' = Left(u, d)
    BY <1>3, <1>6, <2>1 DEF Open, Holds, Left
  <2>4. \A u \in Txn, d \in Component : plan[u] # NoPlan => staged'[u][d] \notin Foreign
    BY <1>3, <2>1 DEF Clean
  <2>5. GroupInv(j)' /\ GroupStep
    BY <1>1, <1>2, <1>3, <1>7, <2>2, <2>3, <2>4, GroupStays DEF GroupStep, InstallPc
  <2>6. QED
    BY <1>8, <2>5
<1>10. CASE Before(t, c) # After(t, c)
  <2>1. last' = t /\ last' # 0
    BY <1>3, <1>4, <1>5, <1>10, Numbers
  <2>2. /\ \A u \in Txn \ {t} : /\ Open(u)' <=> Open(u)
                                /\ Full(u)' <=> Full(u)
        /\ \A d \in Component \ {c} : Left(t, d)' = Left(t, d)
    BY <1>3, <1>5, <1>6 DEF Open, Holds, Full, Left
  <2>3. target'[c] = Left(t, c)'
    BY <1>4, <1>5, <1>6, <1>10 DEF Left
  <2>4. Clean'
    <3>1. \A d \in Component : target'[d] \in Own
      <4>1. Before(t, c) \in Own /\ After(t, c) \in Own
        BY <1>3, Planned DEF Clean
      <4>2. QED
        BY <1>1, <1>3, <1>4, <1>5, <4>1 DEF Clean
    <3>2. target' \in [Component -> Own]
      BY <1>5, <3>1 DEF FilesInv
    <3>3. \A u \in Txn : plan[u] # NoPlan => \A d \in Component : staged'[u][d] \notin Foreign
      <4>1. target[c] \notin Foreign
        BY <1>3, ExtraAssumption DEF Clean
      <4>2. QED
        BY <1>3, <1>5, <4>1 DEF Clean
    <3>4. QED
      BY <1>3, <1>6, <3>2, <3>3 DEF Clean
  \* What an exchange finds of its transaction, and of the others.
  <2>5. /\ \A d \in Component : target[d] \in {Before(t, d), After(t, d)}
        /\ \A d \in Component \ {c} : target[d] = Left(t, d)
        /\ \A u \in Txn \ {t} : Open(u) => u <= t /\ Full(u)
    <3>1. CASE k.pc = "exchange"
      <4>1. \A d \in Component \ {c} : target[d] = Left(t, d)
                                       /\ target[d] \in {Before(t, d), After(t, d)}
        <5>1. ASSUME NEW d \in Component, d < c
              PROVE  target[d] = After(t, d) /\ staged[t][d] = Before(t, d)
          <6>1. d \in 1..(k.at - 1)
            BY <1>2, <5>1, Numbers DEF Component
          <6>2. QED
            BY <1>1, <1>2, <1>3, <3>1, <6>1 DEF GroupCall, PcInv
        <5>2. ASSUME NEW d \in Component, d > c
              PROVE  target[d] = Before(t, d) /\ staged[t][d] = After(t, d)
          <6>1. d \in (k.at)..Count /\ d \in (k.at + 1)..Count
            BY <1>2, <5>2, Numbers DEF Component
          <6>2. QED
            BY <1>1, <1>2, <1>3, <3>1, <6>1 DEF GroupCall, PcInv
        <5>3. \A d \in Component \ {c} : d < c \/ d > c
          BY Numbers
        <5>4. QED
          BY <5>1, <5>2, <5>3 DEF Left
      <4>2. \A u \in Txn \ {t} : Open(u) => u <= t /\ Full(u)
        BY <1>1, <1>2, <1>3, <3>1, Numbers DEF GroupCall, PcInv, InstallPc, Open
      <4>3. QED
        BY <1>4, <3>1, <4>1, <4>2
    <3>2. CASE k.pc = "undoExchange"
      <4>1. Open(t) /\ ~Changing(k) /\ \A u \in Txn : Open(u) => u <= t
        BY <1>1, <1>2, <1>3, <1>4, <1>10, <3>2
           DEF Open, Holds, Changing, InstallPc, OrderInv, RollbackPc
      <4>2. Newest(k, t)
        BY <4>1 DEF Newest, Live
      <4>3. \A d \in Component : target[d] = Left(t, d)
        BY <1>1, <1>2, <1>3, <4>2, NewestLeft
      <4>4. \A u \in Txn \ {t} : Open(u) => u <= t /\ Full(u)
        BY <1>3, <4>1, Numbers DEF LastInv
      <4>5. QED
        BY <4>3, <4>4 DEF Left
    <3>3. QED
      BY <1>1, <3>1, <3>2
  <2>6. LastInv'
    <3>1. \A d \in Component : target'[d] = Left(t, d)'
      BY <1>5, <2>2, <2>3, <2>5
    <3>2. \A u \in Txn : Open(u)' => u <= t /\ (Full(u)' \/ u = t)
      BY <2>2, <2>5, Numbers
    <3>3. QED
      BY <1>3, <2>1, <3>1, <3>2 DEF LastInv
  <2>7. GroupCall(j)'
    BY <1>7, <2>1, <2>2, <2>5 DEF GroupCall, InstallPc
  <2>8. GroupStep
    <3> DEFINE before == plan[t].before
               after == plan[t].after
    <3>1. /\ (\A d \in Component : target[d] = Before(t, d)) => target = before
          /\ (\A d \in Component : target[d] = After(t, d)) => target = after
          /\ (\A d \in Component : target'[d] = Before(t, d)) => target' = before
          /\ (\A d \in Component : target'[d] = After(t, d)) => target' = after
      <4>1. /\ before \in [Component -> Bytes] /\ after \in [Component -> Own]
            /\ target \in [Component -> Own] /\ target' \in [Component -> Own]
        BY <1>3, <2>4 DEF FilesInv, Plan, Clean
      <4>2. QED
        BY <4>1 DEF Before, After
    <3>2. Recoverable' \in {before, target'} /\ (~Mixed(t)' => Recoverable' = target')
          /\ (Mixed(t)' => Recoverable' = before)
      BY <1>3, <2>1 DEF Recoverable
    <3>3. \A d \in Component : target'[d] \in {Before(t, d), After(t, d)}
      BY <1>4, <1>5, <2>5
    <3>4. CASE k.pc = "exchange"
      <4>1. Recoverable = before
        <5>1. CASE last = t
          <6>1. Mixed(t) \/ \A d \in Component : target[d] = Before(t, d)
            BY <1>4, <1>10, <2>5, <3>4 DEF Mixed, Txn
          <6>2. QED
            BY <3>1, <5>1, <6>1 DEF Recoverable
        <5>2. CASE last # t
          BY <1>2, <1>3, <3>4, <5>2 DEF GroupCall, InstallPc, Recoverable
        <5>3. QED
          BY <5>1, <5>2
      <4>2. Mixed(t)' \/ target' = after
        BY <1>4, <1>5, <1>6, <1>10, <2>1, <3>1, <3>3, <3>4 DEF Mixed
      <4>3. UNCHANGED <<Recoverable, plan>> \/ G!Install(t)
        BY <1>3, <3>2, <4>1, <4>2 DEF G!Install
      <4>4. QED
        BY <4>3 DEF GroupStep, G!Next
    <3>5. CASE k.pc = "undoExchange"
      <4>1. Recoverable' = before
        <5>1. Mixed(t)' \/ target' = before
          BY <1>4, <1>5, <1>6, <1>10, <2>1, <3>1, <3>3, <3>5 DEF Mixed
        <5>2. QED
          BY <3>2, <5>1
      <4>2. Open(t) /\ Left(t, c) = After(t, c)
        BY <1>3, <1>4, <1>10, <3>5 DEF Open, Holds, Left
      <4>3. CASE Full(t)
        <5>1. target = after
          BY <1>4, <2>5, <3>1, <3>5, <4>3 DEF Full
        <5>2. ~Mixed(last)
          <6>1. t <= last /\ last \in Txn \cup {0}
            BY <1>3, <4>2 DEF LastInv, FilesInv
          <6>2. last \in Txn /\ (last = t \/ ~Open(last))
            BY <2>5, <6>1, Numbers
          <6>3. QED
            BY <1>3, <4>3, <6>2, NotMixed
        <5>3. G!Undo(t)
          BY <1>3, <4>1, <5>1, <5>2 DEF Recoverable, G!Undo
        <5>4. QED
          BY <5>3 DEF GroupStep, G!Next
      <4>4. CASE ~Full(t)
        <5>1. last = t
          BY <1>3, <4>2, <4>4 DEF LastInv
        <5>2. PICK d \in Component : target[d] # After(t, d)
          BY <2>5, <4>2, <4>4 DEF Full
        <5>3. Mixed(t)
          BY <1>4, <1>10, <2>1, <2>5, <3>5, <5>2 DEF Mixed
        <5>4. QED
          BY <1>3, <4>1, <5>1, <5>3 DEF Recoverable, GroupStep
      <4>5. QED
        BY <4>3, <4>4
    <3>6. QED
      BY <1>1, <3>4, <3>5
  <2>9. QED
    BY <1>8, <2>4, <2>6, <2>7, <2>8 DEF GroupInv
<1>11. QED
  BY <1>9, <1>10

Whole == outsider # {} \/ GroupInv(Call)

LEMMA InitWhole == Init => Whole /\ (outsider # {} \/ G!Init)
<1> SUFFICES ASSUME Init PROVE Whole /\ G!Init
  OBVIOUS
<1>1. Call.pc = "idle"
  BY Resting DEF Init, Call
<1>2. \A t \in Txn : ~Open(t)
  BY DEF Init, Open
<1>3. GroupInv(Call)
  BY <1>1, <1>2 DEF Init, GroupInv, Clean, LastInv, GroupCall, InstallPc
<1>4. Recoverable = target
  BY DEF Init, Recoverable, Mixed
<1>5. QED
  BY <1>3, <1>4 DEF Init, Whole, G!Init

\* Every step of an undisturbed converter is one of the group, or changes nothing.
LEMMA NextWhole ==
    ASSUME ~AnyOrder, Inv, Ordered, Whole, [Next]_vars
    PROVE  Whole' /\ [outsider # {} \/ G!Next]_(G!vars)
<1>1. CASE outsider # {}
  <2>1. outsider' = outsider
    BY OutsiderStays
  <2>2. QED
    BY <1>1, <2>1 DEF Whole
<1>2. CASE outsider = {} /\ OrderInv(Call) /\ GroupInv(Call)
  <2>1. ASSUME NEW p \in Proc, Install(p) PROVE GroupInv(Call)' /\ GroupStep
    BY <1>2, <2>1, StartInstallGroup, WriteGroup, WriteStagedGroup, CheckGroup DEF Install
  <2>2. \A c \in Component : ~Remove(c) /\ \A f \in Foreign : ~Overwrite(c, f)
    BY <1>2 DEF Remove, Overwrite
  <2>3. ASSUME UNCHANGED vars PROVE GroupInv(Call)' /\ GroupStep
    <3>1. PICK k \in Task : k = Call
      BY Resting DEF Call, Inv, CallInv
    <3>2. Call' = k /\ UNCHANGED <<target, plan, last, staged>>
      BY <2>3, <3>1 DEF vars, Call
    <3>3. QED
      BY <1>2, <3>1, <3>2, CallStays DEF GroupInv, GroupCall, GroupStep
  <2>4. GroupInv(Call)' /\ GroupStep
    BY <1>2, <2>1, <2>2, <2>3, ExchangeGroup, VerifyGroup, ReverseGroup, RollBackGroup, StopGroup
       DEF Next
  <2>5. QED
    BY <2>4 DEF Whole, GroupStep, G!vars
<1>3. QED
  BY <1>1, <1>2 DEF Whole, Ordered

\* While no other program interferes and the newest installation is rolled back
\* first, the group that the targets show, or that a roll-back would bring back,
\* is replaced and put back only as a whole.
THEOREM Refinement == ASSUME ~AnyOrder PROVE Spec => ImplementsGroupInstall
<1>1. Init => Inv /\ Ordered /\ Whole /\ (outsider # {} \/ G!Init)
  BY InitInv, InitOrdered, InitWhole
<1>2. ASSUME Inv, Ordered, Whole, [Next]_vars
      PROVE  (Inv /\ Ordered /\ Whole)' /\ [outsider # {} \/ G!Next]_(G!vars)
  BY <1>2, NextInv, NextOrdered, NextWhole
<1>3. QED
  BY <1>1, <1>2, PTL DEF Spec, ImplementsGroupInstall
=============================================================================
