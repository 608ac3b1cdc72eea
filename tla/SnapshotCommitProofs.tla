------------------------- MODULE SnapshotCommitProofs -------------------------
(***************************************************************************)
(* What the snapshot commit protocol guarantees for any number of devices, *)
(* saves, snapshots, uploads and concurrent requests.                      *)
(*                                                                         *)
(* The invariant has a part about the committed rows and a part about each *)
(* request in flight.  A request that did not move keeps its part, because *)
(* rows, contents and closed uploads only accumulate (Accumulates); what   *)
(* remains is the request that took the step.                              *)
(***************************************************************************)
EXTENDS SnapshotCommit, TLAPS

(***************************************************************************)
(* The inductive invariant                                                 *)
(***************************************************************************)
\* A commit keeps the content its upload was begun with.
ContentKept == \A c \in commits : begun[c.upload] = c.content

\* A save without a HEAD has no snapshots, and a HEAD is a snapshot: the
\* outcome of a conflict always has a HEAD to name.
HeadsCommitted ==
    \A s \in Save : IF head[s] = None THEN InSave(s) = {} ELSE head[s] \in Snapshots

\* An upload loses its session only to a commit of its content.
ClosedByCommit ==
    \A u \in Upload : begun[u] # None /\ u \notin open => \E c \in commits : c.content = begun[u]

RowsInv == ContentKept /\ HeadsCommitted /\ ClosedByCommit /\ ReceiptsAcceptable

Committed(x, content) == \E c \in commits : c.snapshot = x /\ c.content = content

\* What is known of a request that is past each statement.
TaskInv(r) ==
    LET t == task[r]
        own == begun[t.upload].device = t.device
    IN  t # None =>
        /\ begun[t.upload] # None
        /\ t.at = "check" => own
        /\ t.at = "write" => own /\ ValidParents(begun[t.upload])
        /\ t.at = "again" /\ own => t.upload \in lapsed \/ t.upload \notin open
        /\ t.at = "reply" => own /\ Committed(t.snapshot, begun[t.upload])
        /\ t.at = "notFound" /\ own =>
              \/ t.upload \in lapsed
              \/ \E c \in commits : c.upload # t.upload /\ c.content = begun[t.upload]

Inv == TypeOK /\ RowsInv /\ \A r \in Request : TaskInv(r)

(***************************************************************************)
(* Lemmas                                                                  *)
(***************************************************************************)
\* Where a receipt lookup can lead.
LEMMA FindReceiptCases ==
    ASSUME NEW t, NEW missing
    PROVE  \/ /\ FindReceipt(t, missing) = missing
              /\ \A c \in commits : ~(c.upload = t.upload /\ c.content.device = t.device)
           \/ /\ FindReceipt(t, missing) = "reply"
              /\ \E c \in commits : /\ c.upload = t.upload
                                    /\ c.content.device = t.device
                                    /\ c.snapshot = t.snapshot
           \/ FindReceipt(t, missing) = "refused"
  BY DEF FindReceipt

\* Goto moves one request and keeps what it asks for.
LEMMA GotoStep ==
    ASSUME TypeOK, NEW r \in Request, task[r] # None,
           NEW at \in {"receipt", "session", "again", "lock", "check", "write", "reply",
                       "notFound", "refused"},
           Goto(r, at)
    PROVE  /\ task' \in [Request -> Task \cup {None}]
           /\ task'[r] # None
           /\ task'[r].at = at
           /\ task'[r].device = task[r].device
           /\ task'[r].upload = task[r].upload
           /\ task'[r].snapshot = task[r].snapshot
           /\ task[r] \in Task
           /\ \A q \in Request \ {r} : task'[q] = task[q]
  BY CommitAssumption DEF TypeOK, Goto, Task

LEMMA FindReceiptType ==
    ASSUME NEW t, NEW missing \in {"session", "notFound"}
    PROVE  FindReceipt(t, missing) \in {"session", "notFound", "reply", "refused"}
  BY DEF FindReceipt

\* What Write inserts.
LEMMA WriteStep ==
    ASSUME Inv, NEW r \in Request, Write(r)
    PROVE  LET t == task[r]
               content == begun[t.upload]
               new == NewCommit(t, head[content.save])
           IN  /\ t \in Task
               /\ content \in Content
               /\ content.device = t.device
               /\ ValidParents(content)
               /\ t.snapshot \notin Snapshots
               /\ new \in Commit
               /\ new.snapshot = t.snapshot
               /\ new.upload = t.upload
               /\ new.content = content
               /\ new.conflict <=> content.base # head[content.save]
               /\ new.conflict => head[content.save] # None /\ new.head = head[content.save]
               /\ ~new.conflict => new.head = t.snapshot
<1> DEFINE t == task[r]
           content == begun[t.upload]
           s == content.save
           new == NewCommit(t, head[s])
<1>1. t # None /\ t.at = "write" /\ t \in Task
  BY DEF Inv, TypeOK, Write, At
<1>2. content \in Content /\ content.device = t.device /\ ValidParents(content)
  <2>1. content # None /\ content.device = t.device /\ ValidParents(content)
    BY <1>1 DEF Inv, TaskInv
  <2> QED
    BY <1>1, <2>1 DEF Inv, TypeOK, Task
<1>3. t.snapshot \notin Snapshots
  BY DEF Write
<1>4. s \in Save /\ content.base \in Snapshot \cup {None} /\ head[s] \in Snapshot \cup {None}
  BY <1>2 DEF Content, Inv, TypeOK
<1>5. content.base # head[s] => head[s] # None
  BY <1>2, <1>4 DEF ValidParents, Inv, RowsInv, HeadsCommitted
<1>6. new = [snapshot |-> t.snapshot, upload |-> t.upload, content |-> content,
             conflict |-> content.base # head[s],
             head |-> IF content.base # head[s] THEN head[s] ELSE t.snapshot]
  BY <1>5 DEF NewCommit, OutcomeHead, IsConflict
<1>7. new \in Commit
  <2>1. t.snapshot \in Snapshot /\ t.upload \in Upload
    BY <1>1 DEF Task
  <2>2. (IF content.base # head[s] THEN head[s] ELSE t.snapshot) \in Snapshot
    BY <2>1, <1>4, <1>5
  <2> QED
    BY <1>2, <1>6, <2>1, <2>2 DEF Commit
<1> HIDE DEF new
<1>8. /\ new.snapshot = t.snapshot
      /\ new.upload = t.upload
      /\ new.content = content
      /\ new.conflict <=> content.base # head[s]
      /\ new.conflict => head[s] # None /\ new.head = head[s]
      /\ ~new.conflict => new.head = t.snapshot
  BY <1>5, <1>6
<1> QED
  BY <1>1, <1>2, <1>3, <1>7, <1>8 DEF new

(***************************************************************************)
(* Types                                                                   *)
(***************************************************************************)
LEMMA InitInv == Init => Inv
<1> SUFFICES ASSUME Init
             PROVE  Inv
  OBVIOUS
<1>1. TypeOK
  BY DEF Init, TypeOK
<1>2. RowsInv
  BY DEF Init, RowsInv, ContentKept, HeadsCommitted, ClosedByCommit, ReceiptsAcceptable, InSave
<1>3. \A r \in Request : TaskInv(r)
  BY DEF Init, TaskInv
<1> QED
  BY <1>1, <1>2, <1>3 DEF Inv

\* Every step keeps the types.
LEMMA TypeStep == Inv /\ [Next]_vars => TypeOK'
<1> SUFFICES ASSUME Inv, [Next]_vars
             PROVE  TypeOK'
  OBVIOUS
<1> USE DEF Inv
<1>1. ASSUME NEW u \in Upload, NEW c \in Content, Begin(u, c)
      PROVE  TypeOK'
  BY <1>1, CommitAssumption DEF Begin, TypeOK
<1>2. ASSUME NEW u \in Upload, Put(u)
      PROVE  TypeOK'
  BY <1>2 DEF Put, TypeOK
<1>3. ASSUME NEW u \in Upload, Expire(u)
      PROVE  TypeOK'
  BY <1>3 DEF Expire, TypeOK
<1>4. ASSUME NEW r \in Request, NEW d \in Device, NEW u \in Upload, NEW x \in Snapshot,
             Receive(r, d, u, x)
      PROVE  TypeOK'
  <2>1. [at |-> "receipt", device |-> d, upload |-> u, snapshot |-> x] \in Task
    BY DEF Task
  <2> QED
    BY <1>4, <2>1 DEF Receive, TypeOK, uploads
<1>5. ASSUME NEW r \in Request, LookUpReceipt(r)
      PROVE  TypeOK'
  <2>1. FindReceipt(task[r], "session") \in {"session", "notFound", "reply", "refused"}
    BY FindReceiptType
  <2>2. task' \in [Request -> Task \cup {None}]
    BY <1>5, <2>1, GotoStep DEF LookUpReceipt, At
  <2> QED
    BY <1>5, <2>2 DEF LookUpReceipt, TypeOK, uploads
<1>6. ASSUME NEW r \in Request, ReadSession(r)
      PROVE  TypeOK'
  <2>1. task' \in [Request -> Task \cup {None}]
    BY <1>6, GotoStep DEF ReadSession, At
  <2> QED
    BY <1>6, <2>1 DEF ReadSession, TypeOK, uploads
<1>7. ASSUME NEW r \in Request, LockSession(r)
      PROVE  TypeOK'
  <2>1. task' \in [Request -> Task \cup {None}]
    BY <1>7, GotoStep DEF LockSession, At
  <2> QED
    BY <1>7, <2>1 DEF LockSession, TypeOK, uploads
<1>8. ASSUME NEW r \in Request, LookUpAgain(r)
      PROVE  TypeOK'
  <2>1. FindReceipt(task[r], "notFound") \in {"session", "notFound", "reply", "refused"}
    BY FindReceiptType
  <2>2. task' \in [Request -> Task \cup {None}]
    BY <1>8, <2>1, GotoStep DEF LookUpAgain, At
  <2> QED
    BY <1>8, <2>2 DEF LookUpAgain, TypeOK, uploads
<1>9. ASSUME NEW r \in Request, CheckSnapshot(r)
      PROVE  TypeOK'
  <2>1. task' \in [Request -> Task \cup {None}]
    BY <1>9, GotoStep DEF CheckSnapshot, At
  <2> QED
    BY <1>9, <2>1 DEF CheckSnapshot, TypeOK
<1>10. ASSUME NEW r \in Request, Write(r)
       PROVE  TypeOK'
  <2>1. task' \in [Request -> Task \cup {None}]
    BY <1>10, GotoStep DEF Write, At
  <2>2. commits' \subseteq Commit
    BY <1>10, WriteStep DEF Write, TypeOK
  <2>3. head' \in [Save -> Snapshot \cup {None}]
    <3>1. task[r].snapshot \in Snapshot
      BY <1>10, WriteStep DEF Task
    <3> QED
      BY <1>10, <3>1 DEF Write, TypeOK
  <2>4. open' = open \ {task[r].upload} /\ put' = put \ {task[r].upload}
    BY <1>10 DEF Write
  <2> QED
    BY <1>10, <2>1, <2>2, <2>3, <2>4 DEF Write, TypeOK
<1>11. ASSUME NEW r \in Request, End(r)
       PROVE  TypeOK'
  BY <1>11 DEF End, TypeOK, uploads
<1>12. ASSUME NEW x \in Snapshot, NEW chosen \in Snapshot, Resolve(x, chosen)
       PROVE  TypeOK'
  BY <1>12 DEF Resolve, TypeOK, uploads
<1>13. CASE UNCHANGED vars
  BY <1>13 DEF vars, uploads, TypeOK
<1> QED
  BY <1>1, <1>2, <1>3, <1>4, <1>5, <1>6, <1>7, <1>8, <1>9, <1>10, <1>11, <1>12, <1>13
     DEF Next, HandleCommit

(***************************************************************************)
(* Rows                                                                    *)
(***************************************************************************)
\* Commits and the contents of uploads are for ever, an upload that lost its
\* session or its time does not get it back.
Accumulates ==
    /\ commits \subseteq commits'
    /\ \A u \in Upload : begun[u] # None => begun'[u] = begun[u]
    /\ lapsed \subseteq lapsed'
    /\ \A u \in Upload : begun[u] # None /\ u \notin open => u \notin open'

LEMMA AccumulatesStep == Inv /\ [Next]_vars => Accumulates
<1> SUFFICES ASSUME Inv, [Next]_vars
             PROVE  Accumulates
  OBVIOUS
<1> USE DEF Accumulates, uploads
<1>1. ASSUME NEW u \in Upload, NEW c \in Content, Begin(u, c)
      PROVE  Accumulates
  BY <1>1 DEF Begin, Inv, TypeOK
<1>2. ASSUME NEW u \in Upload, Put(u) \/ Expire(u)
      PROVE  Accumulates
  BY <1>2 DEF Put, Expire
<1>3. ASSUME NEW r \in Request,
             \/ \E d \in Device, u \in Upload, x \in Snapshot : Receive(r, d, u, x)
             \/ HandleCommit(r)
             \/ End(r)
      PROVE  Accumulates
  BY <1>3 DEF Receive, HandleCommit, LookUpReceipt, ReadSession, LockSession, LookUpAgain,
              CheckSnapshot, Write, End
<1>4. ASSUME NEW x \in Snapshot, NEW chosen \in Snapshot, Resolve(x, chosen)
      PROVE  Accumulates
  BY <1>4 DEF Resolve
<1>5. CASE UNCHANGED vars
  BY <1>5 DEF vars
<1> QED
  BY <1>1, <1>2, <1>3, <1>4, <1>5 DEF Next

\* A save only gains snapshots.
LEMMA InSaveGrows ==
    ASSUME commits \subseteq commits', NEW s
    PROVE  InSave(s) \subseteq InSave(s)'
  BY DEF InSave

LEMMA ValidParentsStay ==
    ASSUME commits \subseteq commits', NEW c, ValidParents(c)
    PROVE  ValidParents(c)'
<1>1. InSave(c.save) \subseteq InSave(c.save)'
  BY InSaveGrows
<1> QED
  BY <1>1 DEF ValidParents

\* Only Write inserts rows; Begin, CheckSnapshot and Write touch sessions.
LEMMA RowsStep == Inv /\ [Next]_vars => RowsInv'
<1> SUFFICES ASSUME Inv, [Next]_vars
             PROVE  RowsInv'
  OBVIOUS
<1> USE DEF Inv, RowsInv
<1>1. ASSUME NEW u \in Upload, NEW c \in Content, Begin(u, c)
      PROVE  RowsInv'
  <2>1. /\ begun' = [begun EXCEPT ![u] = c] /\ begun[u] = None /\ open' = open \cup {u}
        /\ commits' = commits /\ head' = head
    BY <1>1 DEF Begin
  <2>2. \A k \in commits : k.upload \in Upload /\ k.content # None
    BY CommitAssumption DEF TypeOK, Commit
  <2>3. ContentKept'
    BY <2>1, <2>2 DEF ContentKept, TypeOK
  <2>4. ClosedByCommit'
    BY <2>1 DEF ClosedByCommit, TypeOK
  <2> QED
    BY <2>1, <2>3, <2>4 DEF HeadsCommitted, InSave, Snapshots, ReceiptsAcceptable
<1>2. ASSUME NEW r \in Request, CheckSnapshot(r)
      PROVE  RowsInv'
  <2>1. begun' = begun /\ commits' = commits /\ head' = head
    BY <1>2 DEF CheckSnapshot
  <2>2. \/ open' = open
        \/ /\ open' = open \ {task[r].upload}
           /\ \E c \in commits : c.content = begun[task[r].upload]
    BY <1>2 DEF CheckSnapshot
  <2>3. ClosedByCommit'
    BY <2>1, <2>2 DEF ClosedByCommit
  <2> QED
    BY <2>1, <2>3 DEF ContentKept, HeadsCommitted, InSave, Snapshots, ReceiptsAcceptable
<1>3. ASSUME NEW r \in Request, Write(r)
      PROVE  RowsInv'
  <2> DEFINE t == task[r]
             content == begun[t.upload]
             s == content.save
             new == NewCommit(t, head[s])
  <2>1. /\ begun' = begun
        /\ open' = open \ {t.upload}
        /\ commits' = commits \cup {new}
        /\ head' = IF new.conflict THEN head ELSE [head EXCEPT ![s] = t.snapshot]
    BY <1>3 DEF Write
  <2>2. /\ content \in Content
        /\ t \in Task
        /\ t.snapshot \notin Snapshots
        /\ new.snapshot = t.snapshot
        /\ new.upload = t.upload
        /\ new.content = content
        /\ new.conflict => head[s] # None /\ new.head = head[s]
        /\ ~new.conflict => new.head = t.snapshot
    BY <1>3, WriteStep
  <2> HIDE DEF new
  <2>3. ContentKept'
    BY <2>1, <2>2 DEF ContentKept
  <2>4. ClosedByCommit'
    BY <2>1, <2>2 DEF ClosedByCommit
  <2>5. ReceiptsAcceptable'
    <3>1. new.conflict => new.head # new.snapshot
      BY <2>2 DEF HeadsCommitted, Content
    <3> QED
      BY <2>1, <2>2, <3>1 DEF ReceiptsAcceptable
  <2>6. HeadsCommitted'
    <3>1. s \in Save /\ t.snapshot \in Snapshot /\ t.snapshot # None
      BY <2>2, CommitAssumption DEF Content, Task
    <3>2. Snapshots' = Snapshots \cup {t.snapshot}
      BY <2>1, <2>2 DEF Snapshots
    <3>3. \A k \in Save \ {s} : InSave(k)' = InSave(k) /\ head'[k] = head[k]
      BY <2>1, <2>2 DEF InSave, TypeOK
    <3>4. head'[s] # None /\ head'[s] \in Snapshots'
      BY <2>1, <2>2, <3>1, <3>2 DEF HeadsCommitted, TypeOK
    <3> QED
      BY <3>2, <3>3, <3>4 DEF HeadsCommitted
  <2> QED
    BY <2>3, <2>4, <2>5, <2>6
<1>4. ASSUME UNCHANGED <<commits, begun, open, head>>
      PROVE  RowsInv'
  BY <1>4 DEF ContentKept, HeadsCommitted, ClosedByCommit, InSave, Snapshots, ReceiptsAcceptable
<1>5. ASSUME NEW r \in Request,
             \/ \E d \in Device, u \in Upload, x \in Snapshot : Receive(r, d, u, x)
             \/ LookUpReceipt(r) \/ ReadSession(r) \/ LockSession(r) \/ LookUpAgain(r)
             \/ End(r)
      PROVE  UNCHANGED <<commits, begun, open, head>>
  BY <1>5 DEF Receive, LookUpReceipt, ReadSession, LockSession, LookUpAgain, End, uploads
<1>6. ASSUME NEW u \in Upload, Put(u) \/ Expire(u)
      PROVE  UNCHANGED <<commits, begun, open, head>>
  BY <1>6 DEF Put, Expire
<1>7. ASSUME NEW x \in Snapshot, NEW chosen \in Snapshot, Resolve(x, chosen)
      PROVE  UNCHANGED <<commits, begun, open, head>>
  BY <1>7 DEF Resolve, uploads
<1>8. UNCHANGED vars => UNCHANGED <<commits, begun, open, head>>
  BY DEF vars, uploads
<1> QED
  BY <1>1, <1>2, <1>3, <1>4, <1>5, <1>6, <1>7, <1>8 DEF Next, HandleCommit

(***************************************************************************)
(* Requests                                                                *)
(***************************************************************************)
\* A request that did not move keeps what it knows.
LEMMA Unmoved ==
    ASSUME Inv, Accumulates, NEW q \in Request, task'[q] = task[q]
    PROVE  TaskInv(q)'
<1> SUFFICES ASSUME task[q] # None
             PROVE  TaskInv(q)'
  BY DEF TaskInv
<1> DEFINE t == task[q]
<1>1. t.upload \in Upload /\ begun[t.upload] # None /\ TaskInv(q)
  BY DEF Inv, TypeOK, Task, TaskInv
<1>2. begun'[t.upload] = begun[t.upload]
  BY <1>1 DEF Accumulates
<1>3. ValidParents(begun[t.upload]) => ValidParents(begun[t.upload])'
  BY <1>2, ValidParentsStay DEF Accumulates, ValidParents
<1>4. /\ t.upload \in lapsed => t.upload \in lapsed'
      /\ t.upload \notin open => t.upload \notin open'
      /\ commits \subseteq commits'
  BY <1>1 DEF Accumulates
<1> QED
  BY <1>1, <1>2, <1>3, <1>4 DEF TaskInv, Committed

\* The request that did, statement by statement.
LEMMA TaskStep == Inv /\ [Next]_vars => \A q \in Request : TaskInv(q)'
<1> SUFFICES ASSUME Inv, [Next]_vars, NEW q \in Request
             PROVE  TaskInv(q)'
  OBVIOUS
<1>1. Accumulates
  BY AccumulatesStep
<1>2. task'[q] = task[q] => TaskInv(q)'
  BY <1>1, Unmoved
<1>3. ASSUME NEW u \in Upload, (\E c \in Content : Begin(u, c)) \/ Put(u) \/ Expire(u)
      PROVE  TaskInv(q)'
  BY <1>2, <1>3 DEF Begin, Put, Expire
<1>4. ASSUME NEW x \in Snapshot, NEW chosen \in Snapshot, Resolve(x, chosen)
      PROVE  TaskInv(q)'
  BY <1>2, <1>4 DEF Resolve
<1>5. CASE UNCHANGED vars
  BY <1>2, <1>5 DEF vars
<1>6. ASSUME NEW r \in Request, NEW d \in Device, NEW u \in Upload, NEW x \in Snapshot,
             Receive(r, d, u, x)
      PROVE  TaskInv(q)'
  <2>1. CASE q = r
    <3>1. task'[q] = [at |-> "receipt", device |-> d, upload |-> u, snapshot |-> x]
      BY <1>6, <2>1 DEF Receive, Inv, TypeOK
    <3>2. begun'[u] # None
      BY <1>6 DEF Receive, uploads
    <3> QED
      BY <3>1, <3>2 DEF TaskInv
  <2>2. CASE q # r
    BY <1>2, <1>6, <2>2 DEF Receive, Inv, TypeOK
  <2> QED
    BY <2>1, <2>2
<1>7. ASSUME NEW r \in Request, End(r)
      PROVE  TaskInv(q)'
  <2>1. CASE q = r
    BY <1>7, <2>1 DEF End, TaskInv, Inv, TypeOK
  <2>2. CASE q # r
    BY <1>2, <1>7, <2>2 DEF End, Inv, TypeOK
  <2> QED
    BY <2>1, <2>2
<1>8. ASSUME NEW r \in Request, HandleCommit(r)
      PROVE  TaskInv(q)'
  <2>1. task[r] # None
    BY <1>8 DEF HandleCommit, LookUpReceipt, ReadSession, LockSession, LookUpAgain, CheckSnapshot,
                Write, At
  <2>2. PICK t \in Task, content \in Content :
          /\ t = task[r]
          /\ t.upload \in Upload
          /\ content # None
          /\ begun[t.upload] = content
          /\ begun'[t.upload] = content
          /\ TaskInv(r)
    BY <1>1, <2>1 DEF Inv, TypeOK, Task, TaskInv, Accumulates
  <2>3. PICK at \in {"receipt", "session", "again", "lock", "check", "write", "reply",
                     "notFound", "refused"} : Goto(r, at)
    <3>1. /\ FindReceipt(t, "session") \in {"session", "notFound", "reply", "refused"}
          /\ FindReceipt(t, "notFound") \in {"session", "notFound", "reply", "refused"}
      BY FindReceiptType
    <3> QED
      BY <1>8, <2>2, <3>1 DEF HandleCommit, LookUpReceipt, ReadSession, LockSession, LookUpAgain,
                        CheckSnapshot, Write
  <2>4. /\ task'[r] # None
        /\ task'[r].at = at
        /\ task'[r].device = t.device
        /\ task'[r].upload = t.upload
        /\ task'[r].snapshot = t.snapshot
        /\ \A p \in Request \ {r} : task'[p] = task[p]
    BY <2>1, <2>2, <2>3, GotoStep DEF Inv
  <2>5. CASE q # r
    BY <1>2, <2>4, <2>5
  <2> DEFINE own == content.device = t.device
  <2>6. SUFFICES ASSUME q = r
                 PROVE  /\ at = "check" => own
                        /\ at = "write" => own /\ ValidParents(content)'
                        /\ at = "again" /\ own => t.upload \in lapsed' \/ t.upload \notin open'
                        /\ at = "reply" => own /\ Committed(t.snapshot, content)'
                        /\ at = "notFound" /\ own =>
                              \/ t.upload \in lapsed'
                              \/ \E c \in commits' : c.upload # t.upload /\ c.content = content
    BY <2>2, <2>4, <2>5 DEF TaskInv, Committed, ValidParents
  <2>7. CASE LookUpReceipt(r)
    <3>1. at = FindReceipt(t, "session") /\ commits' = commits
      BY <2>1, <2>2, <2>3, <2>4, <2>7, GotoStep, FindReceiptType DEF LookUpReceipt, Inv, uploads
    <3>2. \A c \in commits : c.upload = t.upload => c.content = content
      BY <2>2 DEF Inv, RowsInv, ContentKept
    <3> QED
      BY <3>1, <3>2, FindReceiptCases DEF Committed
  <2>8. CASE ReadSession(r)
    <3>1. at = IF ~Usable(t) THEN "again" ELSE IF t.upload \in put THEN "lock" ELSE "refused"
      BY <2>1, <2>2, <2>3, <2>4, <2>8, GotoStep DEF ReadSession, Inv
    <3>2. open' = open /\ lapsed' = lapsed
      BY <2>8 DEF ReadSession, uploads
    <3> QED
      BY <2>2, <3>1, <3>2 DEF Usable
  <2>9. CASE LockSession(r)
    <3>1. at = IF Usable(t) THEN "check" ELSE "again"
      BY <2>1, <2>2, <2>3, <2>4, <2>9, GotoStep DEF LockSession, Inv
    <3>2. open' = open /\ lapsed' = lapsed
      BY <2>9 DEF LockSession, uploads
    <3> QED
      BY <2>2, <3>1, <3>2 DEF Usable
  <2>10. CASE LookUpAgain(r)
    <3>1. at = FindReceipt(t, "notFound") /\ commits' = commits /\ lapsed' = lapsed
      BY <2>1, <2>2, <2>3, <2>4, <2>10, GotoStep, FindReceiptType DEF LookUpAgain, Inv, uploads
    <3>2. \A c \in commits : c.upload = t.upload => c.content = content
      BY <2>2 DEF Inv, RowsInv, ContentKept
    <3>3. own => t.upload \in lapsed \/ \E c \in commits : c.content = content
      BY <2>1, <2>2, <2>10 DEF LookUpAgain, At, TaskInv, Inv, RowsInv, ClosedByCommit
    <3> QED
      BY <3>1, <3>2, <3>3, FindReceiptCases DEF Committed
  <2>11. CASE CheckSnapshot(r)
    <3>1. own /\ commits' = commits
      BY <2>1, <2>2, <2>11 DEF CheckSnapshot, At, TaskInv
    <3>2. \/ at = "reply" /\ Committed(t.snapshot, content)
          \/ at = "write" /\ ValidParents(content)
          \/ at = "refused"
      BY <2>1, <2>2, <2>3, <2>4, <2>11, GotoStep DEF CheckSnapshot, Inv, Committed
    <3>3. ValidParents(content) => ValidParents(content)'
      BY <3>1 DEF ValidParents, InSave
    <3> QED
      BY <3>1, <3>2, <3>3 DEF Committed
  <2>12. CASE Write(r)
    <3>1. at = "reply"
      BY <2>1, <2>2, <2>3, <2>4, <2>12, GotoStep DEF Write, Inv
    <3>2. own
      BY <2>2, <2>12, WriteStep
    <3>3. PICK c : /\ c = NewCommit(t, head[content.save])
                   /\ commits' = commits \cup {c}
      BY <2>2, <2>12 DEF Write
    <3>4. c.snapshot = t.snapshot /\ c.content = content
      BY <2>2, <2>12, <3>3, WriteStep
    <3>5. Committed(t.snapshot, content)'
      BY <3>3, <3>4 DEF Committed
    <3> QED
      BY <3>1, <3>2, <3>5
  <2> QED
    BY <1>8, <2>7, <2>8, <2>9, <2>10, <2>11, <2>12 DEF HandleCommit
<1> QED
  BY <1>3, <1>4, <1>5, <1>6, <1>7, <1>8 DEF Next

(***************************************************************************)
(* Theorems                                                                *)
(***************************************************************************)
THEOREM Invariance == Spec => []Inv
<1>1. Init => Inv
  BY InitInv
<1>2. Inv /\ [Next]_vars => Inv'
  BY TypeStep, RowsStep, TaskStep DEF Inv
<1> QED
  BY <1>1, <1>2, PTL DEF Spec

\* The tables and the requests in flight keep their types.
THEOREM TypeCorrect == Spec => []TypeOK
<1>1. Inv => TypeOK
  BY DEF Inv
<1> QED
  BY <1>1, Invariance, PTL

\* A reported success is a commit of exactly what was uploaded.
THEOREM TruthfulReplies == Spec => []ReplyMatchesUpload
<1>1. Inv => ReplyMatchesUpload
  <2> SUFFICES ASSUME Inv, NEW r \in Request, At(r, "reply")
               PROVE  \E c \in commits : /\ c.snapshot = task[r].snapshot
                                         /\ c.content = begun[task[r].upload]
                                         /\ c.content.device = task[r].device
    BY DEF ReplyMatchesUpload
  <2> QED
    BY DEF At, Inv, TaskInv, Committed
<1> QED
  BY <1>1, Invariance, PTL

\* A device whose upload has not expired is told "not found" only once the
\* very content is committed through another upload.
THEOREM HarmlessNotFound == Spec => []NotFoundIsHarmless
<1>1. Inv => NotFoundIsHarmless
  BY DEF Inv, TaskInv, NotFoundIsHarmless, At
<1> QED
  BY <1>1, Invariance, PTL

\* No conflict names its own snapshot as the HEAD it lost to.
THEOREM AcceptableReceipts == Spec => []ReceiptsAcceptable
<1>1. Inv => ReceiptsAcceptable
  BY DEF Inv, RowsInv
<1> QED
  BY <1>1, Invariance, PTL

\* Parents are committed first and in the same save, and rows never change.
THEOREM ParentsFirst == Spec => ParentsCommittedFirst
<1> DEFINE Grow == /\ commits \subseteq commits'
                   /\ \A c \in commits' \ commits :
                        /\ c.content.parents \subseteq InSave(c.content.save)
                        /\ c.content.base # None => c.content.base \in c.content.parents
<1>1. Inv /\ [Next]_vars => [Grow]_vars
  <2> SUFFICES ASSUME Inv, Next
               PROVE  Grow
    OBVIOUS
  <2>1. ASSUME NEW r \in Request, Write(r)
        PROVE  Grow
    <3>1. PICK c : /\ c = NewCommit(task[r], head[begun[task[r].upload].save])
                   /\ commits' = commits \cup {c}
      BY <2>1 DEF Write
    <3>2. ValidParents(c.content)
      BY <2>1, <3>1, WriteStep
    <3> QED
      BY <3>1, <3>2 DEF ValidParents
  <2>2. ASSUME commits' = commits
        PROVE  Grow
    BY <2>2
  <2> QED
    BY <2>1, <2>2 DEF Next, HandleCommit, Begin, Put, Expire, Receive, LookUpReceipt, ReadSession,
                      LockSession, LookUpAgain, CheckSnapshot, End, Resolve
<1> QED
  BY <1>1, Invariance, PTL DEF Spec, ParentsCommittedFirst

\* Write is the register's decision; every other statement leaves it alone.
LEMMA WriteDecides ==
    ASSUME Inv, NEW r \in Request, Write(r)
    PROVE  Register!Next
<1> DEFINE t == task[r]
           content == begun[t.upload]
           s == content.save
<1>1. PICK new : /\ new = NewCommit(t, head[s])
                 /\ commits' = commits \cup {new}
                 /\ head' = IF new.conflict THEN head ELSE [head EXCEPT ![s] = t.snapshot]
  BY DEF Write
<1>2. /\ t \in Task /\ content \in Content
      /\ t.snapshot \notin Snapshots
      /\ new.snapshot = t.snapshot
      /\ new.content = content
      /\ new.conflict <=> content.base # head[s]
      /\ new.conflict => head[s] # None /\ new.head = head[s]
      /\ ~new.conflict => new.head = t.snapshot
  BY <1>1, WriteStep
<1>3. new.conflict => new.head # new.snapshot
  BY <1>2 DEF Inv, RowsInv, HeadsCommitted, Content
<1>4. Decision(new) = [snapshot |-> t.snapshot, save |-> s, base |-> content.base,
                       seen |-> head[s]]
  BY <1>2, <1>3 DEF Decision
<1>5. Decided' = Decided \cup {[snapshot |-> t.snapshot, save |-> s, base |-> content.base,
                                seen |-> head[s]]}
  <2>1. Decided' = {Decision(c) : c \in commits'}
    BY DEF Decided, Decision
  <2>2. Decided' = Decided \cup {Decision(new)}
    BY <1>1, <2>1 DEF Decided
  <2> QED
    BY <1>4, <2>2
<1>6. \A d \in Decided : d.snapshot # t.snapshot
  BY <1>2 DEF Decided, Decision, Snapshots
<1>7. Register!Decide(t.snapshot, s, content.base)
  BY <1>1, <1>2, <1>5, <1>6 DEF Register!Decide
<1>8. t.snapshot \in Snapshot /\ s \in Save /\ content.base \in Snapshot \cup {None}
  BY <1>2 DEF Task, Content
<1> QED
  BY <1>7, <1>8 DEF Register!Next

\* Concurrent, repeated and dying commit requests implement the register.
THEOREM Refinement == Spec => ImplementsHeadRegister
<1>1. Init => Register!Init
  BY DEF Init, Register!Init, Decided
<1>2. Inv /\ [Next]_vars => [Register!Next]_(Register!vars)
  <2> SUFFICES ASSUME Inv, [Next]_vars
               PROVE  Register!Next \/ (head' = head /\ Decided' = Decided)
    BY DEF Register!vars
  <2>1. ASSUME NEW r \in Request, Write(r)
        PROVE  Register!Next
    BY <2>1, WriteDecides
  <2>2. ASSUME head' = head, commits' = commits
        PROVE  head' = head /\ Decided' = Decided
    BY <2>2 DEF Decided
  <2> QED
    BY <2>1, <2>2 DEF Next, HandleCommit, Begin, Put, Expire, Receive, LookUpReceipt, ReadSession,
                      LockSession, LookUpAgain, CheckSnapshot, End, Resolve, vars
<1> QED
  BY <1>1, <1>2, Invariance, PTL DEF Spec, ImplementsHeadRegister, Register!Spec

History == INSTANCE HeadRegisterProofs WITH decided <- Decided

\* The history of a save never forks, and HEAD is the end of it: what the
\* register guarantees, the protocol does.
THEOREM OneHistory == Spec => [](NoForkedHistory /\ HeadEndsHistory)
<1>1. None \notin Snapshot
  BY CommitAssumption
<1>2. History!Spec => [](History!NoForkedHistory /\ History!HeadEndsHistory)
  BY <1>1, History!OneHistory
<1>3. /\ History!Init <=> Register!Init
      /\ [History!Next]_(History!vars) <=> [Register!Next]_(Register!vars)
  BY DEF History!Init, Register!Init, History!Next, Register!Next, History!Decide,
         Register!Decide, History!vars, Register!vars
<1>4. History!NoForkedHistory /\ History!HeadEndsHistory => NoForkedHistory /\ HeadEndsHistory
  BY DEF History!NoForkedHistory, History!HeadEndsHistory, NoForkedHistory, HeadEndsHistory,
         Register!NoForkedHistory, Register!HeadEndsHistory, History!Advances,
         Register!Advances
<1> QED
  BY <1>2, <1>3, <1>4, Refinement, PTL
     DEF ImplementsHeadRegister, Register!Spec, History!Spec
=============================================================================
