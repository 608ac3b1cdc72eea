--------------------------- MODULE SnapshotCommit ---------------------------
(***************************************************************************)
(* The server's snapshot commit protocol (crates/save-server/src/lib.rs):  *)
(* begin, put, commit and resolve for the saves of one account, over the   *)
(* PostgreSQL backend.  A commit request is several statements: it reads   *)
(* the receipt and the session, opens a transaction, locks the session     *)
(* row, looks for the snapshot's receipt, then locks the HEAD row, decides *)
(* fast-forward or conflict, and writes.  Requests run concurrently, are   *)
(* retried with the same or a new upload, and may die at any statement, or *)
(* after the database commit and before the response.                      *)
(*                                                                         *)
(* Clients are arbitrary: any device begins any upload the handler accepts *)
(* and commits any upload under any snapshot id, any number of times.      *)
(***************************************************************************)
EXTENDS FiniteSets, Naturals

CONSTANTS
    Device,    \* devices of the account
    Save,      \* logical saves
    Snapshot,  \* snapshot ids
    Upload,    \* upload ids; a UUID is never drawn twice
    Body,      \* the rest of a snapshot's content: its manifest and chunks
    Request,   \* commit requests the server can have in flight
    None,      \* no snapshot, no session, no request
    MaxParents \* bound: parents of one snapshot

\* What an upload session fixes about the snapshot to be.
Content == [device : Device, save : Save, base : Snapshot \cup {None},
            parents : SUBSET Snapshot, body : Body]

\* The rows one transaction inserts: a snapshot, its parents and its receipt.
\* "head" is the outcome_head the receipt records.
Commit == [snapshot : Snapshot, upload : Upload, content : Content,
           conflict : BOOLEAN, head : Snapshot]

Task == [at : {"receipt", "session", "again", "lock", "check", "write", "reply",
               "notFound", "refused"},
         device : Device, upload : Upload, snapshot : Snapshot]

ASSUME CommitAssumption ==
    /\ None \notin Snapshot \cup Content \cup Task
    /\ MaxParents \in Nat

VARIABLES
    head,     \* logical_saves.head_snapshot_id
    begun,    \* the content each upload was begun with
    open,     \* the uploads that have a row in upload_sessions
    put,      \* the open uploads whose manifest and chunks are all durable
    lapsed,   \* the uploads whose expires_at has passed
    commits,  \* snapshots, snapshot_parents and snapshot_commit_receipts
    resolved, \* conflict snapshots marked resolved
    task      \* the commit requests in flight

uploads == <<begun, open, put, lapsed>>
vars == <<head, uploads, commits, resolved, task>>

Snapshots == {c.snapshot : c \in commits}
InSave(s) == {c.snapshot : c \in {k \in commits : k.content.save = s}}

TypeOK ==
    /\ head \in [Save -> Snapshot \cup {None}]
    /\ begun \in [Upload -> Content \cup {None}]
    /\ open \subseteq {u \in Upload : begun[u] # None}
    /\ put \subseteq open
    /\ lapsed \subseteq Upload
    /\ commits \subseteq Commit
    /\ resolved \subseteq Snapshot
    /\ task \in [Request -> Task \cup {None}]

Init ==
    /\ head = [s \in Save |-> None]
    /\ begun = [u \in Upload |-> None]
    /\ open = {}
    /\ put = {}
    /\ lapsed = {}
    /\ commits = {}
    /\ resolved = {}
    /\ task = [r \in Request |-> None]

(***************************************************************************)
(* Begin, put, expiry                                                      *)
(***************************************************************************)
\* Mutant: parents are looked up in the account, not in the save.
ValidParentsAnySave(c) == /\ c.base # None => c.base \in c.parents
                          /\ c.parents \subseteq Snapshots

\* validate_parent_shape and validate_parent_set_persistent
ValidParents(c) == /\ c.base # None => c.base \in c.parents
                   /\ c.parents \subseteq InSave(c.save)

Begin(u, c) ==
    /\ begun[u] = None
    /\ Cardinality(c.parents) <= MaxParents
    /\ ValidParents(c)
    /\ begun' = [begun EXCEPT ![u] = c]
    /\ open' = open \cup {u}
    /\ UNCHANGED <<head, put, lapsed, commits, resolved, task>>

\* put_manifest and put_chunk until nothing of the upload is missing.
Put(u) ==
    /\ u \in open \ lapsed
    /\ put' = put \cup {u}
    /\ UNCHANGED <<head, begun, open, lapsed, commits, resolved, task>>

\* expires_at passes, 24 hours after begin.
Expire(u) ==
    /\ u \in open
    /\ lapsed' = lapsed \cup {u}
    /\ UNCHANGED <<head, begun, open, put, commits, resolved, task>>

(***************************************************************************)
(* Commit, one statement at a time                                         *)
(***************************************************************************)
At(r, at) == task[r] # None /\ task[r].at = at
Goto(r, at) == task' = [task EXCEPT ![r].at = at]

\* The upload has a live session, begun by the device that asks.
Usable(t) == t.upload \in open \ lapsed /\ begun[t.upload].device = t.device

\* A transaction that locked a session's row holds it until it ends.
HoldsSession(r, u) == task[r] # None /\ task[r].at \in {"check", "write"} /\ task[r].upload = u

Receive(r, d, u, x) ==
    /\ task[r] = None
    /\ begun[u] # None
    /\ task' = [task EXCEPT ![r] = [at |-> "receipt", device |-> d, upload |-> u,
                                    snapshot |-> x]]
    /\ UNCHANGED <<head, uploads, commits, resolved>>

\* persistent_receipt_by_upload: a replay, a refusal, or no receipt.
FindReceipt(t, missing) ==
    LET found == {c \in commits : c.upload = t.upload /\ c.content.device = t.device}
    IN  IF found = {} THEN missing
        ELSE IF \E c \in found : c.snapshot = t.snapshot THEN "reply" ELSE "refused"

LookUpReceipt(r) ==
    /\ At(r, "receipt")
    /\ Goto(r, FindReceipt(task[r], "session"))
    /\ UNCHANGED <<head, uploads, commits, resolved>>

\* The session, and then every object it needs.
ReadSession(r) ==
    /\ At(r, "session")
    /\ Goto(r, IF ~Usable(task[r]) THEN "again"
               ELSE IF task[r].upload \in put THEN "lock" ELSE "refused")
    /\ UNCHANGED <<head, uploads, commits, resolved>>

\* SELECT ... FOR UPDATE waits for the transaction that holds the row.
LockSession(r) ==
    /\ At(r, "lock")
    /\ \A q \in Request \ {r} : ~HoldsSession(q, task[r].upload)
    /\ Goto(r, IF Usable(task[r]) THEN "check" ELSE "again")
    /\ UNCHANGED <<head, uploads, commits, resolved>>

\* Mutant: the receipt is not looked up again.
NoLookUpAgain(r) ==
    /\ At(r, "again")
    /\ Goto(r, "notFound")
    /\ UNCHANGED <<head, uploads, commits, resolved>>

\* The session was gone: its receipt may have appeared meanwhile.
LookUpAgain(r) ==
    /\ At(r, "again")
    /\ Goto(r, FindReceipt(task[r], "notFound"))
    /\ UNCHANGED <<head, uploads, commits, resolved>>

\* Mutant: a snapshot id that has a receipt is a replay, whatever its content.
CheckSnapshotById(r) ==
    LET t == task[r]
        replay == t.snapshot \in Snapshots
    IN  /\ At(r, "check")
        /\ Goto(r, IF replay THEN "reply"
                   ELSE IF ValidParents(begun[t.upload]) THEN "write"
                   ELSE "refused")
        /\ open' = IF replay THEN open \ {t.upload} ELSE open
        /\ put' = IF replay THEN put \ {t.upload} ELSE put
        /\ UNCHANGED <<head, begun, lapsed, commits, resolved>>

\* The snapshot has a receipt: the same content is a replay, which ends the
\* session; any other is refused.  If not, the parents are validated again.
CheckSnapshot(r) ==
    LET t == task[r]
        same == {c \in commits : c.snapshot = t.snapshot}
        replay == \E c \in same : c.content = begun[t.upload]
    IN  /\ At(r, "check")
        /\ Goto(r, IF replay THEN "reply"
                   ELSE IF same = {} /\ ValidParents(begun[t.upload]) THEN "write"
                   ELSE "refused")
        /\ open' = IF replay THEN open \ {t.upload} ELSE open
        /\ put' = IF replay THEN put \ {t.upload} ELSE put
        /\ UNCHANGED <<head, begun, lapsed, commits, resolved>>

\* Mutant: an upload without a base matches any HEAD.
IsConflictUnlessNew(base, current) == base # None /\ base # current

\* Mutants: the outcome names the new snapshot, or the HEAD it met, always.
OutcomeHeadIsSnapshot(base, current, x) == x
OutcomeHeadIsCurrent(base, current, x) == current

\* cas_outcome
IsConflict(base, current) == base # current
OutcomeHead(base, current, x) ==
    IF IsConflict(base, current) /\ current # None THEN current ELSE x

\* The row of the snapshot and its receipt.
NewCommit(t, current) ==
    LET content == begun[t.upload]
    IN  [snapshot |-> t.snapshot, upload |-> t.upload, content |-> content,
         conflict |-> IsConflict(content.base, current),
         head |-> OutcomeHead(content.base, current, t.snapshot)]

\* Mutant: the snapshot's row has no unique key, so its id is committed twice.
WriteTwice(r) ==
    LET t == task[r]
        save == begun[t.upload].save
        new == NewCommit(t, head[save])
    IN  /\ At(r, "write")
        /\ commits' = commits \cup {new}
        /\ head' = IF new.conflict THEN head ELSE [head EXCEPT ![save] = t.snapshot]
        /\ open' = open \ {t.upload}
        /\ put' = put \ {t.upload}
        /\ Goto(r, "reply")
        /\ UNCHANGED <<begun, lapsed, resolved>>

\* HEAD is locked, the outcome decided, every row written and committed.  One
\* step, because the lock on HEAD's row (SELECT ... FOR UPDATE) is held from the
\* read to the commit: no other request of this save reads HEAD in between.
Write(r) ==
    LET t == task[r]
        save == begun[t.upload].save
        new == NewCommit(t, head[save])
    IN  /\ At(r, "write")
        /\ t.snapshot \notin Snapshots \* PRIMARY KEY (account_handle, id)
        /\ commits' = commits \cup {new}
        /\ head' = IF new.conflict THEN head ELSE [head EXCEPT ![save] = t.snapshot]
        /\ open' = open \ {t.upload}
        /\ put' = put \ {t.upload}
        /\ Goto(r, "reply")
        /\ UNCHANGED <<begun, lapsed, resolved>>

\* The response leaves, or is lost; or the server or the connection dies, or
\* a statement fails, and an open transaction rolls back.
End(r) ==
    /\ task[r] # None
    /\ task' = [task EXCEPT ![r] = None]
    /\ UNCHANGED <<head, uploads, commits, resolved>>

\* resolve_conflict_in_backend: the choice must still be the HEAD.
Resolve(x, chosen) ==
    /\ \E c \in commits : /\ c.snapshot = x
                          /\ c.conflict
                          /\ head[c.content.save] = chosen
    /\ resolved' = resolved \cup {x}
    /\ UNCHANGED <<head, uploads, commits, task>>

HandleCommit(r) ==
    \/ LookUpReceipt(r)
    \/ ReadSession(r)
    \/ LockSession(r)
    \/ LookUpAgain(r)
    \/ CheckSnapshot(r)
    \/ Write(r)

Next ==
    \/ \E u \in Upload : \/ \E c \in Content : Begin(u, c)
                         \/ Put(u)
                         \/ Expire(u)
    \/ \E r \in Request : \/ \E d \in Device, u \in Upload, x \in Snapshot : Receive(r, d, u, x)
                          \/ HandleCommit(r)
                          \/ End(r)
    \/ \E x, chosen \in Snapshot : Resolve(x, chosen)

Spec == Init /\ [][Next]_vars

(***************************************************************************)
(* Properties                                                              *)
(***************************************************************************)
\* A committed snapshot as a decision, with the HEAD its outcome tells of.
Decision(c) == [snapshot |-> c.snapshot, save |-> c.content.save, base |-> c.content.base,
                seen |-> IF ~c.conflict THEN c.content.base
                         ELSE IF c.head = c.snapshot THEN None ELSE c.head]
Decided == {Decision(c) : c \in commits}

Register == INSTANCE HeadRegister WITH decided <- Decided

\* Concurrent, repeated and dying commit requests behave as a register that
\* decides snapshots one at a time: NoForkedHistory follows.
ImplementsHeadRegister == Register!Spec

\* Two devices that built on the same HEAD never both move it.
NoForkedHistory == Register!NoForkedHistory

\* The HEAD is the last snapshot that advanced its save, never a conflict.
HeadEndsHistory == Register!HeadEndsHistory

\* A success is only reported for a snapshot committed with exactly the
\* content this upload was begun with, by the device that asks.
ReplyMatchesUpload ==
    \A r \in Request : At(r, "reply") =>
        \E c \in commits : /\ c.snapshot = task[r].snapshot
                           /\ c.content = begun[task[r].upload]
                           /\ c.content.device = task[r].device

\* A device that asks for its own upload is told "not found" only after the
\* upload expired, or once a replay of another upload's commit of the very same
\* content ended it: a retry that races or follows its commit finds a receipt.
NotFoundIsHarmless ==
    \A r \in Request :
        At(r, "notFound") /\ begun[task[r].upload].device = task[r].device
        => \/ task[r].upload \in lapsed
           \/ \E c \in commits : /\ c.upload # task[r].upload
                                 /\ c.content = begun[task[r].upload]

\* Every outcome the server records is one the client's receipt validation
\* accepts: a conflict names a HEAD that is not the snapshot itself.
ReceiptsAcceptable ==
    \A c \in commits : c.conflict <=> c.head # c.snapshot

\* The parents of a snapshot, its base among them, were committed before it,
\* in the same save; a committed row never changes.
ParentsCommittedFirst ==
    [][/\ commits \subseteq commits'
       /\ \A c \in commits' \ commits :
            /\ c.content.parents \subseteq InSave(c.content.save)
            /\ c.content.base # None => c.content.base \in c.content.parents]_vars
=============================================================================
