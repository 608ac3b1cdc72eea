------------------------------ MODULE OrphanGc ------------------------------
(***************************************************************************)
(* How the server stores, commits and reclaims one encrypted object        *)
(* (crates/save-server/src/lib.rs and deploy/compose/scripts/gc-orphans.sh)*)
(* over PostgreSQL and a versioned S3 bucket.  Uploads put it and commit   *)
(* snapshots that need it, while collectors mark, claim and sweep it when  *)
(* nothing needs it, and purgers remove the versions that were swept.      *)
(*                                                                         *)
(* Every table and lock involved is keyed by the object, so objects do not *)
(* interact, but for one thing: a purge plans a batch of them, and fails as *)
(* a whole.  The other objects of the batch are left to chance.  The grace *)
(* period is left out: an object may be old enough at any time, and what   *)
(* keeps it is the roots alone.                                            *)
(***************************************************************************)
EXTENDS FiniteSetsExt, Naturals

CONSTANTS
    Upload, \* upload sessions that need the object
    Bytes,  \* ciphertexts it may be put with: a chunk's id names its
            \* plaintext, and every encryption draws a new nonce
    Worker, \* orphan collections that may run
    Purger, \* physical purges that may run
    None,   \* no row, no mark, no lease holder
    Eager,  \* TRUE: clients put it even if begin does not call it missing
    MaxGen  \* bound: versions the bucket ever gets

ASSUME GcAssumption ==
    /\ None \notin Bytes \cup Worker \cup Purger
    /\ Eager \in BOOLEAN
    /\ MaxGen \in Nat

VARIABLES
    upload,   \* upload_sessions, snapshots and snapshot_objects
    at,       \* the request in flight for each upload, and how far it is
    row,      \* objects.checksum_sha256, standing for the bytes it is of
    versions, \* the bucket's versions of the object
    gen,      \* how many versions there have been
    mark,     \* orphan_gc_marks
    gc,       \* each collection's sweep
    queue,    \* orphan_gc_purge_queue
    purge     \* each purge script

requests == <<upload, at>>
store == <<row, versions, gen>>
marks == <<mark, gc>>
purges == <<queue, purge>>
vars == <<requests, store, marks, purges>>

Gen == 1 .. MaxGen
Session == [state : {"new", "open", "expired", "committed"},
            bytes : Bytes \cup {None}, missing : BOOLEAN]
Lease(S) == [owner : S \cup {None}, live : BOOLEAN]
\* None is no queue entry.
ASSUME NoEntryAssumption == None \notin [head : Gen, lease : Lease(Purger)]

Unleased(l) == l.owner = None \/ ~l.live

TypeOK ==
    /\ upload \in [Upload -> Session]
    /\ at \in [Upload -> {"idle", "putting", "stored", "checked", "open", "inserted"}]
    /\ row \in Bytes \cup {None}
    /\ versions \subseteq [gen : 1 .. gen, bytes : Bytes]
    /\ gen \in 0 .. MaxGen
    /\ mark \in Lease(Worker) \cup {None}
    /\ gc \in [Worker -> [at : {"idle", "claimed", "owned", "locked", "rootless", "captured"},
                          head : 0 .. MaxGen]]
    /\ queue \in [head : Gen, lease : Lease(Purger)] \cup {None}
    /\ purge \in [Purger -> [at : {"idle", "claimed", "purging"}, head : 0 .. MaxGen,
                             plan : SUBSET Gen]]

Init ==
    /\ upload = [u \in Upload |-> [state |-> "new", bytes |-> None, missing |-> FALSE]]
    /\ at = [u \in Upload |-> "idle"]
    /\ row = None
    /\ versions = {}
    /\ gen = 0
    /\ mark = None
    /\ gc = [w \in Worker |-> [at |-> "idle", head |-> 0]]
    /\ queue = None
    /\ purge = [p \in Purger |-> [at |-> "idle", head |-> 0, plan |-> {}]]

(***************************************************************************)
(* What the statements read                                                *)
(***************************************************************************)
Committed == {u \in Upload : upload[u].state = "committed"}

\* The version that HEAD and GET see: the newest one.
Head == Max({v.gen : v \in versions})

\* persistent_object_exists: its row, and a HEAD of the bucket.
ObjectExists == row # None /\ versions # {}

\* object_roots_exist_tx: snapshots that refer to it and live sessions that
\* require it.
RootsExist == \E u \in Upload : upload[u].state \in {"open", "committed"}

\* lock_gc_object_tx: the advisory lock, held until its transaction ends.
LockFree == /\ \A u \in Upload : at[u] # "stored"
            /\ \A w \in Worker : gc[w].at \notin {"locked", "rootless", "captured"}

(***************************************************************************)
(* Uploads                                                                 *)
(***************************************************************************)
Goto(u, from, to) == at[u] = from /\ at' = [at EXCEPT ![u] = to]

\* begin_snapshot: under the lock, the missing set and the new session.
Begin(u, b) ==
    /\ upload[u].state = "new"
    /\ LockFree
    /\ upload' = [upload EXCEPT ![u] = [state |-> "open", bytes |-> b,
                                        missing |-> ~ObjectExists]]
    /\ UNCHANGED <<at, store, marks, purges>>

\* expires_at passes.
Expire(u) ==
    /\ upload[u].state = "open"
    /\ upload' = [upload EXCEPT ![u].state = "expired"]
    /\ UNCHANGED <<at, store, marks, purges>>

\* put_chunk or put_manifest finds the session.
Put(u) ==
    /\ upload[u].state = "open"
    /\ upload[u].missing \/ Eager
    /\ Goto(u, "idle", "putting")
    /\ UNCHANGED <<upload, store, marks, purges>>

\* persistent_put_object: the lock is taken, and the bytes reach the bucket
\* before the row is looked at.
StoreBytes(u) ==
    /\ LockFree
    /\ gen < MaxGen
    /\ Goto(u, "putting", "stored")
    /\ gen' = gen + 1
    /\ versions' = versions \cup {[gen |-> gen + 1, bytes |-> upload[u].bytes]}
    /\ UNCHANGED <<upload, row, marks, purges>>

\* The row is inserted unless there is one; one with another checksum refuses
\* the put, whose transaction rolls back.  A put that succeeds drops the mark.
PutRow(u) ==
    /\ Goto(u, "stored", "idle")
    /\ row' = IF row = None THEN upload[u].bytes ELSE row
    /\ mark' = IF row' = upload[u].bytes THEN None ELSE mark
    /\ UNCHANGED <<upload, versions, gen, gc, purges>>

\* commit: the session is read and the object found, outside any transaction.
CheckObject(u) ==
    /\ upload[u].state = "open"
    /\ ObjectExists
    /\ Goto(u, "idle", "checked")
    /\ UNCHANGED <<upload, store, marks, purges>>

\* The session is locked.  now() is when the transaction began, so its expiry
\* is not looked at again.
OpenCommit(u) ==
    /\ upload[u].state = "open"
    /\ Goto(u, "checked", "open")
    /\ UNCHANGED <<upload, store, marks, purges>>

\* Mutant: snapshot_objects has no foreign key to objects.
InsertReferenceUnchecked(u) ==
    /\ Goto(u, "open", "inserted")
    /\ UNCHANGED <<upload, store, marks, purges>>

\* snapshot_objects: the foreign key needs the row, and keeps it locked.
InsertReference(u) ==
    /\ row # None
    /\ Goto(u, "open", "inserted")
    /\ UNCHANGED <<upload, store, marks, purges>>

Commit(u) ==
    /\ Goto(u, "inserted", "idle")
    /\ upload' = [upload EXCEPT ![u].state = "committed"]
    /\ UNCHANGED <<store, marks, purges>>

\* A check or a statement fails, or the server or its connection dies.
Fail(u) ==
    /\ at[u] # "idle"
    /\ at' = [at EXCEPT ![u] = "idle"]
    /\ UNCHANGED <<upload, store, marks, purges>>

(***************************************************************************)
(* Logical collection                                                      *)
(***************************************************************************)
InsertMark == mark' = IF mark = None THEN [owner |-> None, live |-> FALSE] ELSE mark

\* mark_tracked_orphans: one statement, without the lock.
MarkTracked ==
    /\ row # None /\ ~RootsExist
    /\ InsertMark
    /\ UNCHANGED <<requests, store, gc, purges>>

\* mark_untracked_orphans: the bucket listed the object, perhaps a while ago.
MarkUntracked ==
    /\ gen > 0
    /\ LockFree
    /\ row = None /\ ~RootsExist
    /\ InsertMark
    /\ UNCHANGED <<requests, store, gc, purges>>

GcStep(w, from, to) == gc[w].at = from /\ gc' = [gc EXCEPT ![w].at = to]

\* Mutant: a mark whose lease ran out is not claimed again.
ClaimMarkOnce(w) ==
    /\ mark # None /\ mark.owner = None
    /\ GcStep(w, "idle", "claimed")
    /\ mark' = [owner |-> w, live |-> TRUE]
    /\ UNCHANGED <<requests, store, purges>>

ClaimMark(w) ==
    /\ mark # None /\ Unleased(mark)
    /\ GcStep(w, "idle", "claimed")
    /\ mark' = [owner |-> w, live |-> TRUE]
    /\ UNCHANGED <<requests, store, purges>>

ExpireMarkLease ==
    /\ mark # None /\ mark.live
    /\ mark' = [mark EXCEPT !.live = FALSE]
    /\ UNCHANGED <<requests, store, gc, purges>>

\* sweep_claimed_orphan checks its lease before it waits for the lock.
CheckOwned(w) ==
    /\ GcStep(w, "claimed", IF mark = [owner |-> w, live |-> TRUE] THEN "owned" ELSE "idle")
    /\ UNCHANGED <<requests, store, mark, purges>>

LockObject(w) ==
    /\ LockFree
    /\ GcStep(w, "owned", "locked")
    /\ UNCHANGED <<requests, store, mark, purges>>

\* DELETE ... WHERE lease_token: only the lease's last owner drops the mark.
DropMark(w) == mark' = IF mark # None /\ mark.owner = w THEN None ELSE mark

CheckRoots(w) ==
    /\ GcStep(w, "locked", IF RootsExist THEN "idle" ELSE "rootless")
    /\ IF RootsExist THEN DropMark(w) ELSE UNCHANGED mark
    /\ UNCHANGED <<requests, store, purges>>

CaptureHead(w) ==
    /\ gc[w].at = "rootless"
    /\ gc' = [gc EXCEPT ![w] = [at |-> "captured", head |-> IF versions = {} THEN 0 ELSE Head]]
    /\ UNCHANGED <<requests, store, mark, purges>>

\* Mutant: an object that is not in the bucket is queued as well.
SweepQueuesMissing(w) ==
    LET referenced == row # None /\ Committed # {}
    IN  /\ \A u \in Upload : at[u] # "inserted"
        /\ gc[w].at = "captured"
        /\ gc' = [gc EXCEPT ![w] = [at |-> "idle", head |-> 0]]
        /\ IF referenced THEN UNCHANGED <<row, queue, mark>>
           ELSE /\ row' = None
                /\ queue' = IF queue # None THEN queue
                            ELSE [head |-> gc[w].head, lease |-> [owner |-> None, live |-> FALSE]]
                /\ DropMark(w)
        /\ UNCHANGED <<requests, versions, gen, purge>>

\* The row is deleted, which waits for a commit that references it and fails
\* once it has; the captured version is queued; the mark goes.
Sweep(w) ==
    LET referenced == row # None /\ Committed # {}
        head == gc[w].head
    IN  /\ \A u \in Upload : at[u] # "inserted"
        /\ gc[w].at = "captured"
        /\ gc' = [gc EXCEPT ![w] = [at |-> "idle", head |-> 0]]
        /\ IF referenced THEN UNCHANGED <<row, queue, mark>>
           ELSE /\ row' = None
                /\ queue' = IF queue = None /\ head # 0
                            THEN [head |-> head, lease |-> [owner |-> None, live |-> FALSE]]
                            ELSE queue
                /\ DropMark(w)
        /\ UNCHANGED <<requests, versions, gen, purge>>

\* The collection is killed or a call fails: its transaction rolls back.
FailGc(w) ==
    /\ gc[w].at # "idle"
    /\ gc' = [gc EXCEPT ![w] = [at |-> "idle", head |-> 0]]
    /\ UNCHANGED <<requests, store, mark, purges>>

(***************************************************************************)
(* Physical purge                                                          *)
(***************************************************************************)
ClaimQueue(p) ==
    /\ queue # None /\ Unleased(queue.lease)
    /\ purge[p].at = "idle"
    /\ queue' = [queue EXCEPT !.lease = [owner |-> p, live |-> TRUE]]
    /\ purge' = [purge EXCEPT ![p] = [at |-> "claimed", head |-> queue.head, plan |-> {}]]
    /\ UNCHANGED <<requests, store, marks>>

ExpireQueueLease ==
    /\ queue # None /\ queue.lease.live
    /\ queue' = [queue EXCEPT !.lease.live = FALSE]
    /\ UNCHANGED <<requests, store, marks, purge>>

Stopped == [at |-> "idle", head |-> 0, plan |-> {}]

\* Mutant: every version of the object is planned.
PlanPurgeAll(p) ==
    /\ purge[p].at = "claimed"
    /\ purge' = [purge EXCEPT ![p].at = "purging", ![p].plan = {v.gen : v \in versions}]
    /\ UNCHANGED <<requests, store, marks, queue>>

\* Mutant: an object whose captured version is gone is passed over.
PlanPurgePassesOver(p) ==
    LET listed == {v.gen : v \in versions}
        head == purge[p].head
    IN  /\ purge[p].at = "claimed"
        /\ purge' = [purge EXCEPT ![p].at = "purging",
                        ![p].plan = IF head \in listed THEN {g \in listed : g <= head} ELSE {}]
        /\ UNCHANGED <<requests, store, marks, queue>>

\* The versions are listed, and the captured one and all older are planned; the
\* script exits at the first entry of its batch whose captured version is not
\* listed, this object's or another's.
PlanPurge(p) ==
    LET listed == {v.gen : v \in versions}
        head == purge[p].head
    IN  /\ purge[p].at = "claimed"
        /\ \E othersListed \in BOOLEAN :
            purge' = [purge EXCEPT ![p] =
                        IF head \in listed /\ othersListed
                        THEN [@ EXCEPT !.at = "purging", !.plan = {g \in listed : g <= head}]
                        ELSE Stopped]
        /\ UNCHANGED <<requests, store, marks, queue>>

\* mc rm --version-id, newest first.
DeleteVersion(p) ==
    /\ purge[p].at = "purging"
    /\ purge[p].plan # {}
    /\ versions' = {v \in versions : v.gen # Max(purge[p].plan)}
    /\ purge' = [purge EXCEPT ![p].plan = @ \ {Max(@)}]
    /\ UNCHANGED <<requests, row, gen, marks, queue>>

\* DELETE ... WHERE lease_token
Acknowledge(p) ==
    /\ purge[p].at = "purging"
    /\ purge[p].plan = {}
    /\ queue' = IF queue # None /\ queue.lease.owner = p THEN None ELSE queue
    /\ purge' = [purge EXCEPT ![p] = Stopped]
    /\ UNCHANGED <<requests, store, marks>>

FailPurge(p) ==
    /\ purge[p].at # "idle"
    /\ purge' = [purge EXCEPT ![p] = Stopped]
    /\ UNCHANGED <<requests, store, marks, queue>>

(***************************************************************************)
(* Specification                                                           *)
(***************************************************************************)
UploadStep(u) ==
    \/ \E b \in Bytes : Begin(u, b)
    \/ Expire(u)
    \/ Put(u)
    \/ StoreBytes(u)
    \/ PutRow(u)
    \/ CheckObject(u)
    \/ OpenCommit(u)
    \/ InsertReference(u)
    \/ Commit(u)
    \/ Fail(u)

SweepStep(w) ==
    \/ CheckOwned(w)
    \/ LockObject(w)
    \/ CheckRoots(w)
    \/ CaptureHead(w)
    \/ Sweep(w)

PurgeStep(p) ==
    \/ PlanPurge(p)
    \/ DeleteVersion(p)
    \/ Acknowledge(p)

Next ==
    \/ \E u \in Upload : UploadStep(u)
    \/ MarkTracked
    \/ MarkUntracked
    \/ ExpireMarkLease
    \/ \E w \in Worker : ClaimMark(w) \/ SweepStep(w) \/ FailGc(w)
    \/ ExpireQueueLease
    \/ \E p \in Purger : ClaimQueue(p) \/ PurgeStep(p) \/ FailPurge(p)

Spec == Init /\ [][Next]_vars

(***************************************************************************)
(* Properties                                                              *)
(***************************************************************************)
\* "HEAD never references absent objects": a committed snapshot's object has
\* its row and some bytes, whatever sweeps and purges run beside commits.
NeverAbsent == Committed # {} => ObjectExists

\* The bytes an objects row was written for are in the bucket as long as the
\* row is, and newer than every version that is queued for purging or being
\* purged: "a newer version uploaded after logical GC is preserved".
RecordedBytesKept ==
    row # None => \E v \in versions :
        /\ v.bytes = row
        /\ queue # None => v.gen > queue.head
        /\ \A p \in Purger : v.gen > purge[p].head

\* "Immutable content-addressed chunks": what a committed snapshot's object
\* reads back as has the checksum its row records.
CommittedReadable ==
    Committed # {} => \E v \in versions : v.gen = Head /\ v.bytes = row

\* "the queue is acknowledged only after success": an entry goes only when its
\* captured version and all older ones have left the bucket, however many purges
\* died over it or outlived their leases.
AcknowledgedIsPurged ==
    [][queue # None /\ queue' = None => \A v \in versions : v.gen > queue.head]_vars

(***************************************************************************)
(* Liveness.  An operator runs the collection again and again; any run may *)
(* be killed or outlive its lease, but not every one.  A request that      *)
(* holds the object's lock ends.  Nothing is asked of the purges: an entry *)
(* that a dead one left half purged stops every batch that it is in.       *)
(***************************************************************************)
Fairness ==
    /\ \A u \in Upload : WF_vars(PutRow(u)) /\ WF_vars(Commit(u) \/ Fail(u))
    /\ WF_vars(MarkTracked) /\ WF_vars(ExpireMarkLease)
    /\ \A w \in Worker : /\ WF_vars(ClaimMark(w)) /\ WF_vars(SweepStep(w))
                         /\ SF_vars(CheckOwned(w) /\ gc'[w].at = "owned")
                         /\ SF_vars(LockObject(w)) /\ SF_vars(CheckRoots(w))
                         /\ SF_vars(CaptureHead(w)) /\ SF_vars(Sweep(w))

FairSpec == Spec /\ Fairness

\* An object with a row that nothing refers to is swept, or needed again: no
\* crash and no lost lease leaves it unmarked or its mark unclaimable.
OrphanSwept == row # None /\ ~RootsExist ~> row = None \/ RootsExist
=============================================================================
