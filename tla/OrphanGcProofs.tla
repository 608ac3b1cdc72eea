--------------------------- MODULE OrphanGcProofs ---------------------------
(***************************************************************************)
(* For any uploads, ciphertexts, collections, purges and bounds, nothing   *)
(* that a committed snapshot needs is swept, and no purge takes the bytes  *)
(* that an objects row was written for.                                    *)
(***************************************************************************)
EXTENDS OrphanGc, WellFoundedInduction, TLAPS

(***************************************************************************)
(* The inductive invariant                                                 *)
(***************************************************************************)
\* There is a version of the bytes b that no purge will take: it is newer than
\* all that are queued or being purged.
Preserved(b) == \E v \in versions :
    /\ v.bytes = b
    /\ queue # None => v.gen > queue.head
    /\ \A p \in Purger : v.gen > purge[p].head

\* A put that has stored its bytes and has yet to write the row holds the lock,
\* so that no sweep can queue the version that it has just put.
StoredPreserved == \A u \in Upload : at[u] = "stored" => Preserved(upload[u].bytes)
LockInv == \A u \in Upload, w \in Worker :
               at[u] = "stored" => gc[w].at \notin {"locked", "rootless", "captured"}

\* Only versions that exist, or did, are captured, queued and purged, and a
\* purge takes none that is newer than the one that was captured.
HeadsKnown ==
    /\ \A w \in Worker : gc[w].head <= gen
    /\ queue # None => queue.head <= gen
    /\ \A p \in Purger : /\ purge[p].head <= gen
                         /\ \A g \in purge[p].plan : g <= purge[p].head

\* What a snapshot refers to, committed or about to be, keeps its row.
ReferenceInv ==
    (Committed # {} \/ \E u \in Upload : at[u] = "inserted") => row # None

\* A request has found its session, and the session names the bytes.
SessionInv == \A u \in Upload :
    /\ upload[u].state # "new" => upload[u].bytes \in Bytes
    /\ at[u] # "idle" => upload[u].state # "new"

Inv ==
    /\ TypeOK
    /\ RecordedBytesKept
    /\ StoredPreserved
    /\ LockInv
    /\ HeadsKnown
    /\ ReferenceInv
    /\ SessionInv

(***************************************************************************)
(* The operators of the model                                              *)
(***************************************************************************)
\* Versions are bounded, so that a set of them has a newest one.
LEMMA Newest ==
    ASSUME NEW n \in Nat, NEW S \in SUBSET (1 .. n), S # {}
    PROVE  Max(S) \in S /\ \A g \in S : g <= Max(S)
<1> DEFINE T == {n - g : g \in S}
           R == OpToRel(<, Nat)
<1>1. T \subseteq Nat /\ T # {}
  <2>1. \A g \in S : n - g \in Nat
    OBVIOUS
  <2>2. QED
    BY <2>1
<1>2. \A x, y \in Nat : y < x => <<y, x>> \in R
  BY DEF OpToRel
<1>3. PICK x \in T : \A y \in T : <<y, x>> \notin R
  <2> HIDE DEF T, R
  <2>1. IsWellFoundedOn(R, Nat)
    BY NatLessThanWellFounded DEF R
  <2>2. QED
    BY <1>1, <2>1, WFMin
<1>4. \A y \in T : x <= y
  <2> HIDE DEF R
  <2>1. \A y \in T : ~(y < x)
    BY <1>1, <1>2, <1>3
  <2>2. QED
    BY <1>1, <2>1
<1>5. PICK m \in S : x = n - m
  OBVIOUS
<1>6. \A g \in S : m >= g
  <2> SUFFICES ASSUME NEW g \in S PROVE m >= g
    OBVIOUS
  <2>1. n - g \in T
    OBVIOUS
  <2>2. QED
    BY <1>4, <1>5, <2>1
<1>7. Max(S) \in S /\ \A g \in S : Max(S) >= g
  BY <1>6 DEF Max
<1>8. QED
  BY <1>7

\* A lease that is taken, or free, or has run out.
LEMMA Leases ==
    ASSUME NEW S
    PROVE  /\ [owner |-> None, live |-> FALSE] \in Lease(S)
           /\ \A o \in S : [owner |-> o, live |-> TRUE] \in Lease(S)
           /\ \A l \in Lease(S) : [l EXCEPT !.live = FALSE] \in Lease(S)
BY DEF Lease

\* The versions of the bucket are numbered from 1 to gen.
LEMMA Versions ==
    ASSUME TypeOK
    PROVE  /\ {v.gen : v \in versions} \subseteq 1 .. gen
           /\ \A v \in versions : v.gen \in 1 .. gen /\ v.bytes \in Bytes
           /\ gen \in Nat /\ gen <= MaxGen /\ MaxGen \in Nat
BY GcAssumption DEF TypeOK

\* What no purge takes stays so while versions only come and purges only end.
LEMMA PreservedKeeps ==
    ASSUME NEW b, Preserved(b), versions \subseteq versions',
           queue' \in {queue, None}, \A p \in Purger : purge'[p].head = purge[p].head
    PROVE  Preserved(b)'
BY DEF Preserved

(***************************************************************************)
(* Uploads                                                                 *)
(***************************************************************************)
\* A put's new version is newer than everything that is queued or being purged.
LEMMA StoreKeeps ==
    ASSUME Inv, NEW u \in Upload, StoreBytes(u)
    PROVE  Inv'
<1>1. /\ TypeOK /\ HeadsKnown /\ LockFree /\ gen < MaxGen /\ gen \in Nat /\ MaxGen \in Nat
      /\ at[u] = "putting" /\ at' = [at EXCEPT ![u] = "stored"] /\ gen' = gen + 1
      /\ versions' = versions \cup {[gen |-> gen + 1, bytes |-> upload[u].bytes]}
      /\ UNCHANGED <<upload, row, mark, gc, queue, purge>>
  BY Versions DEF Inv, StoreBytes, Goto, marks, purges
<1>2. /\ upload[u].bytes \in Bytes /\ at'[u] = "stored"
      /\ \A s \in Upload \ {u} : at'[s] = at[s]
  <2>1. upload[u].bytes \in Bytes
    BY <1>1 DEF Inv, SessionInv
  <2>2. QED
    BY <1>1, <2>1 DEF TypeOK
<1>3. versions' \subseteq [gen : 1 .. gen', bytes : Bytes]
  BY <1>1, <1>2, Versions DEF TypeOK
<1>4. TypeOK'
  BY <1>1, <1>3, Versions DEF TypeOK
<1>5. HeadsKnown'
  <2>1. \A w \in Worker : gc[w].head \in Nat
    BY <1>1 DEF TypeOK
  <2>2. \A p \in Purger : purge[p].head \in Nat
    BY <1>1 DEF TypeOK
  <2>3. queue # None => queue.head \in Nat
    BY <1>1 DEF TypeOK, Gen
  <2>4. QED
    BY <1>1, <2>1, <2>2, <2>3 DEF HeadsKnown
<1>6. Preserved(upload[u].bytes)'
  <2> DEFINE v == [gen |-> gen + 1, bytes |-> upload[u].bytes]
  <2>1. v \in versions' /\ v.gen = gen + 1 /\ v.bytes = upload[u].bytes
    BY <1>1
  <2>2. queue # None => v.gen > queue.head
    BY <1>1, <2>1 DEF HeadsKnown, TypeOK, Gen
  <2>3. \A p \in Purger : v.gen > purge[p].head
    BY <1>1, <2>1 DEF HeadsKnown, TypeOK
  <2> HIDE DEF v
  <2>4. QED
    BY <1>1, <2>1, <2>2, <2>3 DEF Preserved
<1>7. StoredPreserved' /\ RecordedBytesKept'
  <2>1. \A b : Preserved(b) => Preserved(b)'
    BY <1>1, PreservedKeeps
  <2>2. QED
    BY <1>1, <1>2, <1>6, <2>1 DEF Inv, StoredPreserved, RecordedBytesKept, Preserved
<1>8. LockInv'
  BY <1>1 DEF LockFree, LockInv
<1>9. ReferenceInv' /\ SessionInv'
  BY <1>1, <1>2 DEF Inv, ReferenceInv, SessionInv, Committed
<1>10. QED
  BY <1>4, <1>5, <1>7, <1>8, <1>9 DEF Inv

\* The other steps of an upload leave the bucket and the queue alone.
LEMMA UploadKeeps ==
    ASSUME Inv, NEW u \in Upload, UploadStep(u), ~StoreBytes(u)
    PROVE  Inv'
<1>1. /\ UNCHANGED <<versions, gen, gc, queue, purge>>
      /\ TypeOK /\ StoredPreserved /\ LockInv /\ ReferenceInv /\ SessionInv
  BY DEF UploadStep, Begin, Expire, Put, PutRow, CheckObject, OpenCommit, InsertReference,
     Commit, Fail, store, marks, purges, Inv
<1>2. /\ HeadsKnown'
      /\ \A b : Preserved(b) <=> Preserved(b)'
      /\ RecordedBytesKept => (row # None => Preserved(row))
      /\ (row # None => Preserved(row))' => RecordedBytesKept'
  BY <1>1 DEF Inv, HeadsKnown, Preserved, RecordedBytesKept
<1>3. CASE \E b \in Bytes : Begin(u, b)
  <2>1. PICK b \in Bytes :
             upload' = [upload EXCEPT ![u] = [state |-> "open", bytes |-> b,
                                              missing |-> ~ObjectExists]]
    BY <1>3 DEF Begin
  <2>2. /\ upload[u].state = "new" /\ LockFree /\ UNCHANGED <<at, row, mark>>
        /\ upload \in [Upload -> Session]
    BY <1>1, <1>3 DEF Begin, store, marks, TypeOK
  <2>3. TypeOK'
    BY <1>1, <2>1, <2>2 DEF TypeOK, Session, ObjectExists
  <2>4. StoredPreserved' /\ LockInv'
    BY <1>1, <2>2 DEF StoredPreserved, LockFree, LockInv
  <2>5. ReferenceInv' /\ SessionInv'
    BY <1>1, <2>1, <2>2 DEF ReferenceInv, SessionInv, Committed
  <2>6. QED
    BY <1>2, <2>2, <2>3, <2>4, <2>5 DEF Inv
<1>4. CASE PutRow(u)
  <2>1. /\ at[u] = "stored" /\ at' = [at EXCEPT ![u] = "idle"] /\ upload' = upload
        /\ row' = (IF row = None THEN upload[u].bytes ELSE row) /\ mark' \in {mark, None}
    BY <1>4 DEF PutRow, Goto
  <2>2. upload[u].bytes \in Bytes /\ Preserved(upload[u].bytes)
    BY <1>1, <2>1 DEF SessionInv, StoredPreserved
  <2>3. TypeOK'
    BY <1>1, <2>1, <2>2 DEF TypeOK
  <2>4. StoredPreserved' /\ LockInv' /\ SessionInv'
    BY <1>1, <1>2, <2>1 DEF StoredPreserved, LockInv, SessionInv, TypeOK
  <2>5. row' # None /\ (row # None => Preserved(row))'
    BY <1>2, <2>1, <2>2, GcAssumption DEF Inv
  <2>6. QED
    BY <1>2, <2>3, <2>4, <2>5 DEF Inv, ReferenceInv
<1>5. CASE Expire(u) \/ Put(u) \/ CheckObject(u) \/ OpenCommit(u) \/ InsertReference(u)
           \/ Commit(u) \/ Fail(u)
  <2>1. /\ UNCHANGED <<row, mark>>
        /\ \A s \in Upload : upload'[s].bytes = upload[s].bytes
        /\ \A s \in Upload : at'[s] = "stored" => at[s] = "stored"
    BY <1>1, <1>5 DEF Expire, Put, CheckObject, OpenCommit, InsertReference, Commit, Fail,
       Goto, store, marks, TypeOK, Session
  <2>2. TypeOK'
    <3>1. upload' \in [Upload -> Session]
      BY <1>1, <1>5 DEF Expire, Put, CheckObject, OpenCommit, InsertReference, Commit,
         Fail, TypeOK, Session
    <3>2. at' \in [Upload -> {"idle", "putting", "stored", "checked", "open", "inserted"}]
      BY <1>1, <1>5 DEF Expire, Put, CheckObject, OpenCommit, InsertReference, Commit,
         Fail, Goto, TypeOK
    <3>3. QED
      BY <1>1, <2>1, <3>1, <3>2 DEF TypeOK
  <2>3. StoredPreserved' /\ LockInv'
    BY <1>1, <1>2, <2>1 DEF StoredPreserved, LockInv
  <2>4. SessionInv'
    <3>1. \A s \in Upload : upload'[s].state = "new" => upload[s].state = "new"
      BY <1>1, <1>5 DEF Expire, Put, CheckObject, OpenCommit, InsertReference, Commit,
         Fail, TypeOK, Session
    <3>2. \A s \in Upload : upload[s].state = "new" => upload'[s].state = "new"
      BY <1>1, <1>5 DEF Expire, Put, CheckObject, OpenCommit, InsertReference, Commit,
         Fail, Goto, TypeOK, Session, SessionInv
    <3>3. \A s \in Upload : at'[s] # "idle" => at[s] # "idle" \/ upload[s].state = "open"
      BY <1>1, <1>5 DEF Expire, Put, CheckObject, OpenCommit, InsertReference, Commit,
         Fail, Goto, TypeOK
    <3>4. QED
      BY <1>1, <2>1, <3>1, <3>2, <3>3 DEF SessionInv
  <2>5. ReferenceInv'
    BY <1>1, <1>5, <2>1 DEF Expire, Put, CheckObject, OpenCommit, InsertReference, Commit,
       Fail, Goto, TypeOK, Session, ReferenceInv, Committed
  <2>6. QED
    BY <1>2, <2>1, <2>2, <2>3, <2>4, <2>5 DEF Inv
<1>6. QED
  BY <1>3, <1>4, <1>5 DEF UploadStep

(***************************************************************************)
(* Collection                                                              *)
(***************************************************************************)
\* Marking, leases and everything before the sweep only moves the collections,
\* and the lock keeps them off an object whose put is not finished.
LEMMA MarkKeeps ==
    ASSUME Inv,
           \/ MarkTracked \/ MarkUntracked \/ ExpireMarkLease
           \/ \E w \in Worker : \/ ClaimMark(w) \/ FailGc(w) \/ CheckOwned(w) \/ LockObject(w)
                                \/ CheckRoots(w) \/ CaptureHead(w)
    PROVE  Inv'
<1>1. /\ UNCHANGED <<upload, at, row, versions, gen, queue, purge>>
      /\ TypeOK /\ LockInv /\ HeadsKnown
  BY DEF MarkTracked, MarkUntracked, ExpireMarkLease, ClaimMark, FailGc, CheckOwned,
     LockObject, CheckRoots, CaptureHead, requests, store, purges, Inv
<1>2. Head \in 0 .. gen \/ versions = {}
  <2> DEFINE S == {v.gen : v \in versions}
  <2>1. S \in SUBSET (1 .. gen) /\ gen \in Nat /\ (S = {} => versions = {})
    BY <1>1, Versions
  <2> HIDE DEF S
  <2>2. S # {} => Max(S) \in 0 .. gen
    <3>1. S # {} => Max(S) \in S
      BY <2>1, Newest
    <3>2. \A g \in 1 .. gen : g \in 0 .. gen
      BY <2>1
    <3>3. QED
      BY <2>1, <3>1, <3>2
  <2>3. QED
    BY <2>1, <2>2 DEF Head, S
<1>3. mark' \in Lease(Worker) \cup {None}
  <2>1. CASE MarkTracked \/ MarkUntracked
    BY <1>1, <2>1, Leases DEF MarkTracked, MarkUntracked, InsertMark, TypeOK
  <2>2. CASE ExpireMarkLease
    BY <1>1, <2>2, Leases DEF ExpireMarkLease, TypeOK
  <2>3. CASE \E w \in Worker : \/ ClaimMark(w) \/ FailGc(w) \/ CheckOwned(w) \/ LockObject(w)
                               \/ CheckRoots(w) \/ CaptureHead(w)
    BY <1>1, <2>3, Leases DEF ClaimMark, FailGc, CheckOwned, LockObject, CheckRoots,
       CaptureHead, DropMark, TypeOK
  <2>4. QED
    BY <2>1, <2>2, <2>3
<1>4. /\ gc' \in [Worker -> [at : {"idle", "claimed", "owned", "locked", "rootless", "captured"},
                             head : 0 .. MaxGen]]
      /\ \A w \in Worker : gc'[w].head <= gen
      /\ LockInv'
  <2>1. CASE gc' = gc
    BY <1>1, <2>1 DEF TypeOK, HeadsKnown, LockInv
  <2>2. ASSUME NEW w \in Worker,
               \/ ClaimMark(w) \/ FailGc(w) \/ CheckOwned(w) \/ LockObject(w)
               \/ CheckRoots(w) \/ CaptureHead(w)
        PROVE  /\ gc' = [gc EXCEPT ![w] = gc'[w]]
               /\ gc'[w].at \in {"idle", "claimed", "owned", "locked", "rootless", "captured"}
               /\ gc'[w].head \in 0 .. gen
               /\ gc'[w] = [at |-> gc'[w].at, head |-> gc'[w].head]
               /\ \/ LockFree \/ gc'[w].at \notin {"locked", "rootless", "captured"}
                  \/ gc[w].at \in {"locked", "rootless", "captured"}
    <3>1. /\ gc \in [Worker -> [at : {"idle", "claimed", "owned", "locked", "rootless",
                                      "captured"}, head : 0 .. MaxGen]]
          /\ gc[w].head \in 0 .. gen /\ gen \in Nat
      BY <1>1, Versions DEF TypeOK, HeadsKnown
    <3>2. CASE CaptureHead(w)
      BY <1>2, <3>1, <3>2 DEF CaptureHead
    <3>3. CASE FailGc(w)
      BY <3>1, <3>3 DEF FailGc
    <3>4. CASE ClaimMark(w) \/ CheckOwned(w) \/ LockObject(w) \/ CheckRoots(w)
      BY <3>1, <3>4 DEF ClaimMark, CheckOwned, LockObject, CheckRoots, GcStep
    <3>5. QED
      BY <2>2, <3>2, <3>3, <3>4
  <2>3. ASSUME NEW w \in Worker,
               \/ ClaimMark(w) \/ FailGc(w) \/ CheckOwned(w) \/ LockObject(w)
               \/ CheckRoots(w) \/ CaptureHead(w)
        PROVE  /\ gc' \in [Worker -> [at : {"idle", "claimed", "owned", "locked", "rootless",
                                            "captured"}, head : 0 .. MaxGen]]
               /\ \A x \in Worker : gc'[x].head <= gen
               /\ LockInv'
    <3>1. /\ gc' = [gc EXCEPT ![w] = gc'[w]]
          /\ gc'[w].at \in {"idle", "claimed", "owned", "locked", "rootless", "captured"}
          /\ gc'[w].head \in 0 .. gen
          /\ gc'[w] = [at |-> gc'[w].at, head |-> gc'[w].head]
          /\ \/ LockFree \/ gc'[w].at \notin {"locked", "rootless", "captured"}
             \/ gc[w].at \in {"locked", "rootless", "captured"}
      BY <2>2, <2>3
    <3>2. \A x \in Worker \ {w} : gc'[x] = gc[x]
      BY <1>1, <3>1 DEF TypeOK
    <3>3. gc' \in [Worker -> [at : {"idle", "claimed", "owned", "locked", "rootless",
                                    "captured"}, head : 0 .. MaxGen]]
      BY <1>1, <3>1, Versions DEF TypeOK
    <3>4. LockInv'
      BY <1>1, <3>1, <3>2 DEF LockInv, LockFree
    <3>5. QED
      BY <1>1, <3>1, <3>2, <3>3, <3>4, Versions DEF HeadsKnown
  <2>4. QED
    BY <2>1, <2>3 DEF MarkTracked, MarkUntracked, ExpireMarkLease
<1>5. TypeOK' /\ HeadsKnown'
  BY <1>1, <1>3, <1>4 DEF TypeOK, HeadsKnown
<1>6. QED
  BY <1>1, <1>4, <1>5 DEF Inv, RecordedBytesKept, StoredPreserved, Preserved, ReferenceInv,
     Committed, SessionInv

\* A sweep deletes the row or changes nothing that matters; no put is between
\* its bytes and its row, and no snapshot refers to the row that goes.
LEMMA SweepKeeps ==
    ASSUME Inv, NEW w \in Worker, Sweep(w)
    PROVE  Inv'
<1>1. /\ UNCHANGED <<upload, at, versions, gen, purge>>
      /\ TypeOK /\ LockInv /\ HeadsKnown /\ ReferenceInv
      /\ gc[w].at = "captured" /\ gc' = [gc EXCEPT ![w] = [at |-> "idle", head |-> 0]]
      /\ \A u \in Upload : at[u] \notin {"stored", "inserted"}
  BY DEF Sweep, requests, Inv, LockInv
<1>2. gc[w].head \in 0 .. gen /\ gen \in Nat /\ gen <= MaxGen /\ MaxGen \in Nat
  BY <1>1, Versions DEF TypeOK, HeadsKnown
<1>3. CASE row # None /\ Committed # {}
  <2>1. UNCHANGED <<row, queue, mark>>
    BY <1>3 DEF Sweep
  <2>2. TypeOK' /\ HeadsKnown' /\ LockInv'
    BY <1>1, <1>2, <2>1 DEF TypeOK, HeadsKnown, LockInv
  <2>3. QED
    BY <1>1, <2>1, <2>2 DEF Inv, RecordedBytesKept, StoredPreserved, Preserved, ReferenceInv,
       Committed, SessionInv
<1>4. CASE ~(row # None /\ Committed # {})
  <2>1. /\ row' = None /\ mark' \in {mark, None}
        /\ \/ queue' = queue
           \/ /\ gc[w].head # 0
              /\ queue' = [head |-> gc[w].head, lease |-> [owner |-> None, live |-> FALSE]]
    BY <1>4 DEF Sweep, DropMark
  <2>2. queue' \in [head : Gen, lease : Lease(Purger)] \cup {None}
    <3>1. gc[w].head # 0 => gc[w].head \in Gen
      BY <1>2 DEF Gen
    <3>2. PICK l \in Lease(Purger) : l = [owner |-> None, live |-> FALSE]
      BY Leases
    <3>3. \A h \in Gen : [head |-> h, lease |-> l] \in [head : Gen, lease : Lease(Purger)]
      BY <3>2
    <3>4. QED
      BY <1>1, <2>1, <3>1, <3>2, <3>3 DEF TypeOK
  <2>3. queue' # None => queue'.head <= gen
    BY <1>1, <1>2, <2>1 DEF HeadsKnown
  <2>4. TypeOK' /\ LockInv'
    BY <1>1, <1>2, <2>1, <2>2 DEF TypeOK, LockInv
  <2>5. HeadsKnown'
    BY <1>1, <1>2, <2>3 DEF HeadsKnown, TypeOK
  <2>6. ReferenceInv' /\ SessionInv' /\ StoredPreserved' /\ RecordedBytesKept'
    BY <1>1, <1>4, <2>1 DEF Inv, ReferenceInv, Committed, SessionInv, StoredPreserved,
       RecordedBytesKept
  <2>7. QED
    BY <2>4, <2>5, <2>6 DEF Inv
<1>5. QED
  BY <1>3, <1>4

(***************************************************************************)
(* Purge                                                                   *)
(***************************************************************************)
\* A claim takes over what is queued; the end of a purge only sets it free.
LEMMA ClaimKeeps ==
    ASSUME Inv,
           \/ ExpireQueueLease
           \/ \E p \in Purger : ClaimQueue(p) \/ PlanPurge(p) \/ Acknowledge(p) \/ FailPurge(p)
    PROVE  Inv'
<1>1. /\ UNCHANGED <<upload, at, row, versions, gen, mark, gc>>
      /\ TypeOK /\ HeadsKnown
      /\ gen \in Nat /\ gen <= MaxGen /\ MaxGen \in Nat
      /\ \A v \in versions : v.gen \in 1 .. gen
      /\ queue # None => queue.head \in 1 .. gen /\ queue.lease \in Lease(Purger)
      /\ \A p \in Purger : purge[p].head \in 0 .. gen
  <2>1. /\ UNCHANGED <<upload, at, row, versions, gen, mark, gc>>
        /\ TypeOK /\ HeadsKnown
    BY DEF ExpireQueueLease, ClaimQueue, PlanPurge, Acknowledge, FailPurge, requests,
       store, marks, Inv
  <2>2. /\ gen \in Nat /\ gen <= MaxGen /\ MaxGen \in Nat
        /\ \A v \in versions : v.gen \in 1 .. gen
    BY <2>1, Versions
  <2>3. queue # None => queue.head \in 1 .. gen /\ queue.lease \in Lease(Purger)
    BY <2>1, <2>2 DEF TypeOK, HeadsKnown, Gen
  <2>4. \A p \in Purger : purge[p].head \in 0 .. gen
    BY <2>1, <2>2 DEF TypeOK, HeadsKnown
  <2>5. QED
    BY <2>1, <2>2, <2>3, <2>4
<1>2. CASE ExpireQueueLease
  <2>1. /\ queue # None /\ queue' = [queue EXCEPT !.lease.live = FALSE] /\ purge' = purge
    BY <1>2 DEF ExpireQueueLease
  <2>2. /\ queue' \in [head : Gen, lease : Lease(Purger)] \cup {None}
        /\ queue'.head = queue.head
    BY <1>1, <2>1 DEF TypeOK, Lease
  <2>3. \A b : Preserved(b) => Preserved(b)'
    BY <1>1, <2>1, <2>2 DEF Preserved
  <2>4. TypeOK' /\ HeadsKnown'
    BY <1>1, <2>1, <2>2 DEF TypeOK, HeadsKnown
  <2>5. QED
    BY <1>1, <2>3, <2>4 DEF Inv, RecordedBytesKept, StoredPreserved, Preserved, ReferenceInv,
       Committed, SessionInv, LockInv
<1>3. ASSUME NEW p \in Purger, ClaimQueue(p) PROVE Inv'
  <2>1. PICK l \in Lease(Purger) : l = [owner |-> p, live |-> TRUE]
    BY Leases
  <2>2. /\ queue # None /\ queue' = [queue EXCEPT !.lease = l]
        /\ purge' = [purge EXCEPT ![p] = [at |-> "claimed", head |-> queue.head, plan |-> {}]]
    BY <1>3, <2>1 DEF ClaimQueue
  <2>3. /\ queue' \in [head : Gen, lease : Lease(Purger)] /\ queue'.head = queue.head
    BY <1>1, <2>2 DEF TypeOK
  <2>4. /\ purge'[p].head = queue.head /\ purge'[p].plan = {}
        /\ \A q \in Purger \ {p} : purge'[q] = purge[q]
    BY <1>1, <2>2 DEF TypeOK
  <2>5. TypeOK'
    BY <1>1, <2>2, <2>3 DEF TypeOK
  <2>6. HeadsKnown'
    BY <1>1, <2>2, <2>3, <2>4 DEF HeadsKnown
  <2>7. \A b : Preserved(b) => Preserved(b)'
    BY <1>1, <2>2, <2>3, <2>4 DEF Preserved
  <2>8. QED
    BY <1>1, <2>5, <2>6, <2>7 DEF Inv, RecordedBytesKept, StoredPreserved, Preserved,
       ReferenceInv, Committed, SessionInv, LockInv
<1>4. ASSUME NEW p \in Purger, PlanPurge(p) \/ Acknowledge(p) \/ FailPurge(p) PROVE Inv'
  <2>1. /\ queue' \in {queue, None}
        /\ \/ purge' = [purge EXCEPT ![p] = Stopped]
           \/ purge' = [purge EXCEPT ![p] =
                  [@ EXCEPT !.at = "purging",
                            !.plan = {g \in {v.gen : v \in versions} : g <= purge[p].head}]]
    BY <1>4 DEF PlanPurge, Acknowledge, FailPurge
  <2>2. {v.gen : v \in versions} \subseteq Gen
    BY <1>1 DEF Gen
  <2>3. /\ purge'[p] \in [at : {"idle", "claimed", "purging"}, head : 0 .. MaxGen,
                          plan : SUBSET Gen]
        /\ purge'[p].head \in {0, purge[p].head}
        /\ \A g \in purge'[p].plan : g <= purge'[p].head
        /\ \A q \in Purger \ {p} : purge'[q] = purge[q]
    <3>1. CASE purge' = [purge EXCEPT ![p] = Stopped]
      BY <1>1, <3>1 DEF Stopped, TypeOK
    <3>2. PICK plan \in SUBSET Gen :
              plan = {g \in {v.gen : v \in versions} : g <= purge[p].head}
      BY <2>2
    <3>3. CASE purge' = [purge EXCEPT ![p] = [@ EXCEPT !.at = "purging", !.plan = plan]]
      BY <1>1, <3>2, <3>3 DEF TypeOK
    <3>4. QED
      BY <2>1, <3>1, <3>2, <3>3
  <2>4. TypeOK'
    BY <1>1, <2>1, <2>3 DEF TypeOK
  <2>5. HeadsKnown'
    BY <1>1, <2>1, <2>3 DEF HeadsKnown
  <2>6. \A b : Preserved(b) => Preserved(b)'
    BY <1>1, <2>1, <2>3 DEF Preserved
  <2>7. QED
    BY <1>1, <2>4, <2>5, <2>6 DEF Inv, RecordedBytesKept, StoredPreserved, Preserved,
       ReferenceInv, Committed, SessionInv, LockInv
<1>5. QED
  BY <1>2, <1>3, <1>4

\* A purge deletes a version that is no newer than the one it was queued for.
LEMMA DeleteKeeps ==
    ASSUME Inv, NEW p \in Purger, DeleteVersion(p)
    PROVE  Inv'
<1>1. /\ UNCHANGED <<upload, at, row, gen, mark, gc, queue>> /\ TypeOK /\ HeadsKnown
      /\ MaxGen \in Nat
  BY Versions DEF DeleteVersion, requests, marks, Inv
<1> DEFINE plan == purge[p].plan
           newest == Max(plan)
<1>2. newest \in plan /\ plan \subseteq Gen
  <2>1. plan \in SUBSET (1 .. MaxGen) /\ plan # {}
    BY <1>1 DEF DeleteVersion, TypeOK, Gen
  <2> HIDE DEF plan
  <2>2. QED
    BY <1>1, <2>1, Newest DEF Gen
<1>3. /\ versions' = {v \in versions : v.gen # newest}
      /\ purge' = [purge EXCEPT ![p].plan = plan \ {newest}]
  BY DEF DeleteVersion
<1>4. newest <= purge[p].head /\ newest \in Nat /\ purge[p].head \in Nat
  BY <1>1, <1>2 DEF HeadsKnown, TypeOK, Gen
<1>5. /\ purge' \in [Purger -> [at : {"idle", "claimed", "purging"}, head : 0 .. MaxGen,
                                plan : SUBSET Gen]]
      /\ \A q \in Purger : purge'[q].head = purge[q].head /\ purge'[q].plan \subseteq purge[q].plan
  BY <1>1, <1>2, <1>3 DEF TypeOK
<1> HIDE DEF newest
<1>6. TypeOK' /\ HeadsKnown'
  BY <1>1, <1>3, <1>5 DEF TypeOK, HeadsKnown
<1>7. \A b : Preserved(b) => Preserved(b)'
  <2> SUFFICES ASSUME NEW b, Preserved(b) PROVE Preserved(b)'
    OBVIOUS
  <2>1. PICK v \in versions : /\ v.bytes = b
                              /\ queue # None => v.gen > queue.head
                              /\ \A q \in Purger : v.gen > purge[q].head
    BY DEF Preserved
  <2>2. v.gen # newest
    BY <1>1, <1>4, <2>1, Versions
  <2>3. QED
    BY <1>1, <1>3, <1>5, <2>1, <2>2 DEF Preserved
<1>8. QED
  BY <1>1, <1>6, <1>7 DEF Inv, RecordedBytesKept, StoredPreserved, Preserved, ReferenceInv,
     Committed, SessionInv, LockInv

(***************************************************************************)
(* What the runs check, for every value of the constants                   *)
(***************************************************************************)
\* The invariant holds throughout every behaviour.
LEMMA Invariance == Spec => []Inv
<1>1. Init => Inv
  <2> SUFFICES ASSUME Init PROVE Inv
    OBVIOUS
  <2>1. TypeOK
    BY GcAssumption DEF Init, TypeOK, Session
  <2>2. RecordedBytesKept /\ StoredPreserved /\ LockInv
    BY DEF Init, RecordedBytesKept, StoredPreserved, LockInv
  <2>3. HeadsKnown /\ ReferenceInv /\ SessionInv
    BY DEF Init, HeadsKnown, ReferenceInv, Committed, SessionInv
  <2>4. QED
    BY <2>1, <2>2, <2>3 DEF Inv
<1>2. Inv /\ [Next]_vars => Inv'
  <2> SUFFICES ASSUME Inv, [Next]_vars PROVE Inv'
    OBVIOUS
  <2>1. CASE UNCHANGED vars
    BY <2>1 DEF vars, requests, store, marks, purges, Inv, TypeOK, RecordedBytesKept,
       StoredPreserved, Preserved, LockInv, HeadsKnown, ReferenceInv, Committed, SessionInv
  <2>2. CASE Next
    BY <2>2, StoreKeeps, UploadKeeps, MarkKeeps, SweepKeeps, ClaimKeeps, DeleteKeeps
    DEF Next, SweepStep, PurgeStep
  <2>3. QED
    BY <2>1, <2>2
<1>3. QED
  BY <1>1, <1>2, PTL DEF Spec

\* Tables, bucket, leases and requests keep their types.
THEOREM TypeCorrect == Spec => []TypeOK
<1>1. Inv => TypeOK
  BY DEF Inv
<1>2. QED
  BY <1>1, Invariance, PTL

\* The bytes a row was written for stay in the bucket as long as the row does,
\* out of the reach of every purge that is queued or running.
THEOREM BytesKept == Spec => []RecordedBytesKept
<1>1. Inv => RecordedBytesKept
  BY DEF Inv
<1>2. QED
  BY <1>1, Invariance, PTL

\* Whatever uploads, sweeps, purges and deaths run beside commits, the object a
\* committed snapshot refers to has its row and some version in the bucket.
THEOREM HeadIsPresent == Spec => []NeverAbsent
<1>1. Inv => NeverAbsent
  BY DEF Inv, ReferenceInv, RecordedBytesKept, NeverAbsent, ObjectExists
<1>2. QED
  BY <1>1, Invariance, PTL

(***************************************************************************)
(* Purges and the queue                                                    *)
(***************************************************************************)
\* The lease names the purge that works on the entry as it is queued now.
OwnerInv == \A p \in Purger :
    queue # None /\ queue.lease.owner = p /\ purge[p].at # "idle" => purge[p].head = queue.head

\* What a purge has planned, and not yet deleted, is all that there is to delete.
PlanInv == \A p \in Purger :
    purge[p].at = "purging" =>
        \A v \in versions : v.gen <= purge[p].head => v.gen \in purge[p].plan

PurgeInv == OwnerInv /\ PlanInv

\* Uploads add versions that no purge was planned for, and a sweep queues an
\* entry that no purge holds.
LEMMA OutsideKeepsPurges ==
    ASSUME Inv, PurgeInv, purge' = purge,
           \/ versions' = versions
           \/ \E b : versions' = versions \cup {[gen |-> gen + 1, bytes |-> b]},
           queue' = queue \/ (queue' # None => queue'.lease.owner = None)
    PROVE  PurgeInv'
<1>1. OwnerInv'
  BY GcAssumption DEF PurgeInv, OwnerInv
<1>2. PlanInv'
  <2> SUFFICES ASSUME NEW p \in Purger, purge[p].at = "purging",
                      NEW v \in versions', v.gen <= purge[p].head
               PROVE  v.gen \in purge[p].plan
    BY DEF PlanInv
  <2>1. purge[p].head <= gen /\ purge[p].head \in Nat /\ gen \in Nat
    BY Versions DEF Inv, HeadsKnown, TypeOK
  <2>2. CASE v \in versions
    BY <2>2 DEF PurgeInv, PlanInv
  <2>3. ASSUME NEW b, v = [gen |-> gen + 1, bytes |-> b] PROVE FALSE
    <3>1. v.gen = gen + 1
      BY <2>3
    <3>2. QED
      BY <2>1, <3>1
  <2>4. QED
    BY <2>2, <2>3
<1>3. QED
  BY <1>1, <1>2 DEF PurgeInv

\* A claim makes the lease name its purge, and the plan of a purge is made and
\* carried out for the entry that it holds.
LEMMA PurgesKeep ==
    ASSUME Inv, PurgeInv, NEW p \in Purger,
           ClaimQueue(p) \/ PurgeStep(p) \/ FailPurge(p)
    PROVE  PurgeInv'
<1>1. /\ purge \in [Purger -> [at : {"idle", "claimed", "purging"}, head : 0 .. MaxGen,
                                plan : SUBSET Gen]]
      /\ queue \in [head : Gen, lease : Lease(Purger)] \cup {None}
  BY DEF Inv, TypeOK
<1>2. CASE ClaimQueue(p)
  <2>1. PICK l \in Lease(Purger) : l = [owner |-> p, live |-> TRUE]
    BY Leases
  <2>2. /\ queue # None /\ queue' = [queue EXCEPT !.lease = l] /\ versions' = versions
        /\ purge' = [purge EXCEPT ![p] = [at |-> "claimed", head |-> queue.head, plan |-> {}]]
    BY <1>2, <2>1 DEF ClaimQueue, store
  <2>3. queue'.head = queue.head /\ queue'.lease.owner = p
    BY <1>1, <2>1, <2>2
  <2>4. /\ purge'[p].at = "claimed" /\ purge'[p].head = queue.head
        /\ \A q \in Purger \ {p} : purge'[q] = purge[q]
    BY <1>1, <2>2
  <2>5. QED
    BY <2>2, <2>3, <2>4 DEF PurgeInv, OwnerInv, PlanInv
<1>3. CASE PlanPurge(p)
  <2>1. UNCHANGED <<versions, queue>>
    BY <1>3 DEF PlanPurge, store
  <2>2. PICK plan \in SUBSET Gen : plan = {g \in {v.gen : v \in versions} : g <= purge[p].head}
    <3>1. {v.gen : v \in versions} \subseteq Gen
      BY Versions DEF Inv, Gen
    <3>2. QED
      BY <3>1
  <2>3. \/ purge' = [purge EXCEPT ![p] = Stopped]
        \/ purge' = [purge EXCEPT ![p] = [@ EXCEPT !.at = "purging", !.plan = plan]]
    BY <1>3, <2>2 DEF PlanPurge
  <2>4. /\ purge'[p].at # "idle" => purge[p].at # "idle" /\ purge'[p].head = purge[p].head
        /\ purge'[p].at = "purging" => purge'[p].plan = plan
        /\ \A q \in Purger \ {p} : purge'[q] = purge[q]
    <3>1. purge[p].at = "claimed"
      BY <1>3 DEF PlanPurge
    <3>2. CASE purge' = [purge EXCEPT ![p] = Stopped]
      BY <1>1, <3>2 DEF Stopped
    <3>3. CASE purge' = [purge EXCEPT ![p] = [@ EXCEPT !.at = "purging", !.plan = plan]]
      BY <1>1, <3>1, <3>3
    <3>4. QED
      BY <2>3, <3>2, <3>3
  <2>5. OwnerInv'
    BY <2>1, <2>4 DEF PurgeInv, OwnerInv
  <2>6. PlanInv'
    BY <2>1, <2>2, <2>4 DEF PurgeInv, PlanInv
  <2>7. QED
    BY <2>5, <2>6 DEF PurgeInv
<1>4. CASE DeleteVersion(p)
  <2>1. PICK g : g = Max(purge[p].plan)
    OBVIOUS
  <2>2. /\ queue' = queue /\ versions' = {v \in versions : v.gen # g}
        /\ purge' = [purge EXCEPT ![p].plan = purge[p].plan \ {g}]
    BY <1>4, <2>1 DEF DeleteVersion
  <2>3. /\ \A q \in Purger : purge'[q].at = purge[q].at /\ purge'[q].head = purge[q].head
        /\ \A q \in Purger : purge[q].plan \ {g} \subseteq purge'[q].plan
    BY <1>1, <2>2
  <2>4. QED
    BY <2>2, <2>3 DEF PurgeInv, OwnerInv, PlanInv
<1>5. CASE Acknowledge(p) \/ FailPurge(p)
  <2>1. /\ versions' = versions /\ queue' \in {queue, None}
        /\ purge' = [purge EXCEPT ![p] = Stopped]
    BY <1>5 DEF Acknowledge, FailPurge, store
  <2>2. purge'[p].at = "idle" /\ \A q \in Purger \ {p} : purge'[q] = purge[q]
    BY <1>1, <2>1 DEF Stopped
  <2>3. QED
    BY <2>1, <2>2 DEF PurgeInv, OwnerInv, PlanInv
<1>6. QED
  BY <1>2, <1>3, <1>4, <1>5 DEF PurgeStep

\* Every step keeps what purges know of the queue and the bucket.
LEMMA PurgeInvariance == Spec => []PurgeInv
<1>1. Init => PurgeInv
  BY DEF Init, PurgeInv, OwnerInv, PlanInv
<1>2. Inv /\ PurgeInv /\ [Next]_vars => PurgeInv'
  <2> SUFFICES ASSUME Inv, PurgeInv, [Next]_vars PROVE PurgeInv'
    OBVIOUS
  <2>1. CASE UNCHANGED vars
    BY <2>1, OutsideKeepsPurges DEF vars, store, purges
  <2>2. ASSUME NEW u \in Upload, UploadStep(u) PROVE PurgeInv'
    BY <2>2, OutsideKeepsPurges DEF UploadStep, Begin, Expire, Put, StoreBytes, PutRow,
       CheckObject, OpenCommit, InsertReference, Commit, Fail, store, purges
  <2>3. CASE MarkTracked \/ MarkUntracked \/ ExpireMarkLease
    BY <2>3, OutsideKeepsPurges DEF MarkTracked, MarkUntracked, ExpireMarkLease, store, purges
  <2>4. ASSUME NEW w \in Worker, ClaimMark(w) \/ SweepStep(w) \/ FailGc(w) PROVE PurgeInv'
    <3>1. CASE Sweep(w)
      BY <3>1, OutsideKeepsPurges DEF Sweep
    <3>2. CASE ~Sweep(w)
      BY <2>4, <3>2, OutsideKeepsPurges DEF SweepStep, ClaimMark, CheckOwned, LockObject,
         CheckRoots, CaptureHead, FailGc, store, purges
    <3>3. QED
      BY <3>1, <3>2
  <2>5. CASE ExpireQueueLease
    <3>1. /\ queue # None /\ queue' = [queue EXCEPT !.lease.live = FALSE]
          /\ purge' = purge /\ versions' = versions
      BY <2>5 DEF ExpireQueueLease, store
    <3>2. queue'.head = queue.head /\ queue'.lease.owner = queue.lease.owner
      BY <3>1 DEF Inv, TypeOK, Lease
    <3>3. QED
      BY <3>1, <3>2 DEF PurgeInv, OwnerInv, PlanInv
  <2>6. ASSUME NEW p \in Purger, ClaimQueue(p) \/ PurgeStep(p) \/ FailPurge(p) PROVE PurgeInv'
    BY <2>6, PurgesKeep
  <2>7. QED
    BY <2>1, <2>2, <2>3, <2>4, <2>5, <2>6 DEF Next
<1>3. QED
  BY <1>1, <1>2, Invariance, PTL DEF Spec

\* An entry leaves the purge queue only with every version it was queued for,
\* whatever purges died over it, lost their leases to others or ran beside them.
THEOREM AcknowledgedPurged == Spec => AcknowledgedIsPurged
<1>1. ASSUME Inv, PurgeInv, [Next]_vars, queue # None, queue' = None
      PROVE  \A v \in versions : v.gen > queue.head
  <2>1. PICK p \in Purger : Acknowledge(p)
    <3>1. queue \in [head : Gen, lease : Lease(Purger)]
      BY <1>1 DEF Inv, TypeOK
    <3>2. ~UNCHANGED vars
      BY <1>1 DEF vars, purges
    <3>3. \A u \in Upload : ~UploadStep(u)
      BY <1>1 DEF UploadStep, Begin, Expire, Put, StoreBytes, PutRow, CheckObject,
         OpenCommit, InsertReference, Commit, Fail, purges
    <3>4. ~MarkTracked /\ ~MarkUntracked /\ ~ExpireMarkLease
      BY <1>1 DEF MarkTracked, MarkUntracked, ExpireMarkLease, purges
    <3>5. \A w \in Worker : ~ClaimMark(w) /\ ~SweepStep(w) /\ ~FailGc(w)
      BY <1>1 DEF ClaimMark, SweepStep, CheckOwned, LockObject, CheckRoots, CaptureHead,
         Sweep, FailGc, purges
    <3>6. ~ExpireQueueLease
      <4>1. [queue EXCEPT !.lease.live = FALSE] \in [head : Gen, lease : Lease(Purger)]
        BY <3>1 DEF Lease
      <4>2. QED
        BY <1>1, <4>1, NoEntryAssumption DEF ExpireQueueLease
    <3>7. ASSUME NEW p \in Purger, ClaimQueue(p) PROVE FALSE
      <4>1. PICK l \in Lease(Purger) : l = [owner |-> p, live |-> TRUE]
        BY Leases
      <4>2. [queue EXCEPT !.lease = l] \in [head : Gen, lease : Lease(Purger)]
        BY <3>1
      <4>3. QED
        BY <1>1, <3>7, <4>1, <4>2, NoEntryAssumption DEF ClaimQueue
    <3>8. \A p \in Purger : ~PlanPurge(p) /\ ~DeleteVersion(p) /\ ~FailPurge(p)
      BY <1>1 DEF PlanPurge, DeleteVersion, FailPurge
    <3>9. QED
      BY <1>1, <3>2, <3>3, <3>4, <3>5, <3>6, <3>7, <3>8 DEF Next, PurgeStep
  <2>2. purge[p].at = "purging" /\ purge[p].plan = {} /\ queue.lease.owner = p
    BY <1>1, <2>1 DEF Acknowledge
  <2>3. purge[p].head = queue.head
    BY <1>1, <2>2 DEF PurgeInv, OwnerInv
  <2>4. \A v \in versions : ~(v.gen <= queue.head)
    BY <1>1, <2>2, <2>3 DEF PurgeInv, PlanInv
  <2>5. queue.head \in Nat /\ \A v \in versions : v.gen \in Nat
    BY <1>1, Versions DEF Inv, TypeOK, Gen
  <2>6. QED
    BY <2>4, <2>5
<1>2. QED
  BY <1>1, Invariance, PurgeInvariance, PTL DEF Spec, AcknowledgedIsPurged
=============================================================================
