---------------------------- MODULE UploadQueue ----------------------------
(***************************************************************************)
(* The Android client's capture and upload queue: the generations and the  *)
(* queue in SQLite (save-engine's local_store), the capture and the drain  *)
(* over them (save-client), and the workers and the manual upload that     *)
(* replaces the cloud's save (apps/android).  The process can be killed at *)
(* any moment, requests it has sent may still reach the server afterwards, *)
(* and other devices commit to the same save.                              *)
(*                                                                         *)
(* Every server is the atomic register that SnapshotCommit implements; an  *)
(* endpoint's server holds the one logical save the client has there.      *)
(* A lease that has run out may be taken over: as no clock is modelled,    *)
(* that can be at any moment.                                              *)
(***************************************************************************)
EXTENDS FiniteSetsExt, Naturals, Sequences

CONSTANTS
    Endpoint,   \* server endpoints the user may have configured
    Worker,     \* capture workers WorkManager may run at once
    Foreign,    \* snapshots that other devices commit
    Direct,     \* snapshots that the manual local-replaces-cloud upload makes
    None,       \* no snapshot, no lease, nothing under way
    MaxQueue,   \* bound: queue rows
    MaxPlays,   \* bound: saves the game makes
    MaxSessions \* bound: sessions the user starts

\* A queue row's snapshot is named by the row's id.
Snapshot == 1..MaxQueue \cup Foreign \cup Direct

\* The game's saves are numbered; 0 is what the tree held before.
Content == 0..MaxPlays

Made == [endpoint : Endpoint, base : Snapshot \cup {None}, content : Content]

ASSUME QueueAssumption ==
    /\ None \notin Endpoint \cup Worker \cup Foreign \cup Direct \cup Nat \cup Made
    /\ Foreign \cap Direct = {}
    /\ (Foreign \cup Direct) \cap Nat = {}
    /\ MaxQueue \in Nat /\ MaxPlays \in Nat /\ MaxSessions \in Nat

VARIABLES
    session,  \* SESSION_ACTIVE: the user said the game is being played
    server,   \* SERVER_ENDPOINT: the endpoint of new captures
    plays,    \* saves the game has made: the content of the save tree
    dirty,    \* capture_state.dirty_generation
    captured, \* capture_state.captured_generation
    lease,    \* capture_state.lease_owner
    worker,   \* the capture workers
    queue,    \* upload_queue, with the snapshot and bundle of each row
    state,    \* upload_queue.state of each row
    drain,    \* the drain under way
    wire,     \* snapshots for which a commit request has been sent
    head,     \* the HEAD at each server
    decided,  \* the snapshots each server has decided, as HeadRegister has it
    baseline, \* sync_consistency.established_remote_head, for each endpoint
    ledger,   \* the consistency ledger in SharedPreferences
    direct,   \* the snapshots of manual uploads
    replace   \* the manual upload under way

device == <<session, server, plays>>
capture == <<dirty, captured, lease, worker>>
rows == <<queue, state>>
remote == <<wire, head, decided>>
manual == <<direct, replace>>
vars == <<device, capture, rows, drain, remote, baseline, ledger, manual>>

Server == INSTANCE HeadRegister WITH Save <- Endpoint

TypeOK ==
    /\ session \in BOOLEAN
    /\ server \in Endpoint
    /\ plays \in 0..MaxPlays
    /\ dirty \in 0..(2 * MaxSessions)
    /\ captured \in 0..dirty
    /\ lease \in Worker \cup {None}
    /\ worker \in [Worker -> {None}
                   \cup [at : {"started"}, endpoint : Endpoint]
                   \cup [at : {"claimed"}, endpoint : Endpoint, gen : 1..dirty]
                   \cup [at : {"staged"}, endpoint : Endpoint, gen : 1..dirty,
                         content : Content]]
    /\ queue \in Seq(Made) /\ Len(queue) <= MaxQueue
    /\ state \in [DOMAIN queue -> {"pending", "uploading", "completed"}]
    /\ drain \in {None} \cup [at : {"pick", "claimed", "sent"}, job : 0..Len(queue),
                              failed : SUBSET Endpoint]
    /\ wire \subseteq Snapshot
    /\ Server!TypeOK
    /\ baseline \in [Endpoint -> 1..MaxQueue \cup {None}]
    /\ ledger \in {None} \cup [endpoint : Endpoint, head : Snapshot,
                               content : Content]
    /\ direct \in [Direct -> Made \cup {None}]
    /\ replace \in Direct \cup {None}

Init ==
    /\ session = FALSE
    /\ server \in Endpoint
    /\ plays = 0
    /\ dirty = 0
    /\ captured = 0
    /\ lease = None
    /\ worker = [w \in Worker |-> None]
    /\ queue = <<>>
    /\ state = <<>>
    /\ drain = None
    /\ wire = {}
    /\ Server!Init
    /\ baseline = [e \in Endpoint |-> None]
    /\ ledger = None
    /\ direct = [x \in Direct |-> None]
    /\ replace = None

(***************************************************************************)
(* Helpers                                                                 *)
(***************************************************************************)
Decisions(x) == {d \in decided : d.snapshot = x}
IsDecided(x) == Decisions(x) # {}
DecidedAt(x, e) == \E d \in Decisions(x) : d.save = e
Advanced(x) == \E d \in Decisions(x) : d.base = d.seen

MadeBy(x) == IF x \in Direct THEN direct[x] ELSE queue[x]

Retryable(e) == {i \in DOMAIN queue : queue[i].endpoint = e
                                      /\ state[i] \in {"pending", "uploading"}}

\* AndroidSyncOperationMutex: a capture from its staging on, a drain and a
\* manual upload exclude one another.
MutexFree == /\ \A w \in Worker : worker[w] # None => worker[w].at # "staged"
             /\ drain = None
             /\ replace = None

(***************************************************************************)
(* The user and the game                                                   *)
(***************************************************************************)
\* The user launches the game through the client: a session, marked dirty.
StartSession ==
    /\ ~session
    /\ dirty < 2 * MaxSessions - 1
    /\ session' = TRUE
    /\ dirty' = dirty + 1
    /\ UNCHANGED <<server, plays, captured, lease, worker, rows, drain, remote,
                   baseline, ledger, manual>>

\* The game saves.
Play ==
    /\ session
    /\ plays < MaxPlays
    /\ plays' = plays + 1
    /\ UNCHANGED <<session, server, capture, rows, drain, remote, baseline, ledger, manual>>

\* The user confirms that the game has exited; a capture is asked for.
FinishSession ==
    /\ session
    /\ session' = FALSE
    /\ dirty' = dirty + 1
    /\ UNCHANGED <<server, plays, captured, lease, worker, rows, drain, remote,
                   baseline, ledger, manual>>

ChangeServer(e) ==
    /\ e # server
    /\ server' = e
    /\ UNCHANGED <<session, plays, capture, rows, drain, remote, baseline, ledger,
                   manual>>

(***************************************************************************)
(* Capture workers                                                         *)
(***************************************************************************)
\* A worker reads the settings and sees that no session is active.
StartCapture(w) ==
    /\ worker[w] = None
    /\ ~session
    /\ worker' = [worker EXCEPT ![w] = [at |-> "started", endpoint |-> server]]
    /\ UNCHANGED <<device, dirty, captured, lease, rows, drain, remote, baseline, ledger,
                   manual>>

\* Mutant: whether the lease has run out is not looked at.
ClaimGenerationUnexpired(w) ==
    /\ worker[w] # None /\ worker[w].at = "started"
    /\ dirty > captured /\ lease = None
    /\ lease' = w
    /\ worker' = [worker EXCEPT ![w] = [at |-> "claimed", gen |-> dirty,
                                        endpoint |-> worker[w].endpoint]]
    /\ UNCHANGED <<device, dirty, captured, rows, drain, remote, baseline, ledger, manual>>

\* claim_capture_generation: the dirty generation, with a free or expired
\* lease.
ClaimGeneration(w) ==
    /\ worker[w] # None /\ worker[w].at = "started"
    /\ dirty > captured
    /\ lease' = w
    /\ worker' = [worker EXCEPT ![w] = [at |-> "claimed", gen |-> dirty,
                                        endpoint |-> worker[w].endpoint]]
    /\ UNCHANGED <<device, dirty, captured, rows, drain, remote, baseline, ledger, manual>>

\* Everything is captured, or another worker's lease, perhaps a dead one's,
\* has not run out: the worker ends.
FindNothing(w) ==
    /\ worker[w] # None /\ worker[w].at = "started"
    /\ dirty = captured \/ lease # None
    /\ worker' = [worker EXCEPT ![w] = None]
    /\ UNCHANGED <<device, dirty, captured, lease, rows, drain, remote, baseline, ledger,
                   manual>>

\* Under the mutex, the tree is copied twice and both copies agree.  Whether
\* the game runs by now is not known: the process gate may not see it.
Stage(w) ==
    /\ worker[w] # None /\ worker[w].at = "claimed"
    /\ MutexFree
    /\ worker' = [worker EXCEPT ![w] = [at |-> "staged", gen |-> worker[w].gen,
                                        endpoint |-> worker[w].endpoint, content |-> plays]]
    /\ UNCHANGED <<device, dirty, captured, lease, rows, drain, remote, baseline, ledger,
                   manual>>

\* Mutant: pending rows are not looked at.
BaseForgetsQueue(e) ==
    IF baseline[e] # None THEN baseline[e]
    ELSE IF ledger # None /\ ledger.endpoint = e THEN ledger.head
    ELSE None

\* queue_android_stable_stage: the newest pending snapshot, or else the
\* baseline in SQLite, or else the ledger's.
Base(e) ==
    IF Retryable(e) # {} THEN Max(Retryable(e))
    ELSE IF baseline[e] # None THEN baseline[e]
    ELSE IF ledger # None /\ ledger.endpoint = e THEN ledger.head
    ELSE None

\* Mutant: the generation is read again when it is acknowledged.
EnqueueAcknowledgesLatest(w) ==
    /\ worker[w] # None /\ worker[w].at = "staged"
    /\ lease = w
    /\ captured < worker[w].gen
    /\ Len(queue) < MaxQueue
    /\ queue' = Append(queue, [endpoint |-> worker[w].endpoint,
                               base |-> Base(worker[w].endpoint),
                               content |-> worker[w].content])
    /\ state' = Append(state, "pending")
    /\ captured' = dirty
    /\ lease' = None
    /\ worker' = [worker EXCEPT ![w] = None]
    /\ UNCHANGED <<device, dirty, drain, remote, baseline, ledger, manual>>

\* The bundle is on disk; one transaction inserts the row and acknowledges
\* the generation, if the worker still has the lease.
Enqueue(w) ==
    /\ worker[w] # None /\ worker[w].at = "staged"
    /\ lease = w
    /\ captured < worker[w].gen
    /\ Len(queue) < MaxQueue
    /\ queue' = Append(queue, [endpoint |-> worker[w].endpoint,
                               base |-> Base(worker[w].endpoint),
                               content |-> worker[w].content])
    /\ state' = Append(state, "pending")
    /\ captured' = worker[w].gen
    /\ lease' = None
    /\ worker' = [worker EXCEPT ![w] = None]
    /\ UNCHANGED <<device, dirty, drain, remote, baseline, ledger, manual>>

\* No secret, no server, the gate sees the game, the copies differ, an error,
\* or the lease is lost: nothing is queued, and the worker's lease released.
FailCapture(w) ==
    /\ worker[w] # None /\ worker[w].at \in {"claimed", "staged"}
    /\ lease' = IF lease = w THEN None ELSE lease
    /\ worker' = [worker EXCEPT ![w] = None]
    /\ UNCHANGED <<device, dirty, captured, rows, drain, remote, baseline, ledger, manual>>

CaptureStep(w) == \/ StartCapture(w)
                  \/ ClaimGeneration(w)
                  \/ FindNothing(w)
                  \/ Stage(w)
                  \/ Enqueue(w)
                  \/ FailCapture(w)

(***************************************************************************)
(* Draining the queue                                                      *)
(***************************************************************************)
StartDrain ==
    /\ MutexFree
    /\ \E e \in Endpoint : Retryable(e) # {}
    /\ drain' = [at |-> "pick", job |-> 0, failed |-> {}]
    /\ UNCHANGED <<device, capture, rows, remote, baseline, ledger, manual>>

\* Mutant: a row that a dead drain claimed is not looked at again.
ClaimUploadPending(i) ==
    /\ drain # None /\ drain.at = "pick"
    /\ queue[i].endpoint \notin drain.failed
    /\ state[i] = "pending"
    /\ \A j \in 1..(i - 1) : queue[j].endpoint = queue[i].endpoint => state[j] # "pending"
    /\ state' = [state EXCEPT ![i] = "uploading"]
    /\ drain' = [drain EXCEPT !.at = "claimed", !.job = i]
    /\ UNCHANGED <<device, capture, queue, remote, baseline, ledger, manual>>

\* claim_retryable_upload: the first row of an endpoint that is pending, or
\* whose lease another drain let run out.  A row that a dead drain holds is
\* passed over while its lease lasts.
ClaimUpload(i) ==
    /\ drain # None /\ drain.at = "pick"
    /\ queue[i].endpoint \notin drain.failed
    /\ state[i] \in {"pending", "uploading"}
    /\ \A j \in 1..(i - 1) : queue[j].endpoint = queue[i].endpoint => state[j] # "pending"
    /\ state' = [state EXCEPT ![i] = "uploading"]
    /\ drain' = [drain EXCEPT !.at = "claimed", !.job = i]
    /\ UNCHANGED <<device, capture, queue, remote, baseline, ledger, manual>>

\* begin accepts the row's base, everything is put, and commit is requested.
Send ==
    /\ drain # None /\ drain.at = "claimed"
    /\ LET made == queue[drain.job]
       IN made.base # None => DecidedAt(made.base, made.endpoint)
    /\ wire' = wire \cup {drain.job}
    /\ drain' = [drain EXCEPT !.at = "sent"]
    /\ UNCHANGED <<device, capture, rows, head, decided, baseline, ledger, manual>>

\* Mutant: a request that was sent is taken to have been served.
CompleteUnanswered ==
    LET i == drain.job IN
    /\ drain # None /\ drain.at = "sent"
    /\ state' = [state EXCEPT ![i] = "completed"]
    /\ baseline' = IF Advanced(i) THEN [baseline EXCEPT ![queue[i].endpoint] = i]
                   ELSE baseline
    /\ drain' = [drain EXCEPT !.at = "pick"]
    /\ UNCHANGED <<device, capture, queue, remote, ledger, manual>>

\* Mutant: the HEAD in the receipt is the new baseline, a conflict's too.
CompleteTrustsHead ==
    LET i == drain.job IN
    /\ drain # None /\ drain.at = "sent"
    /\ IsDecided(i)
    /\ state' = [state EXCEPT ![i] = "completed"]
    /\ baseline' = [baseline EXCEPT ![queue[i].endpoint] = head[queue[i].endpoint]]
    /\ drain' = [drain EXCEPT !.at = "pick"]
    /\ UNCHANGED <<device, capture, queue, remote, ledger, manual>>

\* The receipt arrives: the row is completed and, unless it is a conflict,
\* the baseline set, in one transaction; then the bundle is deleted.
Complete ==
    LET i == drain.job IN
    /\ drain # None /\ drain.at = "sent"
    /\ IsDecided(i)
    /\ state' = [state EXCEPT ![i] = "completed"]
    /\ baseline' = IF Advanced(i) THEN [baseline EXCEPT ![queue[i].endpoint] = i]
                   ELSE baseline
    /\ drain' = [drain EXCEPT !.at = "pick"]
    /\ UNCHANGED <<device, capture, queue, remote, ledger, manual>>

\* The server refuses or cannot be reached, or the answer is lost.
FailUpload ==
    /\ drain # None /\ drain.at \in {"claimed", "sent"}
    /\ state' = [state EXCEPT ![drain.job] = "pending"]
    /\ drain' = [drain EXCEPT !.at = "pick",
                              !.failed = @ \cup {queue[drain.job].endpoint}]
    /\ UNCHANGED <<device, capture, queue, remote, baseline, ledger, manual>>

\* Nothing is left to claim, or SQLite fails: then a row may stay claimed.
EndDrain ==
    /\ drain # None
    /\ drain' = None
    /\ UNCHANGED <<device, capture, rows, remote, baseline, ledger, manual>>

DrainStep == \/ StartDrain
             \/ \E i \in DOMAIN queue : ClaimUpload(i)
             \/ Send
             \/ Complete
             \/ FailUpload
             \/ EndDrain

(***************************************************************************)
(* The servers                                                             *)
(***************************************************************************)
\* A commit request arrives, perhaps long after its sender died.
ServeCommit(x) ==
    /\ x \in wire
    /\ Server!Decide(x, MadeBy(x).endpoint, MadeBy(x).base)
    /\ UNCHANGED <<device, capture, rows, drain, wire, baseline, ledger, manual>>

\* Another device moves the HEAD.  Its conflicts change nothing here.
OtherCommits(x, e) ==
    /\ Server!Decide(x, e, head[e])
    /\ UNCHANGED <<device, capture, rows, drain, wire, baseline, ledger, manual>>

(***************************************************************************)
(* The manual upload                                                       *)
(***************************************************************************)
\* LocalReplacePipeline: the HEAD is the one the user saw, the tree is copied
\* and a snapshot built on that HEAD is sent.
StartReplace(x) ==
    /\ ~session
    /\ MutexFree
    /\ direct[x] = None
    /\ direct' = [direct EXCEPT ![x] = [endpoint |-> server, base |-> head[server],
                                        content |-> plays]]
    /\ wire' = wire \cup {x}
    /\ replace' = x
    /\ UNCHANGED <<device, capture, rows, drain, head, decided, baseline, ledger>>

\* The reply is a fast-forward and the HEAD, read again, is the snapshot: the
\* ledger records it.  A first snapshot is reported as a failure.
Establishes(x) == /\ IsDecided(x)
                  /\ \E d \in Decisions(x) : d.base = d.seen /\ d.seen # None
                  /\ head[direct[x].endpoint] = x

\* Mutant: the tree is read again for the fingerprint.
FinishReplaceRereads ==
    /\ replace # None
    /\ ledger' = IF Establishes(replace)
                 THEN [endpoint |-> direct[replace].endpoint, head |-> replace,
                       content |-> plays]
                 ELSE ledger
    /\ replace' = None
    /\ UNCHANGED <<device, capture, rows, drain, remote, baseline, direct>>

FinishReplace ==
    /\ replace # None
    /\ ledger' = IF Establishes(replace)
                 THEN [endpoint |-> direct[replace].endpoint, head |-> replace,
                       content |-> direct[replace].content]
                 ELSE ledger
    /\ replace' = None
    /\ UNCHANGED <<device, capture, rows, drain, remote, baseline, direct>>

\* The call fails or its answer is lost.
FailReplace ==
    /\ replace # None
    /\ replace' = None
    /\ UNCHANGED <<device, capture, rows, drain, remote, baseline, ledger, direct>>

ManualStep == \/ \E x \in Direct : StartReplace(x)
              \/ FinishReplace
              \/ FailReplace

(***************************************************************************)
(* Kills, and the whole                                                    *)
(***************************************************************************)
\* The process dies: what is in SQLite and in the preferences stays, leases
\* too; a row that was being uploaded stays claimed.
Kill ==
    /\ \/ \E w \in Worker : worker[w] # None
       \/ drain # None
       \/ replace # None
    /\ worker' = [w \in Worker |-> None]
    /\ drain' = None
    /\ replace' = None
    /\ UNCHANGED <<device, dirty, captured, lease, rows, remote, baseline, ledger, direct>>

Next ==
    \/ StartSession
    \/ Play
    \/ FinishSession
    \/ \E e \in Endpoint : ChangeServer(e)
    \/ \E w \in Worker : CaptureStep(w)
    \/ DrainStep
    \/ \E x \in Snapshot : ServeCommit(x)
    \/ \E x \in Foreign, e \in Endpoint : OtherCommits(x, e)
    \/ ManualStep
    \/ Kill

Spec == Init /\ [][Next]_vars

\* WorkManager runs capture and drain workers again until they succeed; the
\* tree can be staged, the queue written and the server reached again and
\* again, and a request that was sent is served; a capture, a drain or a
\* manual upload that gets no further ends.  The user, the game, kills,
\* failed uploads and other devices have no fairness.
Fairness ==
    /\ \A w \in Worker : /\ WF_vars(StartCapture(w))
                         /\ SF_vars(ClaimGeneration(w))
                         /\ WF_vars(FindNothing(w))
                         /\ SF_vars(Stage(w))
                         /\ SF_vars(Enqueue(w))
                         /\ WF_vars(FailCapture(w))
    /\ WF_vars(EndDrain) /\ WF_vars(FailReplace)
    /\ SF_vars(StartDrain)
    /\ \A i \in 1..MaxQueue : SF_vars(i \in DOMAIN queue /\ ClaimUpload(i))
    /\ SF_vars(Send)
    /\ SF_vars(Complete)
    /\ \A i \in 1..MaxQueue : WF_vars(ServeCommit(i))

FairSpec == Spec /\ Fairness

(***************************************************************************)
(* Properties                                                              *)
(***************************************************************************)
Promise == INSTANCE Outbox WITH
    Content <- Content,
    accepted <- [i \in DOMAIN queue |-> [endpoint |-> queue[i].endpoint,
                                         content |-> queue[i].content]],
    delivered <- {i \in DOMAIN queue : IsDecided(i)}

\* Through failures, kills and expired leases, every queued snapshot reaches
\* its server once and after the ones queued before it.
ImplementsOutbox == Promise!Spec

\* When every dirty generation is acknowledged, the save in the tree is in a
\* queue row: one that the game makes while a capture runs stays dirty.
NoSaveLost ==
    captured = dirty /\ ~session /\ plays > 0
    => \E i \in DOMAIN queue : queue[i].content = plays

\* Nothing dirty and nothing pending means uploaded: the save in the tree is
\* the content of a snapshot that its server has decided, so the bundles that
\* the drain deleted are not needed.
NothingPendingMeansUploaded ==
    /\ captured = dirty /\ ~session /\ plays > 0
    /\ \A i \in DOMAIN queue : state[i] = "completed"
    => \E i \in DOMAIN queue : queue[i].content = plays /\ DecidedAt(i, queue[i].endpoint)

\* The ledger that decides whether a game may start without a question pairs
\* a HEAD with the content of that very snapshot.
LedgerTruthful ==
    ledger # None => Advanced(ledger.head) /\ ledger.content = MadeBy(ledger.head).content

\* "cannot reuse an older HEAD and manufacture a false conflict": a snapshot
\* of this device is a conflict only if another device has committed too.
ConflictNeedsRival ==
    \A d \in decided : d.snapshot \notin Foreign /\ d.base # d.seen
        => \E f \in decided : f.snapshot \in Foreign /\ f.save = d.save

\* A queued snapshot reaches its server, and its row is completed.
QueueDrained == \A i \in 1..MaxQueue :
    i \in DOMAIN queue ~> i \in DOMAIN queue /\ state[i] = "completed"

\* A dirty generation is captured, unless the user starts another session.
DirtyCaptured == \A g \in 1..(2 * MaxSessions) :
    dirty >= g ~> captured >= g \/ session \/ Len(queue) = MaxQueue
=============================================================================
