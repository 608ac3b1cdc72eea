-------------------------- MODULE UploadQueueProofs --------------------------
(***************************************************************************)
(* For any endpoints, workers, other devices, and numbers of rows, saves   *)
(* and sessions, the capture and upload queue loses no save, knows what it *)
(* has delivered, and is an Outbox.                                        *)
(***************************************************************************)
EXTENDS UploadQueue, WellFoundedInduction, SequenceTheorems, TLAPS

(***************************************************************************)
(* The inductive invariant                                                 *)
(***************************************************************************)
\* The end of a session can always be marked.
SessionRoom == session => dirty < 2 * MaxSessions

\* A generation staged since the last session ended holds what that left.
StagedTruthful ==
    \A w \in Worker :
        /\ ~session /\ worker[w] # None
        /\ worker[w].at = "staged" /\ worker[w].gen = dirty
        => worker[w].content = plays

\* A drain that has claimed a row, and a manual upload, are about a snapshot.
TaskKnown ==
    /\ drain # None /\ drain.at # "pick" => drain.job \in DOMAIN queue
    /\ replace # None => direct[replace] # None

\* What was sent had been made.
SentMade == \A x \in wire : x \in DOMAIN queue \/ (x \in Direct /\ direct[x] # None)

\* A server decides what was sent to it, or another device's snapshot.
DecidedSent ==
    \A d \in decided : \/ d.snapshot \in Foreign
                       \/ d.snapshot \in wire /\ d.save = MadeBy(d.snapshot).endpoint

\* A completed row has reached its server.
CompletedDecided ==
    \A i \in DOMAIN queue : state[i] = "completed" => DecidedAt(i, queue[i].endpoint)

\* Of the rows of an endpoint before i, all are decided but some that come no
\* later than the base of i.
BaseCovers(i) ==
    \A j \in 1..(i - 1) : queue[j].endpoint = queue[i].endpoint =>
        \/ IsDecided(j)
        \/ /\ queue[i].base \in j..(i - 1)
           /\ queue[queue[i].base].endpoint = queue[i].endpoint

\* A row is sent when every earlier one of its endpoint is decided.
SentInOrder ==
    \A i \in DOMAIN queue \cap wire : \A j \in 1..(i - 1) :
        queue[j].endpoint = queue[i].endpoint => IsDecided(j)

\* The ledger is about a manual upload that moved the HEAD.
LedgerKnown ==
    ledger # None => /\ ledger.head \in Direct /\ direct[ledger.head] # None
                     /\ Advanced(ledger.head)
                     /\ ledger.content = direct[ledger.head].content

\* What a worker may be at, while n is the dirty generation.
WorkerState(n) ==
    {None} \cup [at : {"started"}, endpoint : Endpoint]
           \cup [at : {"claimed"}, endpoint : Endpoint, gen : 1..n]
           \cup [at : {"staged"}, endpoint : Endpoint, gen : 1..n, content : Content]

\* What holds of the generations.
Capture ==
    /\ session \in BOOLEAN /\ server \in Endpoint /\ plays \in Content
    /\ dirty \in 0..(2 * MaxSessions) /\ captured \in 0..dirty /\ lease \in Worker \cup {None}
    /\ worker \in [Worker -> WorkerState(dirty)]
    /\ SessionRoom /\ StagedTruthful /\ NoSaveLost

\* What holds of the rows, the requests and the servers.
Delivery ==
    /\ queue \in Seq(Made) /\ Len(queue) <= MaxQueue
    /\ state \in [DOMAIN queue -> {"pending", "uploading", "completed"}]
    /\ drain \in {None} \cup [at : {"pick", "claimed", "sent"}, job : 0..Len(queue),
                              failed : SUBSET Endpoint]
    /\ wire \subseteq Snapshot /\ Server!TypeOK
    /\ baseline \in [Endpoint -> 1..MaxQueue \cup {None}]
    /\ ledger \in {None} \cup [endpoint : Endpoint, head : Snapshot, content : Content]
    /\ direct \in [Direct -> Made \cup {None}] /\ replace \in Direct \cup {None}
    /\ TaskKnown /\ SentMade /\ DecidedSent /\ CompletedDecided
    /\ \A i \in DOMAIN queue : BaseCovers(i)
    /\ SentInOrder
    /\ LedgerKnown

Inv == Capture /\ Delivery

(***************************************************************************)
(* The data                                                                *)
(***************************************************************************)
\* Rows are bounded, so that a set of them has a newest one.
LEMMA Newest ==
    ASSUME NEW n \in Nat, NEW S \in SUBSET (1 .. n), S # {}
    PROVE  Max(S) \in S /\ \A g \in S : g <= Max(S)
<1> DEFINE T == {n - g : g \in S}
           R == OpToRel(<, Nat)
<1>1. T \subseteq Nat /\ T # {}
  <2>1. \A g \in S : n - g \in Nat
    OBVIOUS
  <2>2. QED
    BY <2>1
<1>2. \A x, y \in Nat : y < x => <<y, x>> \in R
  BY DEF OpToRel
<1>3. PICK x \in T : \A y \in T : <<y, x>> \notin R
  <2> HIDE DEF T, R
  <2>1. IsWellFoundedOn(R, Nat)
    BY NatLessThanWellFounded DEF R
  <2>2. QED
    BY <1>1, <2>1, WFMin
<1>4. \A y \in T : x <= y
  <2> HIDE DEF R
  <2>1. \A y \in T : ~(y < x)
    BY <1>1, <1>2, <1>3
  <2>2. QED
    BY <1>1, <2>1
<1>5. PICK m \in S : x = n - m
  OBVIOUS
<1>6. \A g \in S : m >= g
  <2> SUFFICES ASSUME NEW g \in S PROVE m >= g
    OBVIOUS
  <2>1. n - g \in T
    OBVIOUS
  <2>2. QED
    BY <1>4, <1>5, <2>1
<1>7. QED
  BY <1>6 DEF Max

\* The names of snapshots tell where they come from, and None is none of them.
LEMMA Names ==
    /\ Snapshot = 1..MaxQueue \cup Foreign \cup Direct
    /\ \A x \in 1..MaxQueue : x \in Nat /\ x \notin Foreign /\ x \notin Direct
    /\ \A x \in Direct : x \notin Nat /\ x \notin Foreign
    /\ \A x \in Foreign : x \notin Nat /\ x \notin Direct
    /\ None \notin Snapshot /\ None \notin Nat /\ None \notin Made
    /\ MaxQueue \in Nat /\ MaxPlays \in Nat /\ MaxSessions \in Nat
BY QueueAssumption DEF Snapshot

\* The type invariant is a part of the inductive one.
LEMMA Types == Inv => TypeOK
BY DEF Inv, Capture, Delivery, TypeOK, WorkerState, Content

\* What a worker at each of its steps holds.
LEMMA Workers ==
    ASSUME NEW n \in Nat, NEW v \in WorkerState(n), v # None
    PROVE  /\ v.endpoint \in Endpoint
           /\ v.at \in {"claimed", "staged"} => v.gen \in 1..n
           /\ v.at = "staged" => v.content \in Content
BY DEF WorkerState

\* A row is appended.
LEMMA Appended ==
    ASSUME NEW S, NEW q \in Seq(S), NEW m \in S
    PROVE  /\ Append(q, m) \in Seq(S)
           /\ Len(q) \in Nat /\ DOMAIN q = 1..Len(q)
           /\ Len(Append(q, m)) = Len(q) + 1
           /\ DOMAIN Append(q, m) = 1..(Len(q) + 1)
           /\ Append(q, m)[Len(q) + 1] = m
           /\ \A i \in 1..Len(q) : Append(q, m)[i] = q[i]
BY AppendProperties, LenProperties

\* What the invariant says of the queue's rows.
LEMMA Rows ==
    ASSUME Delivery
    PROVE  /\ Len(queue) \in Nat /\ DOMAIN queue = 1..Len(queue) /\ DOMAIN queue \subseteq 1..MaxQueue
           /\ \A i \in DOMAIN queue : /\ queue[i] \in Made
                                      /\ queue[i].endpoint \in Endpoint
                                      /\ queue[i].base \in Snapshot \cup {None}
                                      /\ queue[i].content \in Content
           /\ DOMAIN state = DOMAIN queue
<1>1. queue \in Seq(Made) /\ Len(queue) \in Nat /\ Len(queue) <= MaxQueue /\ DOMAIN queue = 1..Len(queue)
  BY LenProperties DEF Delivery
<1>2. DOMAIN queue \subseteq 1..MaxQueue
  BY <1>1, Names
<1>3. \A i \in DOMAIN queue : queue[i] \in Made
  BY <1>1, ElementOfSeq
<1>4. QED
  BY <1>1, <1>2, <1>3 DEF Delivery, Made

(***************************************************************************)
(* The generations                                                         *)
(***************************************************************************)
\* What concerns the generations only does not disturb the delivery, nor the
\* other way round.
LEMMA DeliverySame ==
    ASSUME Delivery, UNCHANGED <<rows, drain, remote, baseline, ledger, manual>>
    PROVE  Delivery'
<1>1. /\ UNCHANGED <<queue, state, drain, wire, decided, baseline, ledger, direct, replace>>
      /\ Server!TypeOK'
  BY DEF Delivery, rows, remote, manual, Server!TypeOK
<1>2. \A i : BaseCovers(i)' <=> BaseCovers(i)
  BY <1>1 DEF BaseCovers, IsDecided, Decisions
<1>3. (TaskKnown /\ SentMade /\ DecidedSent /\ CompletedDecided)'
  BY <1>1 DEF Delivery, TaskKnown, SentMade, DecidedSent, MadeBy, CompletedDecided, DecidedAt,
              Decisions
<1>4. SentInOrder' /\ LedgerKnown'
  BY <1>1 DEF Delivery, SentInOrder, IsDecided, LedgerKnown, Advanced, Decisions
<1>5. QED
  BY <1>1, <1>2, <1>3, <1>4 DEF Delivery

\* The steps of a drain, of the servers and of a manual upload; and a kill, after
\* which no worker has staged anything.
LEMMA CaptureSame ==
    ASSUME Capture, UNCHANGED <<device, dirty, captured, lease, queue>>,
           worker' \in {worker, [w \in Worker |-> None]}
    PROVE  Capture'
<1>1. UNCHANGED <<session, server, plays, dirty, captured, lease, queue>>
  BY DEF device
<1>2. worker' \in [Worker -> WorkerState(dirty)] /\ StagedTruthful'
  BY <1>1 DEF Capture, WorkerState, StagedTruthful
<1>3. QED
  BY <1>1, <1>2 DEF Capture, SessionRoom, NoSaveLost

\* The start and the end of a session make a generation dirty, so that nothing
\* staged before them holds the dirty one; and the game saves within one.
LEMMA SessionKeeps ==
    ASSUME Inv, StartSession \/ FinishSession \/ Play \/ \E e \in Endpoint : ChangeServer(e)
    PROVE  Inv'
<1>1. Capture /\ Delivery
  BY DEF Inv
<1>2. Delivery'
  BY <1>1, DeliverySame DEF StartSession, FinishSession, Play, ChangeServer
<1>3. ASSUME dirty' = dirty + 1, session \/ session', dirty' <= 2 * MaxSessions,
             session' \in BOOLEAN, SessionRoom',
             UNCHANGED <<server, plays, captured, lease, worker, queue>>
      PROVE  Capture'
  <2>1. dirty \in Nat /\ WorkerState(dirty) \subseteq WorkerState(dirty')
    BY <1>1, <1>3, Names DEF Capture, WorkerState
  <2>2. StagedTruthful'
    <3>1. SUFFICES ASSUME NEW w \in Worker, worker[w] # None, worker[w].at = "staged"
                   PROVE  worker[w].gen # dirty'
      BY <1>3 DEF StagedTruthful
    <3>2. worker[w].gen \in 1..dirty
      BY <1>1, <2>1, <3>1, Workers DEF Capture
    <3>3. QED
      BY <1>3, <2>1, <3>2
  <2>3. dirty' \in 0..(2 * MaxSessions) /\ captured' \in 0..dirty' /\ captured' # dirty'
    BY <1>1, <1>3, <2>1, Names DEF Capture
  <2>4. worker' \in [Worker -> WorkerState(dirty')]
    BY <1>1, <1>3, <2>1 DEF Capture
  <2>5. QED
    BY <1>1, <1>3, <2>2, <2>3, <2>4 DEF Capture, NoSaveLost
<1>4. CASE StartSession
  <2>1. session' /\ dirty' = dirty + 1 /\ dirty < 2 * MaxSessions - 1 /\ session' \in BOOLEAN
        /\ UNCHANGED <<server, plays, captured, lease, worker, queue>>
    BY <1>4 DEF StartSession, rows
  <2>2. dirty' < 2 * MaxSessions
    BY <1>1, <2>1, Names DEF Capture
  <2>3. QED
    BY <1>1, <1>2, <1>3, <2>1, <2>2, Names DEF Inv, SessionRoom, Capture
<1>5. CASE FinishSession
  <2>1. session /\ ~session' /\ dirty' = dirty + 1 /\ session' \in BOOLEAN
        /\ UNCHANGED <<server, plays, captured, lease, worker, queue>>
    BY <1>5 DEF FinishSession, rows
  <2>2. dirty' <= 2 * MaxSessions
    BY <1>1, <2>1, Names DEF Capture, SessionRoom
  <2>3. QED
    BY <1>2, <1>3, <2>1, <2>2 DEF Inv, SessionRoom
<1>6. CASE Play
  <2>1. /\ session /\ plays' = plays + 1 /\ plays < MaxPlays
        /\ UNCHANGED <<session, server, dirty, captured, lease, worker, queue>>
    BY <1>6 DEF Play, capture, rows
  <2>2. plays' \in Content
    BY <1>1, <2>1, Names DEF Capture, Content
  <2>3. QED
    BY <1>1, <1>2, <2>1, <2>2 DEF Inv, Capture, SessionRoom, StagedTruthful, NoSaveLost
<1>7. CASE \E e \in Endpoint : ChangeServer(e)
  <2>1. /\ server' \in Endpoint
        /\ UNCHANGED <<session, plays, dirty, captured, lease, worker, queue>>
    BY <1>7 DEF ChangeServer, capture, rows
  <2>2. QED
    BY <1>1, <1>2, <2>1 DEF Inv, Capture, SessionRoom, StagedTruthful, NoSaveLost
<1>8. QED
  BY <1>4, <1>5, <1>6, <1>7

\* A worker looks at the generations and stages the tree as it is.
LEMMA WorkerKeeps ==
    ASSUME Inv, NEW w \in Worker,
           \/ StartCapture(w) \/ ClaimGeneration(w) \/ FindNothing(w) \/ Stage(w) \/ FailCapture(w)
    PROVE  Inv'
<1>1. Capture /\ Delivery /\ dirty \in Nat /\ worker \in [Worker -> WorkerState(dirty)]
  BY Names DEF Inv, Capture
<1>2. Delivery'
  BY <1>1, DeliverySame DEF StartCapture, ClaimGeneration, FindNothing, Stage, FailCapture
<1>3. /\ UNCHANGED <<session, server, plays, dirty, captured, queue>>
      /\ lease' \in {lease, w, None}
  BY DEF StartCapture, ClaimGeneration, FindNothing, Stage, FailCapture, device, rows
<1>4. PICK v \in WorkerState(dirty) :
          /\ worker' = [worker EXCEPT ![w] = v]
          /\ v # None /\ v.at = "staged" => v.content = plays
  <2>1. CASE StartCapture(w)
    <3>1. [at |-> "started", endpoint |-> server] \in WorkerState(dirty)
      BY <1>1 DEF Capture, WorkerState
    <3>2. QED
      BY <2>1, <3>1 DEF StartCapture
  <2>2. CASE ClaimGeneration(w)
    <3>1. dirty \in 1..dirty /\ worker[w].endpoint \in Endpoint
      BY <1>1, <2>2, Workers DEF ClaimGeneration, Capture
    <3>2. [at |-> "claimed", gen |-> dirty, endpoint |-> worker[w].endpoint]
              \in WorkerState(dirty)
      BY <3>1 DEF WorkerState
    <3>3. QED
      BY <2>2, <3>2 DEF ClaimGeneration
  <2>3. CASE FindNothing(w) \/ FailCapture(w)
    BY <2>3 DEF FindNothing, FailCapture, WorkerState
  <2>4. CASE Stage(w)
    <3>1. worker[w].gen \in 1..dirty /\ worker[w].endpoint \in Endpoint /\ plays \in Content
      BY <1>1, <2>4, Workers DEF Stage, Capture
    <3>2. [at |-> "staged", gen |-> worker[w].gen, endpoint |-> worker[w].endpoint,
           content |-> plays] \in WorkerState(dirty)
      BY <3>1 DEF WorkerState
    <3>3. QED
      BY <2>4, <3>2 DEF Stage
  <2>5. QED
    BY <2>1, <2>2, <2>3, <2>4
<1>5. worker' \in [Worker -> WorkerState(dirty)] /\ StagedTruthful'
  BY <1>1, <1>3, <1>4 DEF Capture, StagedTruthful
<1>6. QED
  BY <1>1, <1>2, <1>3, <1>5 DEF Inv, Capture, SessionRoom, NoSaveLost

(***************************************************************************)
(* The rows                                                                *)
(***************************************************************************)
\* What the invariant says of the names in it.
LEMMA Known ==
    ASSUME Delivery
    PROVE  /\ \A x \in wire : /\ x \in Snapshot /\ x \notin Foreign
                              /\ MadeBy(x) \in Made
                              /\ x \in Nat => x \in DOMAIN queue /\ MadeBy(x) = queue[x]
           /\ \A x, e : DecidedAt(x, e) => IsDecided(x)
           /\ \A i \in Nat : IsDecided(i) => i \in wire /\ i \in DOMAIN queue
                                             /\ DecidedAt(i, queue[i].endpoint)
           /\ \A d \in decided : /\ d.snapshot \in Snapshot /\ d.save \in Endpoint
                                 /\ d.base \in Snapshot \cup {None}
                                 /\ d.seen \in Snapshot \cup {None}
           /\ head \in [Endpoint -> Snapshot \cup {None}]
<1>1. \A x \in wire : x \in DOMAIN queue \/ (x \in Direct /\ direct[x] \in Made)
  BY DEF Delivery, SentMade
<1>2. \A x \in wire : /\ x \in Snapshot /\ x \notin Foreign
                      /\ MadeBy(x) \in Made
                      /\ x \in Nat => x \in DOMAIN queue /\ MadeBy(x) = queue[x]
  BY <1>1, Rows, Names DEF Delivery, MadeBy
<1>3. \A d \in decided : /\ d.snapshot \in Snapshot /\ d.save \in Endpoint
                         /\ d.base \in Snapshot \cup {None}
                         /\ d.seen \in Snapshot \cup {None}
  BY DEF Delivery, Server!TypeOK, Server!Decision
<1>4. \A x, e : DecidedAt(x, e) => IsDecided(x)
  BY DEF DecidedAt, IsDecided
<1>5. ASSUME NEW i \in Nat, IsDecided(i)
      PROVE  i \in wire /\ i \in DOMAIN queue /\ DecidedAt(i, queue[i].endpoint)
  <2>1. PICK d \in decided : d.snapshot = i
    BY <1>5 DEF IsDecided, Decisions
  <2>2. i \in wire /\ d.save = MadeBy(i).endpoint
    BY <2>1, Names DEF Delivery, DecidedSent
  <2>3. QED
    BY <1>2, <2>1, <2>2 DEF DecidedAt, Decisions
<1>6. QED
  BY <1>2, <1>3, <1>4, <1>5 DEF Delivery, Server!TypeOK

\* The base of a new row covers every earlier row of its endpoint.
LEMMA BaseIsNewest ==
    ASSUME Delivery, NEW e \in Endpoint
    PROVE  /\ Base(e) \in Snapshot \cup {None}
           /\ \A j \in DOMAIN queue : queue[j].endpoint = e =>
                  \/ IsDecided(j)
                  \/ /\ Base(e) \in DOMAIN queue /\ j <= Base(e)
                     /\ queue[Base(e)].endpoint = e
<1>1. /\ Retryable(e) \subseteq DOMAIN queue /\ DOMAIN queue \subseteq 1..MaxQueue
      /\ \A i \in Retryable(e) : queue[i].endpoint = e
  BY Rows DEF Retryable
<1>2. ASSUME NEW j \in DOMAIN queue, queue[j].endpoint = e
      PROVE  IsDecided(j) \/ j \in Retryable(e)
  <2>1. state[j] \in {"pending", "uploading", "completed"}
    BY DEF Delivery
  <2>2. state[j] = "completed" => IsDecided(j)
    BY Known DEF Delivery, CompletedDecided
  <2>3. QED
    BY <1>2, <2>1, <2>2 DEF Retryable
<1>3. CASE Retryable(e) # {}
  <2>1. /\ Base(e) = Max(Retryable(e)) /\ Base(e) \in Retryable(e)
        /\ \A j \in Retryable(e) : j <= Base(e)
    BY <1>1, <1>3, Newest, Names DEF Base
  <2>2. QED
    BY <1>1, <1>2, <2>1, Names
<1>4. CASE Retryable(e) = {}
  <2>1. Base(e) \in Snapshot \cup {None}
    BY <1>4, Names DEF Base, Delivery
  <2>2. QED
    BY <1>2, <1>4, <2>1
<1>5. QED
  BY <1>3, <1>4

\* A row that is new has not been sent, and is retryable.
LEMMA EnqueueKeeps ==
    ASSUME Inv, NEW w \in Worker, Enqueue(w)
    PROVE  Inv'
<1> DEFINE e == worker[w].endpoint
           m == [endpoint |-> e, base |-> Base(e), content |-> worker[w].content]
<1>1. /\ Capture /\ Delivery /\ dirty \in Nat /\ worker \in [Worker -> WorkerState(dirty)]
      /\ worker[w] # None /\ worker[w].at = "staged" /\ Len(queue) < MaxQueue
      /\ worker[w].gen \in 1..dirty /\ e \in Endpoint /\ worker[w].content \in Content
  BY Names, Workers DEF Inv, Capture, Enqueue
<1>2. /\ queue' = Append(queue, m) /\ state' = Append(state, "pending")
      /\ captured' = worker[w].gen /\ lease' = None /\ worker' = [worker EXCEPT ![w] = None]
      /\ UNCHANGED <<session, server, plays, dirty>>
      /\ UNCHANGED <<drain, wire, head, decided, baseline, ledger, direct, replace>>
  BY DEF Enqueue, device, remote, manual
<1>3. PICK r \in Made : /\ r = m /\ r.endpoint = e /\ r.base = Base(e)
                        /\ r.content = worker[w].content
  <2>1. m \in Made
    BY <1>1, BaseIsNewest DEF Made
  <2>2. QED
    BY <2>1
<1> HIDE DEF m
<1> PICK n : n = Len(queue) + 1
  OBVIOUS
<1>4. /\ queue \in Seq(Made) /\ queue' \in Seq(Made) /\ Len(queue') = n /\ n \in 1..MaxQueue
      /\ Len(queue) \in Nat /\ DOMAIN queue = 1..Len(queue) /\ DOMAIN queue' = 1..n
      /\ queue'[n] = r /\ \A i \in 1..Len(queue) : queue'[i] = queue[i]
  BY <1>1, <1>2, <1>3, Appended, Names DEF Delivery
<1>5. /\ DOMAIN state' = 1..n /\ state'[n] = "pending"
      /\ \A i \in 1..Len(queue) : state'[i] = state[i]
      /\ state' \in [DOMAIN queue' -> {"pending", "uploading", "completed"}]
  <2> DEFINE S == {"pending", "uploading", "completed"}
  <2>1. state \in [1..Len(queue) -> S]
    BY <1>1, <1>4 DEF Delivery
  <2>2. state \in Seq(S) /\ Len(state) = Len(queue)
    BY <1>4, <2>1, LenProperties
  <2>3. state' \in Seq(S) /\ Len(state') = n /\ DOMAIN state' = 1..n /\ state'[n] = "pending"
        /\ \A i \in 1..Len(queue) : state'[i] = state[i]
    BY <1>2, <2>2, Appended
  <2>4. state' \in [1..n -> S]
    BY <2>3, LenProperties
  <2>5. QED
    BY <1>4, <2>3, <2>4
<1>6. Capture'
  <2>1. worker' \in [Worker -> WorkerState(dirty)] /\ StagedTruthful'
    BY <1>1, <1>2 DEF Capture, WorkerState, StagedTruthful
  <2>2. NoSaveLost'
    <3>1. SUFFICES ASSUME captured' = dirty', ~session', plays' > 0
                   PROVE  r.content = plays
      BY <1>2, <1>4 DEF NoSaveLost
    <3>2. QED
      BY <1>1, <1>2, <1>3, <3>1 DEF Capture, StagedTruthful
  <2>3. captured' \in 0..dirty
    BY <1>1, <1>2
  <2>4. QED
    BY <1>1, <1>2, <2>1, <2>2, <2>3 DEF Capture, SessionRoom
<1>7. /\ n \notin wire /\ \A x : Decisions(x)' = Decisions(x)
      /\ \A x, f : DecidedAt(x, f)' <=> DecidedAt(x, f)
      /\ \A x : IsDecided(x)' <=> IsDecided(x)
  <2>1. n \in Nat /\ n \notin DOMAIN queue
    BY <1>4
  <2>2. n \notin wire
    BY <1>1, <2>1, Known
  <2>3. QED
    BY <1>2, <2>2 DEF Decisions, DecidedAt, IsDecided
<1>8. TaskKnown' /\ SentMade' /\ LedgerKnown'
  BY <1>1, <1>2, <1>4, <1>7 DEF Delivery, TaskKnown, SentMade, LedgerKnown, Advanced
<1>9. DecidedSent'
  <2>1. \A x \in wire : MadeBy(x)' = MadeBy(x)
    BY <1>1, <1>2, <1>4, Known, Names DEF MadeBy, SentMade, Delivery
  <2>2. QED
    BY <1>1, <1>2, <2>1 DEF Delivery, DecidedSent
<1>10. CompletedDecided'
  <2> SUFFICES ASSUME NEW i \in 1..n, state'[i] = "completed"
               PROVE  DecidedAt(i, queue'[i].endpoint)
    BY <1>2, <1>4 DEF CompletedDecided, DecidedAt, Decisions
  <2>1. i \in 1..Len(queue) /\ queue'[i] = queue[i] /\ state[i] = "completed"
    BY <1>4, <1>5
  <2>2. QED
    BY <1>1, <1>4, <2>1 DEF Delivery, CompletedDecided
<1>11. \A i \in DOMAIN queue' : BaseCovers(i)'
  <2>1. ASSUME NEW i \in 1..Len(queue) PROVE BaseCovers(i)'
    <3>1. BaseCovers(i)
      BY <1>1, <1>4, <2>1 DEF Delivery
    <3>2. queue'[i] = queue[i] /\ \A j \in 1..(i - 1) : queue'[j] = queue[j]
      BY <1>4
    <3>3. \A j \in 1..(i - 1) : queue[i].base \in j..(i - 1) =>
              queue'[queue[i].base] = queue[queue[i].base]
      BY <3>2
    <3>4. QED
      BY <1>7, <3>1, <3>2, <3>3 DEF BaseCovers
  <2>2. BaseCovers(n)'
    <3> SUFFICES ASSUME NEW j \in 1..(n - 1), queue'[j].endpoint = e
                 PROVE  \/ IsDecided(j)
                        \/ /\ Base(e) \in j..(n - 1)
                           /\ queue'[Base(e)].endpoint = e
      BY <1>3, <1>4, <1>7 DEF BaseCovers
    <3>1. j \in DOMAIN queue /\ queue[j].endpoint = e
      BY <1>4
    <3>2. QED
      BY <1>1, <1>4, <3>1, BaseIsNewest
  <2>3. QED
    BY <1>4, <2>1, <2>2
<1>12. SentInOrder'
  BY <1>1, <1>2, <1>4, <1>7 DEF Delivery, SentInOrder
<1>13. Delivery'
  <2>1. drain' \in {None} \cup [at : {"pick", "claimed", "sent"}, job : 0..Len(queue'),
                                failed : SUBSET Endpoint]
    BY <1>1, <1>2, <1>4 DEF Delivery
  <2>2. Server!TypeOK'
    BY <1>1, <1>2 DEF Delivery, Server!TypeOK
  <2>3. QED
    BY <1>1, <1>2, <1>4, <1>5, <1>8, <1>9, <1>10, <1>11, <1>12, <2>1, <2>2 DEF Delivery
<1>14. QED
  BY <1>6, <1>13 DEF Inv

(***************************************************************************)
(* The drain                                                               *)
(***************************************************************************)
\* A drain that sends nothing changes what the rows' states say, at most.
LEMMA DrainSame ==
    ASSUME Delivery, UNCHANGED <<queue, remote, ledger, manual>>,
           state' \in [DOMAIN queue -> {"pending", "uploading", "completed"}],
           drain' \in {None} \cup [at : {"pick", "claimed", "sent"}, job : 0..Len(queue),
                                   failed : SUBSET Endpoint],
           drain' # None /\ drain'.at # "pick" => drain'.job \in DOMAIN queue,
           baseline' \in [Endpoint -> 1..MaxQueue \cup {None}],
           \A i \in DOMAIN queue : state'[i] = "completed" =>
               state[i] = "completed" \/ DecidedAt(i, queue[i].endpoint)
    PROVE  Delivery'
<1>1. UNCHANGED <<queue, wire, head, decided, ledger, direct, replace>> /\ Server!TypeOK'
  BY DEF Delivery, remote, manual, Server!TypeOK
<1>2. \A i : BaseCovers(i)' <=> BaseCovers(i)
  BY <1>1 DEF BaseCovers, IsDecided, Decisions
<1>3. TaskKnown' /\ SentMade' /\ DecidedSent'
  BY <1>1 DEF Delivery, TaskKnown, SentMade, DecidedSent, MadeBy
<1>4. CompletedDecided'
  BY <1>1 DEF Delivery, CompletedDecided, DecidedAt, Decisions
<1>5. SentInOrder' /\ LedgerKnown'
  BY <1>1 DEF Delivery, SentInOrder, IsDecided, LedgerKnown, Advanced, Decisions
<1>6. QED
  BY <1>1, <1>2, <1>3, <1>4, <1>5 DEF Delivery

\* A row is completed on its own receipt only.
LEMMA DrainKeeps ==
    ASSUME Delivery, \/ StartDrain \/ (\E i \in DOMAIN queue : ClaimUpload(i))
                     \/ Complete \/ FailUpload \/ EndDrain
    PROVE  Delivery'
<1>1. /\ UNCHANGED <<queue, remote, ledger, manual>>
      /\ Len(queue) \in Nat /\ DOMAIN queue = 1..Len(queue) /\ DOMAIN queue \subseteq 1..MaxQueue
      /\ state \in [DOMAIN queue -> {"pending", "uploading", "completed"}]
      /\ drain \in {None} \cup [at : {"pick", "claimed", "sent"}, job : 0..Len(queue),
                                failed : SUBSET Endpoint]
      /\ drain # None /\ drain.at # "pick" => drain.job \in DOMAIN queue
      /\ baseline \in [Endpoint -> 1..MaxQueue \cup {None}]
      /\ \A i \in DOMAIN queue : queue[i].endpoint \in Endpoint
  BY Rows DEF StartDrain, ClaimUpload, Complete, FailUpload, EndDrain, Delivery, TaskKnown, rows
<1>2. CASE StartDrain
  <2>1. drain' = [at |-> "pick", job |-> 0, failed |-> {}] /\ UNCHANGED <<state, baseline>>
    BY <1>2 DEF StartDrain, rows
  <2>2. QED
    BY <1>1, <2>1, DrainSame
<1>3. ASSUME NEW i \in DOMAIN queue, ClaimUpload(i) PROVE Delivery'
  <2>1. /\ drain # None /\ drain' = [drain EXCEPT !.at = "claimed", !.job = i]
        /\ state' = [state EXCEPT ![i] = "uploading"] /\ UNCHANGED baseline
    BY <1>3 DEF ClaimUpload
  <2>2. drain' \in [at : {"pick", "claimed", "sent"}, job : 0..Len(queue),
                    failed : SUBSET Endpoint] /\ drain'.job = i
    <3>1. i \in 0..Len(queue)
      BY <1>1
    <3>2. drain \in [at : {"pick", "claimed", "sent"}, job : 0..Len(queue),
                    failed : SUBSET Endpoint]
      BY <1>1, <2>1
    <3>3. QED
      BY <2>1, <3>1, <3>2
  <2>3. QED
    BY <1>1, <2>1, <2>2, DrainSame
<1>4. CASE Complete
  <2>1. /\ drain # None /\ drain.at = "sent" /\ IsDecided(drain.job)
        /\ drain' = [drain EXCEPT !.at = "pick"]
        /\ state' = [state EXCEPT ![drain.job] = "completed"]
        /\ baseline' \in {baseline, [baseline EXCEPT ![queue[drain.job].endpoint] = drain.job]}
    BY <1>4 DEF Complete
  <2>2. drain' \in [at : {"pick", "claimed", "sent"}, job : 0..Len(queue),
                    failed : SUBSET Endpoint] /\ drain'.at = "pick"
    BY <1>1, <2>1
  <2>3. drain.job \in DOMAIN queue /\ DecidedAt(drain.job, queue[drain.job].endpoint)
    BY <1>1, <2>1, Known
  <2>4. baseline' \in [Endpoint -> 1..MaxQueue \cup {None}]
    BY <1>1, <2>1, <2>3
  <2>5. QED
    BY <1>1, <2>1, <2>2, <2>3, <2>4, DrainSame
<1>5. CASE FailUpload
  <2>1. /\ drain # None /\ drain.at # "pick" /\ UNCHANGED baseline
        /\ drain' = [drain EXCEPT !.at = "pick",
                                  !.failed = @ \cup {queue[drain.job].endpoint}]
        /\ state' = [state EXCEPT ![drain.job] = "pending"]
    BY <1>5 DEF FailUpload
  <2>2. drain' \in [at : {"pick", "claimed", "sent"}, job : 0..Len(queue),
                    failed : SUBSET Endpoint] /\ drain'.at = "pick"
    <3>1. queue[drain.job].endpoint \in Endpoint
      BY <1>1, <2>1
    <3>2. drain \in [at : {"pick", "claimed", "sent"}, job : 0..Len(queue),
                    failed : SUBSET Endpoint]
      BY <1>1, <2>1
    <3>3. drain.failed \cup {queue[drain.job].endpoint} \in SUBSET Endpoint
      BY <3>1, <3>2
    <3>4. QED
      BY <2>1, <3>2, <3>3
  <2>3. QED
    BY <1>1, <2>1, <2>2, DrainSame
<1>6. CASE EndDrain
  <2>1. drain' = None /\ UNCHANGED <<state, baseline>>
    BY <1>6 DEF EndDrain, rows
  <2>2. QED
    BY <1>1, <2>1, DrainSame
<1>7. QED
  BY <1>2, <1>3, <1>4, <1>5, <1>6

\* The base of a row that is sent is decided, and with it all that it covers.
LEMMA SendKeeps ==
    ASSUME Delivery, Send
    PROVE  Delivery'
<1> DEFINE i == drain.job
<1>1. /\ drain # None /\ drain.at = "claimed" /\ drain' = [drain EXCEPT !.at = "sent"]
      /\ queue[i].base # None => DecidedAt(queue[i].base, queue[i].endpoint)
      /\ wire' = wire \cup {i}
      /\ UNCHANGED <<queue, state, head, decided, baseline, ledger, direct, replace>>
  BY DEF Send, rows, manual
<1>2. /\ i \in DOMAIN queue /\ i \in Snapshot /\ i \in Nat
      /\ DOMAIN queue \subseteq 1..MaxQueue /\ BaseCovers(i)
  BY <1>1, Rows, Names DEF Delivery, TaskKnown
<1>3. ASSUME NEW j \in 1..(i - 1), queue[j].endpoint = queue[i].endpoint, ~IsDecided(j)
      PROVE  FALSE
  <2> DEFINE b == queue[i].base
  <2>1. b \in j..(i - 1) /\ queue[b].endpoint = queue[i].endpoint /\ b \in Nat
    BY <1>2, <1>3 DEF BaseCovers
  <2>2. IsDecided(b)
    BY <1>1, <2>1, Known, Names
  <2>3. b \in wire \cap DOMAIN queue
    BY <2>1, <2>2, Known
  <2>4. j # b /\ j \in 1..(b - 1)
    BY <1>2, <1>3, <2>1, <2>2
  <2>5. QED
    BY <1>3, <2>1, <2>3, <2>4 DEF Delivery, SentInOrder
<1>4. SentInOrder'
  <2>1. \A k \in DOMAIN queue \cap (wire \cup {i}) : \A j \in 1..(k - 1) :
            queue[j].endpoint = queue[k].endpoint => IsDecided(j)
    BY <1>3 DEF Delivery, SentInOrder
  <2> HIDE DEF i
  <2>2. QED
    BY <1>1, <2>1 DEF SentInOrder, IsDecided, Decisions
<1>5. drain' \in [at : {"pick", "claimed", "sent"}, job : 0..Len(queue),
                  failed : SUBSET Endpoint] /\ drain'.job = i
  BY <1>1 DEF Delivery
<1>6. \A k : BaseCovers(k)' <=> BaseCovers(k)
  BY <1>1 DEF BaseCovers, IsDecided, Decisions
<1>7. TaskKnown' /\ SentMade' /\ DecidedSent'
  BY <1>1, <1>2, <1>5 DEF Delivery, TaskKnown, SentMade, DecidedSent, MadeBy
<1>8. CompletedDecided' /\ LedgerKnown'
  BY <1>1 DEF Delivery, CompletedDecided, DecidedAt, LedgerKnown, Advanced, Decisions
<1>9. wire' \subseteq Snapshot /\ Server!TypeOK'
  BY <1>1, <1>2 DEF Delivery, Server!TypeOK
<1>10. QED
  BY <1>1, <1>4, <1>5, <1>6, <1>7, <1>8, <1>9 DEF Delivery

(***************************************************************************)
(* The servers and the manual upload                                       *)
(***************************************************************************)
\* A server decides what was sent to it, or something of another device.
LEMMA DecideKeeps ==
    ASSUME Delivery, NEW x \in Snapshot, NEW e \in Endpoint, NEW b \in Snapshot \cup {None},
           Server!Decide(x, e, b), x \in Foreign \/ (x \in wire /\ e = MadeBy(x).endpoint),
           UNCHANGED <<rows, drain, wire, baseline, ledger, manual>>
    PROVE  Delivery'
<1> DEFINE d == [snapshot |-> x, save |-> e, base |-> b, seen |-> head[e]]
<1>1. /\ UNCHANGED <<queue, state, drain, wire, baseline, ledger, direct, replace>>
      /\ decided' = decided \cup {d}
      /\ head' \in {head, [head EXCEPT ![e] = x]}
  BY DEF Server!Decide, rows, manual
<1>2. d \in Server!Decision /\ d.snapshot = x /\ d.save = e
  BY Known DEF Server!Decision
<1> HIDE DEF d
<1>3. Server!TypeOK'
  BY <1>1, <1>2 DEF Delivery, Server!TypeOK
<1>4. /\ \A y : IsDecided(y) => IsDecided(y)'
      /\ \A y, f : DecidedAt(y, f) => DecidedAt(y, f)'
      /\ \A y : Advanced(y) => Advanced(y)'
  BY <1>1 DEF IsDecided, DecidedAt, Advanced, Decisions
<1>5. DecidedSent'
  BY <1>1, <1>2 DEF Delivery, DecidedSent, MadeBy
<1>6. CompletedDecided' /\ LedgerKnown'
  BY <1>1 DEF Delivery, CompletedDecided, DecidedAt, LedgerKnown, Advanced, Decisions
<1>7. SentInOrder' /\ \A k : BaseCovers(k) => BaseCovers(k)'
  BY <1>1, <1>4 DEF Delivery, SentInOrder, BaseCovers
<1>8. TaskKnown' /\ SentMade'
  BY <1>1 DEF Delivery, TaskKnown, SentMade
<1>9. QED
  BY <1>1, <1>3, <1>5, <1>6, <1>7, <1>8 DEF Delivery

\* The server takes a request off the wire, or another device's.
LEMMA ServerKeeps ==
    ASSUME Delivery, \/ \E x \in Snapshot : ServeCommit(x)
                     \/ \E x \in Foreign, e \in Endpoint : OtherCommits(x, e)
    PROVE  Delivery'
<1>1. ASSUME NEW x \in Snapshot, ServeCommit(x) PROVE Delivery'
  <2>1. /\ x \in wire /\ Server!Decide(x, MadeBy(x).endpoint, MadeBy(x).base)
        /\ UNCHANGED <<rows, drain, wire, baseline, ledger, manual>>
    BY <1>1 DEF ServeCommit
  <2>2. MadeBy(x).endpoint \in Endpoint /\ MadeBy(x).base \in Snapshot \cup {None}
    BY <2>1, Known DEF Made
  <2>3. QED
    BY <2>1, <2>2, DecideKeeps
<1>2. ASSUME NEW x \in Foreign, NEW e \in Endpoint, OtherCommits(x, e) PROVE Delivery'
  BY <1>2, Known, Names, DecideKeeps DEF OtherCommits
<1>3. QED
  BY <1>1, <1>2

\* A manual upload is made once, and the ledger is about one that moved the HEAD.
LEMMA ManualKeeps ==
    ASSUME Inv, ManualStep
    PROVE  Delivery'
<1>1. Capture /\ Delivery /\ direct \in [Direct -> Made \cup {None}]
      /\ replace \in Direct \cup {None}
  BY DEF Inv, Delivery
<1>2. ASSUME NEW x \in Direct, StartReplace(x) PROVE Delivery'
  <2> DEFINE m == [endpoint |-> server, base |-> head[server], content |-> plays]
  <2>1. /\ direct[x] = None /\ direct' = [direct EXCEPT ![x] = m]
        /\ wire' = wire \cup {x} /\ replace' = x
        /\ UNCHANGED <<queue, state, drain, head, decided, baseline, ledger>>
    BY <1>2 DEF StartReplace, rows
  <2>2. m \in Made /\ m # None
    BY <1>1, Known, Names DEF Capture, Made
  <2> HIDE DEF m
  <2>3. direct' \in [Direct -> Made \cup {None}] /\ direct'[x] # None
        /\ \A y \in Direct \ {x} : direct'[y] = direct[y]
    BY <1>1, <2>1, <2>2
  <2>4. \A y \in wire : y # x /\ MadeBy(y)' = MadeBy(y)
    BY <1>1, <2>1, <2>3, Rows, Names DEF Delivery, SentMade, MadeBy
  <2>5. TaskKnown' /\ SentMade'
    BY <1>1, <2>1, <2>3 DEF Delivery, TaskKnown, SentMade
  <2>6. DecidedSent'
    BY <1>1, <2>1, <2>4 DEF Delivery, DecidedSent
  <2>7. CompletedDecided' /\ LedgerKnown'
    BY <1>1, <2>1, <2>3 DEF Delivery, CompletedDecided, DecidedAt, LedgerKnown, Advanced, Decisions
  <2>8. SentInOrder' /\ \A k : BaseCovers(k) => BaseCovers(k)'
    BY <1>1, <2>1, Rows, Names DEF Delivery, SentInOrder, BaseCovers, IsDecided, Decisions
  <2>9. wire' \subseteq Snapshot /\ Server!TypeOK'
    BY <1>1, <2>1, Names DEF Delivery, Server!TypeOK
  <2>10. QED
    BY <1>1, <2>1, <2>3, <2>5, <2>6, <2>7, <2>8, <2>9 DEF Delivery
<1>3. ASSUME UNCHANGED <<rows, drain, remote, baseline, direct>>, replace' = None,
             ledger' \in {None} \cup [endpoint : Endpoint, head : Snapshot, content : Content],
             LedgerKnown'
      PROVE  Delivery'
  <2>1. /\ UNCHANGED <<queue, state, drain, wire, head, decided, baseline, direct>>
        /\ Server!TypeOK'
    BY <1>1, <1>3 DEF Delivery, rows, remote, Server!TypeOK
  <2>2. \A i : BaseCovers(i)' <=> BaseCovers(i)
    BY <2>1 DEF BaseCovers, IsDecided, Decisions
  <2>3. (TaskKnown /\ SentMade /\ DecidedSent /\ CompletedDecided)'
    BY <1>1, <1>3, <2>1 DEF Delivery, TaskKnown, SentMade, DecidedSent, MadeBy,
                            CompletedDecided, DecidedAt, Decisions
  <2>4. SentInOrder'
    BY <1>1, <2>1 DEF Delivery, SentInOrder, IsDecided, Decisions
  <2>5. QED
    BY <1>1, <1>3, <2>1, <2>2, <2>3, <2>4 DEF Delivery
<1>4. ASSUME UNCHANGED <<remote, ledger, direct>> PROVE LedgerKnown'
  BY <1>1, <1>4 DEF Delivery, LedgerKnown, Advanced, Decisions, remote
<1>5. CASE FinishReplace
  <2>1. replace \in Direct /\ direct[replace] \in Made /\ direct[replace] # None
    BY <1>1, <1>5 DEF FinishReplace, Delivery, TaskKnown
  <2> DEFINE r == [endpoint |-> direct[replace].endpoint, head |-> replace,
                   content |-> direct[replace].content]
  <2>2. CASE Establishes(replace)
    <3>1. /\ ledger' = r /\ UNCHANGED <<remote, direct>> /\ replace' = None
          /\ UNCHANGED <<rows, drain, baseline>>
      BY <1>5, <2>2 DEF FinishReplace
    <3>2. Advanced(replace)
      BY <2>2 DEF Establishes, Advanced
    <3>3. PICK x \in Direct : x = replace
      BY <2>1
    <3>4. PICK v \in [endpoint : Endpoint, head : Snapshot, content : Content] :
              v = r /\ v.head = x /\ v.content = direct[x].content
      <4>1. r \in [endpoint : Endpoint, head : Snapshot, content : Content]
        BY <2>1, Names DEF Made
      <4>2. QED
        BY <3>3, <4>1
    <3> HIDE DEF r
    <3>5. direct[x] # None /\ Advanced(x)
      BY <2>1, <3>2, <3>3
    <3>6. LedgerKnown'
      BY <3>1, <3>4, <3>5 DEF LedgerKnown, Advanced, Decisions, remote
    <3>7. QED
      BY <1>3, <3>1, <3>4, <3>6
  <2>3. CASE ~Establishes(replace)
    BY <1>1, <1>3, <1>4, <1>5, <2>3 DEF FinishReplace, Delivery
  <2>4. QED
    BY <2>2, <2>3
<1>6. CASE FailReplace
  BY <1>1, <1>3, <1>4, <1>6 DEF FailReplace, Delivery
<1>7. QED
  BY <1>2, <1>5, <1>6 DEF ManualStep

\* A kill forgets the drain and the manual upload, and nothing that was written.
LEMMA KillKeeps ==
    ASSUME Delivery, Kill
    PROVE  Delivery'
<1>1. /\ UNCHANGED <<queue, state, wire, head, decided, baseline, ledger, direct>>
      /\ drain' = None /\ replace' = None /\ Server!TypeOK'
  BY DEF Delivery, Kill, rows, remote, Server!TypeOK
<1>2. \A i : BaseCovers(i)' <=> BaseCovers(i)
  BY <1>1 DEF BaseCovers, IsDecided, Decisions
<1>3. (TaskKnown /\ SentMade /\ DecidedSent /\ CompletedDecided)'
  BY <1>1 DEF Delivery, TaskKnown, SentMade, DecidedSent, MadeBy, CompletedDecided, DecidedAt,
              Decisions
<1>4. SentInOrder' /\ LedgerKnown'
  BY <1>1 DEF Delivery, SentInOrder, IsDecided, LedgerKnown, Advanced, Decisions
<1>5. QED
  BY <1>1, <1>2, <1>3, <1>4 DEF Delivery

(***************************************************************************)
(* The theorems                                                            *)
(***************************************************************************)
\* Nothing has been played, queued or sent.
LEMMA InitInv == Init => Inv
<1> SUFFICES ASSUME Init PROVE Inv
  OBVIOUS
<1>1. /\ queue = <<>> /\ state = <<>> /\ wire = {} /\ decided = {} /\ drain = None
      /\ ledger = None /\ replace = None /\ Server!TypeOK
  BY DEF Init, Server!Init, Server!TypeOK
<1>2. queue \in Seq(Made) /\ Len(queue) = 0 /\ DOMAIN queue = {} /\ DOMAIN state = {}
  BY <1>1
<1>3. Delivery
  BY <1>1, <1>2, Names
  DEF Init, Delivery, TaskKnown, SentMade, DecidedSent, CompletedDecided, SentInOrder, LedgerKnown
<1>4. Capture
  <2>1. /\ session = FALSE /\ server \in Endpoint /\ plays = 0 /\ dirty = 0 /\ captured = 0
        /\ lease = None /\ worker = [w \in Worker |-> None]
    BY DEF Init
  <2>2. plays \in Content /\ dirty \in 0..(2 * MaxSessions) /\ captured \in 0..dirty
    BY <2>1, Names DEF Content
  <2>3. worker \in [Worker -> WorkerState(dirty)] /\ StagedTruthful
    BY <2>1 DEF WorkerState, StagedTruthful
  <2>4. SessionRoom /\ NoSaveLost
    BY <2>1 DEF SessionRoom, NoSaveLost
  <2>5. QED
    BY <2>1, <2>2, <2>3, <2>4 DEF Capture
<1>5. QED
  BY <1>3, <1>4 DEF Inv

\* Every step keeps the invariant.
LEMMA NextInv == ASSUME Inv, [Next]_vars PROVE Inv'
<1>1. Capture /\ Delivery
  BY DEF Inv
<1>2. CASE StartSession \/ FinishSession \/ Play \/ \E e \in Endpoint : ChangeServer(e)
  BY <1>2, SessionKeeps
<1>3. ASSUME NEW w \in Worker, CaptureStep(w) PROVE Inv'
  BY <1>3, WorkerKeeps, EnqueueKeeps DEF CaptureStep
<1>4. CASE DrainStep
  <2>1. Delivery'
    BY <1>1, <1>4, DrainKeeps, SendKeeps DEF DrainStep
  <2>2. UNCHANGED <<device, dirty, captured, lease, worker, queue>>
    BY <1>4
    DEF DrainStep, StartDrain, ClaimUpload, Send, Complete, FailUpload, EndDrain, capture, rows
  <2>3. QED
    BY <1>1, <2>1, <2>2, CaptureSame DEF Inv
<1>5. CASE \/ \E x \in Snapshot : ServeCommit(x)
           \/ \E x \in Foreign, e \in Endpoint : OtherCommits(x, e)
  <2>1. UNCHANGED <<device, dirty, captured, lease, worker, queue>>
    BY <1>5 DEF ServeCommit, OtherCommits, capture, rows
  <2>2. QED
    BY <1>1, <1>5, <2>1, ServerKeeps, CaptureSame DEF Inv
<1>6. CASE ManualStep
  <2>1. UNCHANGED <<device, dirty, captured, lease, worker, queue>>
    BY <1>6 DEF ManualStep, StartReplace, FinishReplace, FailReplace, capture, rows
  <2>2. QED
    BY <1>1, <1>6, <2>1, ManualKeeps, CaptureSame DEF Inv
<1>7. CASE Kill
  <2>1. UNCHANGED <<device, dirty, captured, lease, queue>> /\ worker' = [w \in Worker |-> None]
    BY <1>7 DEF Kill, rows
  <2>2. QED
    BY <1>1, <1>7, <2>1, KillKeeps, CaptureSame DEF Inv
<1>8. CASE UNCHANGED vars
  BY <1>1, <1>8, DeliverySame, CaptureSame DEF Inv, vars, capture, rows
<1>9. QED
  BY <1>2, <1>3, <1>4, <1>5, <1>6, <1>7, <1>8 DEF Next

\* The inductive invariant holds of every reachable state.
THEOREM Invariance == Spec => []Inv
BY InitInv, NextInv, PTL DEF Spec

\* The type invariant.
THEOREM TypeCorrect == Spec => []TypeOK
BY Types, Invariance, PTL

\* When every dirty generation is acknowledged, the save in the tree is queued,
\* however captures, sessions, kills and expired leases interleave.
THEOREM SavesQueued == Spec => []NoSaveLost
<1>1. Inv => NoSaveLost
  BY DEF Inv, Capture
<1>2. QED
  BY <1>1, Invariance, PTL

\* Nothing dirty and nothing pending means that a server has the save.
THEOREM NothingPending == Spec => []NothingPendingMeansUploaded
<1>1. Inv => NothingPendingMeansUploaded
  BY DEF Inv, Capture, Delivery, NoSaveLost, CompletedDecided, NothingPendingMeansUploaded
<1>2. QED
  BY <1>1, Invariance, PTL

\* The ledger pairs a HEAD with the content of that very snapshot.
THEOREM Ledger == Spec => []LedgerTruthful
<1>1. Inv => LedgerTruthful
  BY DEF Inv, Delivery, LedgerKnown, LedgerTruthful, MadeBy
<1>2. QED
  BY <1>1, Invariance, PTL

(***************************************************************************)
(* The outbox                                                              *)
(***************************************************************************)
\* What the queue shows of itself as an outbox.
Accepted == [i \in DOMAIN queue |-> [endpoint |-> queue[i].endpoint, content |-> queue[i].content]]
Delivered == {i \in DOMAIN queue : IsDecided(i)}

\* A row that is appended is a save that is accepted.
LEMMA EnqueueAccepts ==
    ASSUME Inv, Inv', NEW w \in Worker, Enqueue(w)
    PROVE  Promise!Next
<1> DEFINE S == [endpoint : Endpoint, content : Content]
           e == worker[w].endpoint
           c == worker[w].content
           r == [endpoint |-> e, content |-> c]
           m == [endpoint |-> e, base |-> Base(e), content |-> c]
<1>1. /\ Delivery /\ Delivery' /\ e \in Endpoint /\ c \in Content
      /\ queue' = Append(queue, m) /\ decided' = decided
  BY Names, Workers DEF Inv, Capture, Enqueue, remote
<1>2. m \in Made /\ m.endpoint = e /\ m.content = c
  BY <1>1, BaseIsNewest DEF Made
<1> HIDE DEF m
<1> PICK n : n = Len(queue) + 1
  OBVIOUS
<1>3. /\ queue \in Seq(Made) /\ Len(queue) \in Nat /\ DOMAIN queue = 1..Len(queue)
      /\ DOMAIN queue' = 1..n /\ queue'[n] = m
      /\ \A i \in 1..Len(queue) : queue'[i] = queue[i]
  BY <1>1, <1>2, Appended DEF Delivery
<1>4. \A i \in DOMAIN queue : [endpoint |-> queue[i].endpoint, content |-> queue[i].content] \in S
  BY <1>1, Rows
<1>5. Accepted \in Seq(S) /\ Len(Accepted) = Len(queue)
  <2>1. Accepted \in [1..Len(queue) -> S]
    BY <1>3, <1>4 DEF Accepted
  <2> HIDE DEF S
  <2>2. QED
    BY <1>3, <2>1, LenProperties
<1>6. r \in S /\ r.endpoint = e /\ r.content = c
  BY <1>1
<1>7. /\ Append(Accepted, r) \in [1..n -> S] /\ Append(Accepted, r)[n] = r
      /\ \A i \in 1..Len(queue) : Append(Accepted, r)[i] = Accepted[i]
  <2> HIDE DEF r, S
  <2>1. /\ Append(Accepted, r) \in Seq(S) /\ Len(Append(Accepted, r)) = n
        /\ Append(Accepted, r)[n] = r
        /\ \A i \in 1..Len(queue) : Append(Accepted, r)[i] = Accepted[i]
    BY <1>5, <1>6, Appended
  <2>2. QED
    BY <2>1, LenProperties
<1>8. Accepted' = [i \in 1..n |-> [endpoint |-> queue'[i].endpoint, content |-> queue'[i].content]]
  BY <1>3 DEF Accepted
<1>9. \A i \in 1..n : Accepted'[i] = Append(Accepted, r)[i]
  <2>1. Accepted'[n] = r
    BY <1>2, <1>3, <1>8
  <2>2. \A i \in 1..Len(queue) : Accepted'[i] = Accepted[i]
    BY <1>3, <1>8 DEF Accepted
  <2>3. QED
    BY <1>3, <1>7, <2>1, <2>2
<1>10. Accepted' = Append(Accepted, r)
  BY <1>7, <1>8, <1>9
<1>11. Delivered' = Delivered
  <2>1. n \in Nat /\ n \notin DOMAIN queue
    BY <1>3
  <2>2. ~IsDecided(n)
    BY <1>1, <2>1, Known
  <2>3. \A i : IsDecided(i)' <=> IsDecided(i)
    BY <1>1 DEF IsDecided, Decisions
  <2>4. QED
    BY <1>3, <2>2, <2>3 DEF Delivered
<1>12. PICK a \in Endpoint, b \in Content : r = [endpoint |-> a, content |-> b]
  BY <1>1
<1>13. Promise!Accept(a, b)
  BY <1>10, <1>11, <1>12 DEF Promise!Accept, Accepted, Delivered
<1>14. QED
  BY <1>13 DEF Promise!Next

\* A row that its server decides is delivered, and no earlier one is left behind.
LEMMA ServeDelivers ==
    ASSUME Inv, NEW x \in Snapshot, ServeCommit(x)
    PROVE  Promise!Next \/ UNCHANGED Promise!vars
<1>1. /\ Delivery /\ x \in wire /\ queue' = queue
      /\ \E d : d.snapshot = x /\ decided' = decided \cup {d}
  BY DEF Inv, ServeCommit, Server!Decide, rows
<1>2. \A i : IsDecided(i)' <=> IsDecided(i) \/ i = x
  BY <1>1 DEF IsDecided, Decisions
<1>3. Accepted' = Accepted /\ DOMAIN Accepted = DOMAIN queue
  BY <1>1 DEF Accepted
<1>4. CASE x \notin DOMAIN queue \/ IsDecided(x)
  <2>1. Delivered' = Delivered
    BY <1>1, <1>2, <1>4 DEF Delivered
  <2>2. QED
    BY <1>3, <2>1 DEF Promise!vars, Accepted, Delivered
<1>5. CASE x \in DOMAIN queue /\ ~IsDecided(x)
  <2>1. Delivered' = Delivered \cup {x} /\ x \notin Delivered
    BY <1>1, <1>2, <1>5 DEF Delivered
  <2>2. ASSUME NEW j \in 1..(x - 1), Accepted[j].endpoint = Accepted[x].endpoint
        PROVE  j \in Delivered
    <3>1. j \in DOMAIN queue
      BY <1>1, <1>5, Rows
    <3>2. queue[j].endpoint = queue[x].endpoint
      BY <1>5, <2>2, <3>1 DEF Accepted
    <3>3. QED
      BY <1>1, <1>5, <3>1, <3>2 DEF Delivery, SentInOrder, Delivered
  <2>3. Promise!Deliver(x)
    BY <1>3, <1>5, <2>1, <2>2 DEF Promise!Deliver, Accepted, Delivered
  <2>4. QED
    BY <1>3, <1>5, <2>3 DEF Promise!Next, Accepted
<1>6. QED
  BY <1>4, <1>5

\* Every other step is none of the outbox's.
LEMMA OthersStutter ==
    ASSUME Inv, queue' = queue,
           \/ decided' = decided
           \/ \E x \in Foreign, e \in Endpoint : OtherCommits(x, e)
    PROVE  UNCHANGED Promise!vars
<1>1. \A i \in DOMAIN queue : IsDecided(i)' <=> IsDecided(i)
  <2>1. CASE decided' = decided
    BY <2>1 DEF IsDecided, Decisions
  <2>2. ASSUME NEW x \in Foreign, NEW e \in Endpoint, OtherCommits(x, e)
        PROVE  \A i \in DOMAIN queue : IsDecided(i)' <=> IsDecided(i)
    <3>1. \E d : d.snapshot = x /\ decided' = decided \cup {d}
      BY <2>2 DEF OtherCommits, Server!Decide
    <3>2. x \notin DOMAIN queue
      BY Rows, Names DEF Inv
    <3>3. QED
      BY <3>1, <3>2 DEF IsDecided, Decisions
  <2>3. QED
    BY <2>1, <2>2
<1>2. Accepted' = Accepted /\ Delivered' = Delivered
  BY <1>1 DEF Accepted, Delivered
<1>3. QED
  BY <1>2 DEF Promise!vars, Accepted, Delivered

\* A step of the system is a step of the outbox, or none.
LEMMA StepRefines == ASSUME Inv, Inv', [Next]_vars PROVE Promise!Next \/ UNCHANGED Promise!vars
<1>1. ASSUME NEW w \in Worker, Enqueue(w) PROVE Promise!Next
  BY <1>1, EnqueueAccepts
<1>2. ASSUME NEW x \in Snapshot, ServeCommit(x) PROVE Promise!Next \/ UNCHANGED Promise!vars
  BY <1>2, ServeDelivers
<1>3. CASE StartSession \/ FinishSession \/ Play \/ \E e \in Endpoint : ChangeServer(e)
  BY <1>3, OthersStutter DEF StartSession, FinishSession, Play, ChangeServer, rows, remote
<1>4. ASSUME NEW w \in Worker, CaptureStep(w), ~Enqueue(w) PROVE UNCHANGED Promise!vars
  BY <1>4, OthersStutter
  DEF CaptureStep, StartCapture, ClaimGeneration, FindNothing, Stage, FailCapture, rows, remote
<1>5. CASE DrainStep
  BY <1>5, OthersStutter
  DEF DrainStep, StartDrain, ClaimUpload, Send, Complete, FailUpload, EndDrain, rows, remote
<1>6. CASE \E x \in Foreign, e \in Endpoint : OtherCommits(x, e)
  BY <1>6, OthersStutter DEF OtherCommits, rows
<1>7. CASE ManualStep \/ Kill
  BY <1>7, OthersStutter
  DEF ManualStep, StartReplace, FinishReplace, FailReplace, Kill, rows, remote
<1>8. CASE UNCHANGED vars
  BY <1>8, OthersStutter DEF vars, rows, remote
<1>9. QED
  BY <1>1, <1>2, <1>3, <1>4, <1>5, <1>6, <1>7, <1>8 DEF Next

\* Through failures, kills and expired leases, every queued save is delivered to
\* its server once, and after the ones that were queued for it before.
THEOREM Refinement == Spec => ImplementsOutbox
<1>1. Init => Promise!Init
  <2> SUFFICES ASSUME Init PROVE Accepted = <<>> /\ Delivered = {}
    BY DEF Promise!Init, Accepted, Delivered
  <2>1. queue = <<>> /\ DOMAIN queue = {}
    BY DEF Init
  <2>2. QED
    BY <2>1 DEF Accepted, Delivered
<1>2. Inv /\ Inv' /\ [Next]_vars => [Promise!Next]_(Promise!vars)
  BY StepRefines
<1>3. QED
  BY <1>1, <1>2, Invariance, PTL DEF Spec, ImplementsOutbox, Promise!Spec
=============================================================================
