---------------------------- MODULE HeadRegister ----------------------------
(***************************************************************************)
(* What the server promises about the HEAD of a save: snapshots are        *)
(* decided one at a time, each once and for ever, against the HEAD of that *)
(* moment.  One built on it becomes the HEAD; any other is kept as a       *)
(* conflict and leaves it alone.  SnapshotCommit implements this module.   *)
(***************************************************************************)
CONSTANTS Save, Snapshot, None

\* A decision, with the HEAD it was taken against.
Decision == [snapshot : Snapshot, save : Save, base : Snapshot \cup {None},
             seen : Snapshot \cup {None}]

VARIABLES head, decided

vars == <<head, decided>>

TypeOK == /\ head \in [Save -> Snapshot \cup {None}]
          /\ decided \subseteq Decision

Init == /\ head = [s \in Save |-> None]
        /\ decided = {}

Decide(x, s, b) ==
    /\ \A d \in decided : d.snapshot # x
    /\ decided' = decided \cup {[snapshot |-> x, save |-> s, base |-> b, seen |-> head[s]]}
    /\ head' = IF b = head[s] THEN [head EXCEPT ![s] = x] ELSE head

Next == \E x \in Snapshot, s \in Save, b \in Snapshot \cup {None} : Decide(x, s, b)

Spec == Init /\ [][Next]_vars

\* The decisions that moved the HEAD of s.
Advances(s) == {d \in decided : d.save = s /\ d.base = d.seen}

\* Two writers that start from the same HEAD never both move it: the history
\* of a save is one chain, and the second writer's snapshot is a conflict.
NoForkedHistory ==
    \A s \in Save : \A d, e \in Advances(s) : d.base = e.base => d = e

\* The HEAD is the end of that chain: it was decided as an advance of this
\* save, and nothing has advanced from it.
HeadEndsHistory ==
    \A s \in Save :
        /\ head[s] # None => \E d \in Advances(s) : d.snapshot = head[s]
        /\ \A d \in Advances(s) : d.base # head[s]
=============================================================================
