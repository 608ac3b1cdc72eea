-------------------------- MODULE HeadRegisterProofs --------------------------
(***************************************************************************)
(* The history of a save is one chain that ends in its HEAD, for any       *)
(* number of saves and snapshots.                                          *)
(***************************************************************************)
EXTENDS HeadRegister, TLAPS

DecidedOnce == \A d, e \in decided : d.snapshot = e.snapshot => d = e

\* What an advance was based on had been decided before.  Without this a
\* snapshot could still be decided that an advance already names as its base.
BasesDecided ==
    \A d \in decided : d.base = d.seen /\ d.base # None =>
        \E e \in decided : e.snapshot = d.base

Inv == TypeOK /\ DecidedOnce /\ BasesDecided /\ NoForkedHistory /\ HeadEndsHistory

\* No snapshot has been decided when there is nothing: the chain is empty.
LEMMA InitInv == Init => Inv
  BY DEF Init, Inv, TypeOK, DecidedOnce, BasesDecided, NoForkedHistory, HeadEndsHistory,
         Advances

\* A decision adds one advance of one save, or none at all.
LEMMA DecideInv ==
    ASSUME None \notin Snapshot, Inv,
           NEW x \in Snapshot, NEW s \in Save, NEW b \in Snapshot \cup {None},
           Decide(x, s, b)
    PROVE  Inv'
<1> DEFINE new == [snapshot |-> x, save |-> s, base |-> b, seen |-> head[s]]
<1> USE DEF Inv
<1>1. /\ new \in Decision
      /\ decided' = decided \cup {new}
      /\ \A d \in decided : d.snapshot # x
  BY DEF Decide, TypeOK, Decision
<1>2. \A d \in decided : /\ d.snapshot \in Snapshot
                         /\ d.base \in Snapshot \cup {None}
                         /\ d.seen \in Snapshot \cup {None}
  BY DEF TypeOK, Decision
<1>3. TypeOK'
  BY <1>1 DEF Decide, TypeOK
<1>4. DecidedOnce'
  BY <1>1 DEF DecidedOnce
<1>5. head[s] # None => \E e \in decided : e.snapshot = head[s]
  BY DEF HeadEndsHistory, Advances
<1>6. BasesDecided'
  BY <1>1, <1>5 DEF BasesDecided
<1>7. CASE b = head[s]
  <2>1. Advances(s)' = Advances(s) \cup {new}
    BY <1>1, <1>7 DEF Advances
  <2>2. \A t \in Save \ {s} : Advances(t)' = Advances(t)
    BY <1>1 DEF Advances
  <2>3. head' = [head EXCEPT ![s] = x] /\ head \in [Save -> Snapshot \cup {None}]
    BY <1>7 DEF Decide, TypeOK
  <2>4. NoForkedHistory'
    <3>1. \A d, e \in Advances(s)' : d.base = e.base => d = e
      BY <2>1, <1>7 DEF NoForkedHistory, HeadEndsHistory
    <3> QED
      BY <3>1, <2>2 DEF NoForkedHistory
  <2>5. \A d \in Advances(s)' : d.base # x
    <3>1. \A d \in Advances(s) : d.base # x
      BY <1>1 DEF BasesDecided, Advances
    <3>2. new.base # x
      BY <1>1, <1>5, <1>7
    <3> QED
      BY <3>1, <3>2, <2>1
  <2>6. HeadEndsHistory'
    <3>1. \A t \in Save \ {s} : head'[t] = head[t]
      BY <2>3
    <3>2. head'[s] = x
      BY <2>3
    <3>3. \E d \in Advances(s)' : d.snapshot = head'[s]
      <4>1. new \in Advances(s)' /\ new.snapshot = x
        BY <2>1
      <4> QED
        BY <4>1, <3>2
    <3> QED
      BY <2>2, <2>5, <3>1, <3>2, <3>3 DEF HeadEndsHistory
  <2> QED
    BY <1>3, <1>4, <1>6, <2>4, <2>6
<1>8. CASE b # head[s]
  <2>1. head' = head
    BY <1>8 DEF Decide
  <2>2. \A t \in Save : Advances(t)' = Advances(t)
    BY <1>1, <1>8 DEF Advances
  <2>3. NoForkedHistory' /\ HeadEndsHistory'
    BY <2>1, <2>2 DEF NoForkedHistory, HeadEndsHistory
  <2> QED
    BY <1>3, <1>4, <1>6, <2>3
<1> QED
  BY <1>7, <1>8

\* The history of every save is one chain, and HEAD is its end.
THEOREM OneHistory ==
    ASSUME None \notin Snapshot
    PROVE  Spec => [](NoForkedHistory /\ HeadEndsHistory)
<1>1. Init => Inv
  BY InitInv
<1>2. Inv /\ [Next]_vars => Inv'
  <2> SUFFICES ASSUME Inv, [Next]_vars
               PROVE  Inv'
    OBVIOUS
  <2>1. CASE Next
    BY <2>1, DecideInv DEF Next
  <2>2. CASE UNCHANGED vars
    BY <2>2 DEF vars, Inv, TypeOK, DecidedOnce, BasesDecided, NoForkedHistory,
                HeadEndsHistory, Advances
  <2> QED
    BY <2>1, <2>2
<1>3. Inv => NoForkedHistory /\ HeadEndsHistory
  BY DEF Inv
<1> QED
  BY <1>1, <1>2, <1>3, PTL DEF Spec
=============================================================================
