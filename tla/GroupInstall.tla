---------------------------- MODULE GroupInstall ----------------------------
(***************************************************************************)
(* What the installation of a group of ExtData components promises: the    *)
(* group is one value.  A replacement is asked for over the group as it    *)
(* is; from then on it may take effect, and may be undone, only as a whole *)
(* and only from the very group it was asked for or led to.                *)
(***************************************************************************)
CONSTANTS Txn,     \* identities of replacements
          Group,   \* values of the whole group
          NoPlan   \* a replacement that nobody has asked for yet

VARIABLES group, asked

vars == <<group, asked>>

Init == group \in Group /\ asked = [t \in Txn |-> NoPlan]

Ask(t, g) ==
    /\ asked[t] = NoPlan
    /\ asked' = [asked EXCEPT ![t] = [before |-> group, after |-> g]]
    /\ UNCHANGED group

Install(t) ==
    /\ asked[t] # NoPlan
    /\ group = asked[t].before
    /\ group' = asked[t].after
    /\ UNCHANGED asked

Undo(t) ==
    /\ asked[t] # NoPlan
    /\ group = asked[t].after
    /\ group' = asked[t].before
    /\ UNCHANGED asked

Next == \E t \in Txn : Install(t) \/ Undo(t) \/ \E g \in Group : Ask(t, g)

Spec == Init /\ [][Next]_vars
=============================================================================
