---------------------------- MODULE AtomicReplace ----------------------------
(***************************************************************************)
(* What a player is promised about a native save folder: its logical       *)
(* content is always one whole tree; only a game session and a restore     *)
(* that was asked for change it; a restore replaces it in one step and     *)
(* never under a running game; and a power loss may undo the last restore, *)
(* until that is on disk, but leaves nothing in between.  There are no     *)
(* journals, stages, backups or recovery here: RestoreTxn implements this. *)
(***************************************************************************)
CONSTANT Content \* the trees a folder can hold, an absent one included

VARIABLES
    save,   \* the tree the next game session will read
    prev,   \* the tree a power loss may bring back: save once it is settled
    asked,  \* the contents of the restores that are under way
    playing \* whether a game session is open

vars == <<save, prev, asked, playing>>

TypeOK == /\ save \in Content
          /\ prev \in Content
          /\ asked \subseteq Content
          /\ playing \in BOOLEAN

Init == /\ save \in Content
        /\ prev = save
        /\ asked = {}
        /\ playing = FALSE

\* Restores are asked for, and given up or acknowledged.
Ask == /\ asked' \in SUBSET Content
       /\ UNCHANGED <<save, prev, playing>>

\* A session starts on a settled tree, or ends.
Session == /\ prev = save
           /\ playing' = ~playing
           /\ UNCHANGED <<save, prev, asked>>

Play(c) == /\ playing
           /\ prev = save
           /\ save' = c
           /\ prev' = c
           /\ UNCHANGED <<asked, playing>>

\* A restore takes effect: all of it, and only what was asked for.
Replace(c) == /\ ~playing
              /\ c \in asked
              /\ prev = save
              /\ save' = c
              /\ prev' = save
              /\ UNCHANGED <<asked, playing>>

\* The replacement is on disk.
Settle == /\ prev' = save
          /\ UNCHANGED <<save, asked, playing>>

PowerCut == /\ save' \in {save, prev}
            /\ prev' = save'
            /\ asked' = {}
            /\ playing' = FALSE

Next == \/ Ask
        \/ Session
        \/ \E c \in Content : Play(c) \/ Replace(c)
        \/ Settle
        \/ PowerCut

Spec == Init /\ [][Next]_vars
=============================================================================
