------------------------------- MODULE Outbox -------------------------------
(***************************************************************************)
(* What a device's durable upload queue promises: every save it accepts is *)
(* kept, and the saves accepted for one server reach it each once, in the  *)
(* order in which they were accepted.  UploadQueue implements this module. *)
(***************************************************************************)
EXTENDS Naturals, Sequences

CONSTANTS Endpoint, Content

VARIABLES accepted, delivered

vars == <<accepted, delivered>>

TypeOK == /\ accepted \in Seq([endpoint : Endpoint, content : Content])
          /\ delivered \subseteq DOMAIN accepted

Init == accepted = <<>> /\ delivered = {}

Accept(e, c) ==
    /\ accepted' = Append(accepted, [endpoint |-> e, content |-> c])
    /\ UNCHANGED delivered

Deliver(i) ==
    /\ i \in DOMAIN accepted \ delivered
    /\ \A j \in 1..(i - 1) : accepted[j].endpoint = accepted[i].endpoint => j \in delivered
    /\ delivered' = delivered \cup {i}
    /\ UNCHANGED accepted

Next == \/ \E e \in Endpoint, c \in Content : Accept(e, c)
        \/ \E i \in DOMAIN accepted : Deliver(i)

Spec == Init /\ [][Next]_vars
=============================================================================
