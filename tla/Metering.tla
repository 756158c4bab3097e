------------------------------ MODULE Metering ------------------------------
(***************************************************************************)
(* What traffic accounting promises, with no counter, snapshot or restart  *)
(* in sight: the bytes on a user's bill only grow, and never exceed the    *)
(* bytes he sent.                                                          *)
(***************************************************************************)
EXTENDS Naturals

CONSTANT Meters             \* one per user and direction
VARIABLES sent, billed      \* bytes transferred; bytes in traffic_history

mvars == <<sent, billed>>

Init == /\ sent = [m \in Meters |-> 0]
        /\ billed = [m \in Meters |-> 0]

Send == \E m \in Meters :
          /\ sent' = [sent EXCEPT ![m] = @ + 1]
          /\ UNCHANGED billed

Bill == /\ billed' \in [Meters -> Nat]
        /\ \A m \in Meters : billed[m] <= billed'[m] /\ billed'[m] <= sent[m]
        /\ UNCHANGED sent

Spec == Init /\ [][Send \/ Bill]_mvars
=============================================================================
