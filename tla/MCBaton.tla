------------------------------ MODULE MCBaton -------------------------------
(* Instances of BatonActions for TLC. *)
EXTENDS BatonActions, TLC

CONSTANTS c1, c2, c3

AnyOne   == [threshold |-> 1, eligible |-> {}, required |-> {}]
AnyTwo   == [threshold |-> 2, eligible |-> {}, required |-> {}]
OneOfTwo == [threshold |-> 1, eligible |-> {c1, c2}, required |-> {}]
WithC1   == [threshold |-> 1, eligible |-> {}, required |-> {c1}]

OnePolicy == {AnyOne}
ManyPolicies == {AnyOne, AnyTwo, OneOfTwo, WithC1}
StrictPolicies == {OneOfTwo}

ShortPlan == <<"PRE_FLIGHT", "STAGING", "MAINTENANCE", "RESTORING", "FINALIZING">>

Symmetry == Permutations(Executor) \cup Permutations(ActionId)
=============================================================================
