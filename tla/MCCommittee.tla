----------------------------- MODULE MCCommittee -----------------------------
(* Three principals, four changes of the committee, and the canisters its *)
(* actions are about.                                                     *)
EXTENDS Committee, TLC

CONSTANTS p1, p2, p3, t1, t2

\* Add a signer, remove one, and change the threshold with or without them.
SomeChanges ==
  {[add |-> {p3}, remove |-> {p1}, threshold |-> 0],
   [add |-> {}, remove |-> {p2}, threshold |-> 0],
   [add |-> {p1}, remove |-> {}, threshold |-> 2],
   [add |-> {}, remove |-> {}, threshold |-> 1]}

MCTargets == <<t1, t2>>
TwoRungs == <<1, 2>>

Symmetry == Permutations(Builds) \cup Permutations(Slots)
=============================================================================
