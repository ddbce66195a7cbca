----------------------------- MODULE Committee ------------------------------
(***************************************************************************)
(* The committee canister: who lets an action run (Multisig) and what the  *)
(* action then does to other canisters (CommitteeCalls).  What an action   *)
(* does depends on its success for the proposal's outcome alone, and that  *)
(* it may succeed or fail is all Multisig says of it: a behaviour is about *)
(* one of the two, and the other stands still.                             *)
(***************************************************************************)
EXTENDS Multisig, CommitteeCalls

VARIABLE about  \* what the behaviour is about

canisterVars == <<vars, committeeVars, about>>

\* The canisters do not matter to proposals: one way for them to begin is enough.
CanisterInit ==
  /\ Init /\ CommitteeInit /\ about \in {"proposals", "calls"}
  /\ about = "proposals" => \A t \in Target : ic[t].code = held /\ \A f \in Floors : ic[t].floor <= f

CanisterNext ==
  /\ UNCHANGED about
  /\ \/ about = "proposals" /\ Next /\ UNCHANGED committeeVars
     \/ about = "calls" /\ CommitteeNext /\ UNCHANGED vars

CanisterSpec == CanisterInit /\ [][CanisterNext]_canisterVars
=============================================================================
