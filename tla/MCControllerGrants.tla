------------------------- MODULE MCControllerGrants -------------------------
(* One or two canisters. *)
EXTENDS ControllerGrants

CONSTANTS c1, c2

MCCanister == <<c1>>
MCCanisters == <<c1, c2>>
=============================================================================
