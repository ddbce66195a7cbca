---------------------------- MODULE MCBatonPhases ----------------------------
(* Two canisters, a module of two pieces, a bundle of two files. *)
EXTENDS BatonPhases

CONSTANTS c1, c2, f1, f2

MCCanisters == <<c1, c2>>
MCFiles == <<f1, f2>>
=============================================================================
