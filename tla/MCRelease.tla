----------------------------- MODULE MCRelease ------------------------------
(* A stand of two frontends and two backends for TLC. *)
EXTENDS StandRelease

CONSTANTS f1, f2, b1, b2

TwoFronts == <<f1, f2>>
TwoBacks == <<b1, b2>>
=============================================================================
