--------------------------- MODULE AtomicRelease ----------------------------
(***************************************************************************)
(* What a stand release promises, and nothing of how: the stand is left    *)
(* alone until the maintenance window opens, and the release ends with the *)
(* whole stand moved, with the whole stand as it was, or by asking for     *)
(* attention.                                                              *)
(***************************************************************************)
VARIABLES stand,    \* "old", "new", or "between" while members differ
          window,   \* has the maintenance window been reached?
          outcome   \* "open", "moved", "kept" or "attention"

vars == <<stand, window, outcome>>

Init == stand = "old" /\ window = FALSE /\ outcome = "open"

OpenWindow == ~window /\ outcome = "open" /\ window' = TRUE /\ UNCHANGED <<stand, outcome>>

Work == window /\ outcome = "open" /\ stand' \in {"old", "new", "between"} /\ UNCHANGED <<window, outcome>>

End ==
  /\ outcome = "open"
  /\ \/ stand = "new" /\ outcome' = "moved"
     \/ stand = "old" /\ outcome' = "kept"
     \/ window /\ outcome' = "attention"
  /\ UNCHANGED <<stand, window>>

Next == OpenWindow \/ Work \/ End
Spec == Init /\ [][Next]_vars
=============================================================================
