--------------------------- MODULE MCStandBuilds ----------------------------
(* Two stands: a sheet's, with a canister it may grow by, and one people create. *)
EXTENDS StandBuilds

\* Three template rows, under the stands' first names (1..3) and their next ones (4..6).
MCRowOf == [c \in Canisters |-> ((c - 1) % 3) + 1]
MCNameOf == [c \in Canisters |-> (c - 1) \div 3]
MCStandOf == [c \in Canisters |-> IF MCRowOf[c] = 3 THEN 2 ELSE 1]
MCFiles == [c \in Canisters |-> IF MCRowOf[c] = 1 THEN 2 ELSE 0]
MCJobs == {<<"stand", s, n>> : s \in Stands, n \in 0..MaxChanges} \cup {UpJob}
=============================================================================
