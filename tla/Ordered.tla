------------------------------- MODULE Ordered -------------------------------
(***************************************************************************)
(* A set of ids in the order of the ids: what a walk over the rows of an   *)
(* entity gives, and what the baton's actions are listed in.  (It is       *)
(* SetToSortSeq(S, <) of the community modules, in a form that the proof   *)
(* system can expand.)  And what a comprehension with a condition picks    *)
(* from a list, for the same reason not by SelectSeq.                      *)
(***************************************************************************)
EXTENDS Naturals, FiniteSets, SequencesExt

\* The i-th is the one with i - 1 below it.
Ascending(S) == [i \in 1..Cardinality(S) |-> CHOOSE x \in S : Cardinality({y \in S : y < x}) = i - 1]

\* The elements of s that are in S, in the order of s.
Having(s, S) == FlattenSeq([i \in 1..Len(s) |-> IF s[i] \in S THEN <<s[i]>> ELSE <<>>])
=============================================================================
