--------------------------- MODULE ApprovalPolicy ---------------------------
(***************************************************************************)
(* Who may approve a baton action, and when its votes are enough           *)
(* (baton/src/approval_policy.py).                                         *)
(*                                                                         *)
(* A commander is registered when its weight is positive; every registered *)
(* commander of the model holds submit_approval, so losing that capability *)
(* and being removed are the same thing here, as they are for the quorum.  *)
(* The weights of the voters are summed as a number of tokens: a voter c   *)
(* owns the tokens <<c, 1>> .. <<c, w[c]>>.                                *)
(***************************************************************************)
EXTENDS Naturals, FiniteSets

CONSTANTS Commander,    \* principals that may be registered as commanders
          MaxWeight     \* the largest weight a commander may be given

ASSUME CommanderAssumption == IsFiniteSet(Commander)
ASSUME MaxWeightAssumption == MaxWeight \in Nat \ {0}

\* A normalised policy; an empty eligible list means every commander.
Policy == [threshold : Nat \ {0},
           eligible  : SUBSET Commander,
           required  : SUBSET Commander]

\* What normalize_approval_policy lets through.
WellFormed(p) ==
  p.eligible # {} => /\ p.required \subseteq p.eligible
                     /\ p.threshold <= Cardinality(p.eligible)

\* weaker_policy_reason(p, base) is None.
AtLeastAsStrict(p, base) ==
  /\ p.threshold >= base.threshold
  /\ base.eligible # {} => p.eligible # {} /\ p.eligible \subseteq base.eligible
  /\ base.required \subseteq p.required

InEligible(c, p) == p.eligible # {} => c \in p.eligible

IsApprovalEligible(c, p, w) == w[c] > 0 /\ InEligible(c, p)

\* The voters whose weight counts now, and the tokens they bring.
Counted(votes, p) == {c \in votes : InEligible(c, p)}
Tokens(S, w) == {t \in S \X (1..MaxWeight) : t[2] <= w[t[1]]}
ApprovalWeight(votes, p, w) == Cardinality(Tokens(Counted(votes, p), w))

\* The required approvers are looked up in the record's list of approvals only:
\* one who was removed as a commander after voting still counts as required.
QuorumMet(votes, p, w) ==
  /\ ApprovalWeight(votes, p, w) >= p.threshold
  /\ p.required \subseteq votes
=============================================================================
