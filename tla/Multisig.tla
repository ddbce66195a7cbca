------------------------------ MODULE Multisig ------------------------------
(***************************************************************************)
(* The committee (multisig/src/main.mo): signers propose, approve and      *)
(* reject; the approval that meets the threshold runs the action.          *)
(*                                                                         *)
(* runIfApproved runs in the approver's message up to `await               *)
(* executeAction', which is a message of its own; its reply continues      *)
(* runIfApproved, which stores the outcome in the copy of the proposal it  *)
(* started from.  Between the three any other message may run.             *)
(*                                                                         *)
(* Of the actions only ManageSigners touches this canister.  Every other   *)
(* one asks other canisters and ends in a success or an error.             *)
(***************************************************************************)
EXTENDS Integers, FiniteSets

CONSTANTS
  Principal,    \* who may be a signer
  MaxProposals, \* bound: proposals made
  Changes,      \* ManageSigners arguments: [add, remove, threshold], 0: no new threshold
  Other,        \* any other action
  ExpirySecs,   \* expiry_secs of a proposal, or the configured default
  MaxNow,       \* bound: the clock stops here
  MaxLosses     \* bound: continuations that are lost

ASSUME PrincipalAssumption == IsFiniteSet(Principal) /\ Principal # {}
ASSUME ChangesAssumption ==
  Changes \subseteq [add : SUBSET Principal, remove : SUBSET Principal, threshold : Nat]
ASSUME OtherAssumption == Other \notin Changes
ASSUME ExpiryAssumption == ExpirySecs \subseteq Nat
ASSUME BoundsAssumption == MaxProposals \in Nat /\ MaxNow \in Nat /\ MaxLosses \in Nat

Id == 0..(MaxProposals - 1)
Action == Changes \cup {Other}

Final == {"executed", "failed", "rejected", "expired"}
Status == {"absent", "pending", "executing"} \cup Final

VARIABLES
  signers, threshold,  \* the committee; no signers: not configured yet
  nextId,              \* next_proposal_id
  status,              \* Id -> Status
  approvals,           \* Id -> who approved, signers or not any more
  terms,               \* Id -> [action, expires], fixed by propose
  calls,               \* suspended runIfApproved: [id, approvals, stage]
  runs,                \* Id -> how often its action ran (history)
  now, losses

vars == <<signers, threshold, nextId, status, approvals, terms, calls, runs, now, losses>>

Terms == [action : Action, expires : Nat]
Calls == [id : Id, approvals : SUBSET Principal, stage : {"sent", "ok", "err"}]

TypeOK ==
  /\ signers \subseteq Principal /\ threshold \in Nat
  /\ nextId \in Nat
  /\ status \in [Id -> Status]
  /\ approvals \in [Id -> SUBSET Principal]
  /\ terms \in [Id -> Terms]
  /\ calls \subseteq Calls
  /\ runs \in [Id -> Nat]
  /\ now \in Nat /\ losses \in Nat

Init ==
  /\ signers = {} /\ threshold = 1 /\ nextId = 0
  /\ status = [p \in Id |-> "absent"]
  /\ approvals = [p \in Id |-> {}]
  /\ terms = [p \in Id |-> [action |-> Other, expires |-> 0]]
  /\ calls = {}
  /\ runs = [p \in Id |-> 0]
  /\ now = 0 /\ losses = 0
-----------------------------------------------------------------------------
\* Mutant: the threshold may exceed the number of signers.
ValidLax(th, ss) == ss # {} /\ th >= 1

\* validateSigners; the signers are a set, so duplicates are left out.
Valid(th, ss) == ss # {} /\ th \in 1..Cardinality(ss)

Configure(ss, th) ==
  /\ signers = {}
  /\ Valid(th, ss)
  /\ signers' = ss /\ threshold' = th
  /\ UNCHANGED <<nextId, status, approvals, terms, calls, runs, now, losses>>

\* Mutant: the approvals of removed signers count.
QuorumOfAll(voters) == Cardinality(voters) >= threshold

\* Only the approvals of current signers count.
QuorumOf(voters) == Cardinality(voters \cap signers) >= threshold

\* Mutant: the proposal stays pending while its action runs.
RunStillPending(p, voters) ==
  /\ approvals' = [approvals EXCEPT ![p] = voters]
  /\ status' = [status EXCEPT ![p] = "pending"]
  /\ calls' = IF QuorumOf(voters) THEN calls \cup {[id |-> p, approvals |-> voters, stage |-> "sent"]} ELSE calls

\* runIfApproved up to its first await: stored as executing before the call is sent.
RunIfApproved(p, voters) ==
  /\ approvals' = [approvals EXCEPT ![p] = voters]
  /\ \/ /\ ~QuorumOf(voters)
        /\ status' = [status EXCEPT ![p] = "pending"]
        /\ UNCHANGED calls
     \/ /\ QuorumOf(voters)
        /\ status' = [status EXCEPT ![p] = "executing"]
        /\ calls' = calls \cup {[id |-> p, approvals |-> voters, stage |-> "sent"]}

Propose(c, action, secs) ==
  /\ c \in signers
  /\ nextId \in Id
  /\ nextId' = nextId + 1
  /\ terms' = [terms EXCEPT ![nextId] = [action |-> action, expires |-> now + secs]]
  /\ RunIfApproved(nextId, {c})
  /\ UNCHANGED <<signers, threshold, runs, now, losses>>

Approve(c, p) ==
  /\ c \in signers
  /\ status[p] = "pending"
  /\ \/ /\ now > terms[p].expires
        /\ status' = [status EXCEPT ![p] = "expired"]
        /\ UNCHANGED <<approvals, calls>>
     \/ /\ now <= terms[p].expires
        /\ c \notin approvals[p]
        /\ RunIfApproved(p, approvals[p] \cup {c})
  /\ UNCHANGED <<signers, threshold, nextId, terms, runs, now, losses>>

\* A rejection does not look at the expiry.
Reject(c, p) ==
  /\ c \in signers
  /\ status[p] = "pending"
  /\ status' = [status EXCEPT ![p] = "rejected"]
  /\ UNCHANGED <<signers, threshold, nextId, approvals, terms, calls, runs, now, losses>>
-----------------------------------------------------------------------------
(* executeAction *)

NewSigners(a) == (signers \cup a.add) \ a.remove
NewThreshold(a) == IF a.threshold = 0 THEN threshold ELSE a.threshold

Answered(c, stage) == (calls \ {c}) \cup {[c EXCEPT !.stage = stage]}

ManageSigners(c) ==
  /\ c \in calls /\ c.stage = "sent"
  /\ terms[c.id].action # Other
  /\ LET a == terms[c.id].action
         ok == Valid(NewThreshold(a), NewSigners(a))
     IN /\ signers' = IF ok THEN NewSigners(a) ELSE signers
        /\ threshold' = IF ok THEN NewThreshold(a) ELSE threshold
        /\ calls' = Answered(c, IF ok THEN "ok" ELSE "err")
  /\ runs' = [runs EXCEPT ![c.id] = @ + 1]
  /\ UNCHANGED <<nextId, status, approvals, terms, now, losses>>

CallOthers(c) ==
  /\ c \in calls /\ c.stage = "sent"
  /\ terms[c.id].action = Other
  /\ \E stage \in {"ok", "err"} : calls' = Answered(c, stage)
  /\ runs' = [runs EXCEPT ![c.id] = @ + 1]
  /\ UNCHANGED <<signers, threshold, nextId, status, approvals, terms, now, losses>>

\* runIfApproved goes on and stores its copy of the proposal with the outcome.
StoreOutcome(c) ==
  /\ c \in calls /\ c.stage # "sent"
  /\ status' = [status EXCEPT ![c.id] = IF c.stage = "ok" THEN "executed" ELSE "failed"]
  /\ approvals' = [approvals EXCEPT ![c.id] = c.approvals]
  /\ calls' = calls \ {c}
  /\ UNCHANGED <<signers, threshold, nextId, terms, runs, now, losses>>

\* The action traps (nothing catches it), or the canister is upgraded under it.
LoseCall(c) ==
  /\ c \in calls
  /\ losses < MaxLosses /\ losses' = losses + 1
  /\ calls' = calls \ {c}
  /\ UNCHANGED <<signers, threshold, nextId, status, approvals, terms, runs, now>>

Tick ==
  /\ now < MaxNow /\ now' = now + 1
  /\ UNCHANGED <<signers, threshold, nextId, status, approvals, terms, calls, runs, losses>>

SignerStep(c) ==
  \/ \E action \in Action, secs \in ExpirySecs : Propose(c, action, secs)
  \/ \E p \in Id : Approve(c, p) \/ Reject(c, p)
CallStep(c) == ManageSigners(c) \/ CallOthers(c) \/ StoreOutcome(c) \/ LoseCall(c)

Next ==
  \/ \E ss \in SUBSET Principal, th \in 1..Cardinality(Principal) : Configure(ss, th)
  \/ \E c \in Principal : SignerStep(c)
  \/ \E c \in calls : CallStep(c)
  \/ Tick

Spec == Init /\ [][Next]_vars
-----------------------------------------------------------------------------
(* Properties *)

\* However the signers change and however approvals interleave with a running
\* action, the committee can still meet its threshold: it is never locked out.
CommitteeCanDecide == signers # {} => threshold \in 1..Cardinality(signers)

\* "Nothing runs twice", and only what the committee let run does: an action ran
\* once if its proposal says it was executed or failed, and never if it is
\* pending, rejected or expired.
RunsMatchOutcome ==
  \A p \in Id : /\ runs[p] <= 1
                /\ status[p] \in {"executed", "failed"} => runs[p] = 1
                /\ status[p] \in {"absent", "pending", "rejected", "expired"} => runs[p] = 0

\* An action is sent only when as many current signers as the threshold asks
\* approved it, in time; a removed signer's approval no longer counts.
SentWithQuorum ==
  [][\A c \in calls' \ calls :
       c.stage = "sent" => /\ Cardinality(approvals'[c.id] \cap signers) >= threshold
                           /\ now <= terms'[c.id].expires]_vars

\* A decided proposal is never decided again, nor does a late outcome take back
\* an approval recorded meanwhile.
DecisionIsFinal ==
  [][\A p \in Id : /\ status[p] \in Final => status'[p] = status[p]
                   /\ approvals[p] \subseteq approvals'[p]]_vars
=============================================================================
