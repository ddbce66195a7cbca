---------------------------- MODULE BatonProofs -----------------------------
(***************************************************************************)
(* Theorems about BatonActions: for every kind of action, types, the claim *)
(* that keeps executors apart, and what approval guarantees, with the      *)
(* lemma about policies that it rests on; then, for the kinds that leave   *)
(* APPROVED before their first await, the order in which actions move on.  *)
(***************************************************************************)
EXTENDS BatonActions, FiniteSetTheorems, TLAPS
-----------------------------------------------------------------------------
(* The policy *)

\* The tokens of finitely many voters are finitely many.
LEMMA TokensFinite ==
  ASSUME NEW S \in SUBSET Commander, NEW w
  PROVE  IsFiniteSet(Tokens(S, w)) /\ Cardinality(Tokens(S, w)) \in Nat
<1>1. IsFiniteSet(S) BY CommanderAssumption, FS_Subset
<1>2. IsFiniteSet(1..MaxWeight) BY MaxWeightAssumption, FS_Interval
<1>3. IsFiniteSet(S \X (1..MaxWeight)) BY <1>1, <1>2, FS_Product
<1>4. Tokens(S, w) \subseteq S \X (1..MaxWeight) BY DEF Tokens
<1> QED BY <1>3, <1>4, FS_Subset, FS_CardinalityType

\* Weight counts no less when more voters are counted.
LEMMA WeightMonotone ==
  ASSUME NEW S \in SUBSET Commander, NEW R \in SUBSET S, NEW w
  PROVE  Cardinality(Tokens(R, w)) <= Cardinality(Tokens(S, w))
<1>1. Tokens(R, w) \subseteq Tokens(S, w) BY DEF Tokens
<1> QED BY <1>1, TokensFinite, FS_Subset

\* Votes that meet a policy at least as strict as the base meet the base: the
\* check weaker_policy_reason makes is enough, whatever the weights are.
THEOREM StricterIsEnough ==
  ASSUME NEW p \in Policy, NEW base \in Policy, NEW voters \in SUBSET Commander, NEW w,
         AtLeastAsStrict(p, base), QuorumMet(voters, p, w)
  PROVE  QuorumMet(voters, base, w)
<1>1. Counted(voters, p) \subseteq Counted(voters, base)
  BY DEF Counted, InEligible, AtLeastAsStrict, Policy
<1>2. Counted(voters, base) \in SUBSET Commander BY DEF Counted
<1>3. ApprovalWeight(voters, p, w) <= ApprovalWeight(voters, base, w)
  BY <1>1, <1>2, WeightMonotone DEF ApprovalWeight
<1>4. ApprovalWeight(voters, p, w) \in Nat /\ ApprovalWeight(voters, base, w) \in Nat
  BY <1>1, <1>2, TokensFinite DEF ApprovalWeight
<1>5. p.threshold \in Nat /\ base.threshold \in Nat /\ p.threshold >= base.threshold
  BY DEF AtLeastAsStrict, Policy
<1> QED BY <1>3, <1>4, <1>5 DEF QuorumMet, AtLeastAsStrict
-----------------------------------------------------------------------------
(* Types *)

\* Sweeping and expiring keep every status a status.
LEMMA SweptType ==
  ASSUME TypeOK
  PROVE  /\ Swept \in [ActionId -> Status]
         /\ \A a \in ActionId : ExpireIfStale(status, a) \in [ActionId -> Status]
         /\ \A a \in ActionId : ExpireIfStale(Swept, a) \in [ActionId -> Status]
BY DEF TypeOK, Swept, ExpireIfStale, Status, Terminal

\* Filing stores a well-typed action.
LEMMA FileType ==
  ASSUME TypeOK, NEW a \in ActionId, NEW kind \in AllKinds, NEW override \in Overrides \cup {None},
         File(a, kind, override)
  PROVE  /\ status' \in [ActionId -> Status]
         /\ filing' \in [ActionId -> Filing]
         /\ wake' \in [ActionId -> Nat]
         /\ UNCHANGED <<votes, path, progress>>
<1>1. Cardinality(Filed) + 1 \in Nat
  <2>1. IsFiniteSet(Filed) BY ActionIdAssumption, FS_Subset DEF Filed
  <2> QED BY <2>1, FS_CardinalityType
<1>2. [kind |-> kind, at |-> now, seq |-> Cardinality(Filed) + 1, override |-> override] \in Filing
  BY <1>1 DEF Filing, TypeOK
<1>3. status' \in [ActionId -> Status]
  BY SweptType DEF File, Status, NonTerminal
<1>4. wake' \in [ActionId -> Nat]
  BY TimesAssumption DEF File, TypeOK
<1> QED BY <1>2, <1>3, <1>4 DEF File, TypeOK

\* What a phase may save has the right type.
LEMMA OutcomeType ==
  ASSUME TypeOK, NEW run \in Run, NEW out \in PhaseOutcomes(run)
  PROVE  out[1] \in Status \ {"ABSENT", "PENDING", "APPROVED"} /\ out[2] \in Nat
<1> USE DEF Status, NonTerminal, Running, Terminal
<1>1. run.progress \in Nat /\ run.aid \in ActionId BY DEF Run
<1>2. ASSUME out \in UpgradeOutcomes(run.status, run.progress)
      PROVE  out[1] \in Status \ {"ABSENT", "PENDING", "APPROVED"} /\ out[2] \in Nat
  <2>1. ManagedNext(run.status) \subseteq Status \ {"ABSENT", "PENDING", "APPROVED"}
    BY DEF ManagedNext
  <2>2. CASE run.status # "UPGRADING"
    BY <1>1, <1>2, <2>1, <2>2 DEF UpgradeOutcomes
  <2>3. CASE run.status = "UPGRADING"
    BY <1>1, <1>2, <2>3 DEF UpgradeOutcomes
  <2> QED BY <2>2, <2>3
<1>3. ASSUME out \in ReleaseOutcomes(run.progress)
      PROVE  out[1] \in Status \ {"ABSENT", "PENDING", "APPROVED"} /\ out[2] \in Nat
  <2>1. run.progress + 1 < Len(ReleasePlan) => ReleasePlan[run.progress + 2] \in Running
    BY <1>1, PlanAssumption
  <2> QED BY <1>1, <1>3, <2>1 DEF ReleaseOutcomes
<1>4. ASSUME NEW R \in SUBSET Terminal, out \in {<<r, run.progress>> : r \in R}
      PROVE  out[1] \in Status \ {"ABSENT", "PENDING", "APPROVED"} /\ out[2] \in Nat
  BY <1>1, <1>4
<1>5. ASSUME out \in ProvisionOutcomes(run.progress)
      PROVE  out[1] \in Status \ {"ABSENT", "PENDING", "APPROVED"} /\ out[2] \in Nat
  BY <1>1, <1>5 DEF ProvisionOutcomes
<1>6. \/ out \in UpgradeOutcomes(run.status, run.progress)
      \/ out \in ReleaseOutcomes(run.progress)
      \/ out \in ProvisionOutcomes(run.progress)
      \/ \E R \in SUBSET Terminal : out \in {<<r, run.progress>> : r \in R}
  <2> DEFINE p == run.progress
  <2>1. out = <<"REVERTED_PARTIAL_FAILURE", p>> => out \in {<<r, p>> : r \in {"REVERTED_PARTIAL_FAILURE"}}
    OBVIOUS
  <2>2. /\ {"ABORTED", "ROLLED_BACK", "NEEDS_ATTENTION"} \in SUBSET Terminal
        /\ {"COMPLETE", "ROLLED_BACK", "NEEDS_ATTENTION"} \in SUBSET Terminal
        /\ {"COMPLETE", "NEEDS_ATTENTION"} \in SUBSET Terminal
        /\ {"REVERTED_PARTIAL_FAILURE"} \in SUBSET Terminal
    OBVIOUS
  <2>3. \/ out \in UpgradeOutcomes(run.status, p) \/ out \in ReleaseOutcomes(p) \/ out \in ProvisionOutcomes(p)
        \/ out = <<"REVERTED_PARTIAL_FAILURE", p>>
        \/ out \in {<<r, p>> : r \in {"ABORTED", "ROLLED_BACK", "NEEDS_ATTENTION"}}
        \/ out \in {<<r, p>> : r \in {"COMPLETE", "ROLLED_BACK", "NEEDS_ATTENTION"}}
        \/ out \in {<<r, p>> : r \in {"COMPLETE", "NEEDS_ATTENTION"}}
    BY Zenon DEF PhaseOutcomes
  <2> QED BY <2>1, <2>2, <2>3, Zenon
<1> QED BY <1>2, <1>3, <1>4, <1>5, <1>6

\* The shared part of every begin of a phase keeps the types.
LEMMA BeginPhaseType ==
  ASSUME TypeOK, NEW e \in Executor, NEW a \in ActionId, NEW st \in [ActionId -> Status],
         NEW t \in [aid : ActionId \cup {None}, due : Nat], NEW w \in [ActionId -> Nat],
         BeginPhase(e, a, st, t, w)
  PROVE  TypeOK'
<1>1. Entered(filing[a].kind, st[a]) \in Status
  BY DEF Entered, Status, NonTerminal, Running
<1>2. now + InflightTtl \in Nat /\ w[a] \in Nat /\ progress[a] \in Nat
  BY TimesAssumption DEF TypeOK
<1>3. "NEEDS_ATTENTION" \in Status BY DEF Status, Terminal
<1>4. status' \in [ActionId -> Status] BY <1>1, <1>3 DEF BeginPhase
<1>5. timer' \in [aid : ActionId \cup {None}, due : Nat] BY <1>2 DEF BeginPhase, Armed
<1>6. inflight' \in [ActionId -> Nat] BY <1>2 DEF BeginPhase, TypeOK
<1>7. exec' \in [Executor -> Run \cup {None}]
  <2>1. [aid |-> a, mode |-> "execute", progress |-> progress[a], status |-> Entered(filing[a].kind, st[a])] \in Run
    BY <1>1, <1>2 DEF Run
  <2> QED BY <2>1 DEF BeginPhase, TypeOK
<1> QED BY <1>4, <1>5, <1>6, <1>7 DEF BeginPhase, TypeOK, configVars, envVars

LEMMA InitType == Init => TypeOK
<1> SUFFICES ASSUME Init PROVE TypeOK
  OBVIOUS
<1>1. grantsOn \in BOOLEAN BY Zenon DEF Init
<1>2. Unfiled \in Filing BY DEF Unfiled, Filing, AllKinds
<1>3. filing \in [ActionId -> Filing] BY <1>2 DEF Init
<1>4. timer \in [aid : ActionId \cup {None}, due : Nat] BY DEF Init, NoTimer
<1> QED BY <1>1, <1>3, <1>4 DEF Init, TypeOK, Status

\* Every step keeps the types.
LEMMA NextType == TypeOK /\ [Next]_vars => TypeOK'
<1> SUFFICES ASSUME TypeOK, [Next]_vars PROVE TypeOK'
  OBVIOUS
<1> USE DEF recordVars, configVars, volatileVars, envVars
<1>1. ASSUME ProposeStep PROVE TypeOK'
  <2> PICK a \in ActionId, k \in Kinds, o \in Overrides \cup {None} : Propose(a, k, o) \/ BeginPropose(a, k, o)
    BY <1>1 DEF ProposeStep
  <2>1. k \in AllKinds BY KindsAssumption
  <2>2. CASE Propose(a, k, o)
    BY <2>1, <2>2, FileType DEF Propose, TypeOK
  <2>3. CASE BeginPropose(a, k, o)
    BY <2>1, <2>3, SweptType DEF BeginPropose, TypeOK, Draft
  <2> QED BY <2>2, <2>3
<1>2. ASSUME NEW d \in drafts, EndPropose(d) PROVE TypeOK'
  <2>1. d.aid \in ActionId /\ d.kind \in AllKinds /\ d.override \in Overrides \cup {None}
    BY DEF TypeOK, Draft
  <2>2. CASE File(d.aid, d.kind, d.override)
    BY <1>2, <2>1, <2>2, FileType DEF EndPropose, TypeOK
  <2>3. CASE status' = Swept /\ UNCHANGED <<filing, votes, path, progress, wake>>
    BY <1>2, <2>3, SweptType DEF EndPropose, TypeOK
  <2> QED BY <1>2, <2>2, <2>3 DEF EndPropose
<1>3. ASSUME Sweep PROVE TypeOK'
  BY <1>3, SweptType DEF Sweep, TypeOK
<1>4. ASSUME VoteStep PROVE TypeOK'
  <2> PICK a \in ActionId : \/ \E c \in Commander : SubmitApproval(c, a)
                            \/ SubmitMultisigAccelerant(a) \/ RejectAction(a) \/ ExpireOnTouch(a)
    BY <1>4 DEF VoteStep
  <2>1. {"APPROVED", "REJECTED", "EXPIRED"} \subseteq Status BY DEF Status, NonTerminal, Terminal
  <2>2. ASSUME NEW c \in Commander, SubmitApproval(c, a) PROVE TypeOK'
    BY <2>1, <2>2 DEF SubmitApproval, TypeOK, Armed
  <2>3. CASE SubmitMultisigAccelerant(a)
    BY <2>1, <2>3 DEF SubmitMultisigAccelerant, TypeOK, Armed
  <2>4. CASE RejectAction(a)
    BY <2>1, <2>4 DEF RejectAction, TypeOK
  <2>5. CASE ExpireOnTouch(a)
    BY <2>5, SweptType DEF ExpireOnTouch, TypeOK
  <2> QED BY <2>2, <2>3, <2>4, <2>5
<1>5. ASSUME CallStep PROVE TypeOK'
  <2> PICK e \in Executor, a \in ActionId :
         ExecuteAction(e, a) \/ SkipBakeAndComplete(e, a) \/ AbortAction(e, a)
    BY <1>5 DEF CallStep
  <2>1. CASE ExecuteAction(e, a)
    <3>1. BeginPhase(e, a, ExpireIfStale(Swept, a), timer, wake) BY <2>1 DEF ExecuteAction
    <3> QED BY <3>1, SweptType, BeginPhaseType DEF TypeOK
  <2>2. CASE SkipBakeAndComplete(e, a)
    <3>1. BeginPhase(e, a, status, timer, [wake EXCEPT ![a] = now]) BY <2>2 DEF SkipBakeAndComplete
    <3>2. [wake EXCEPT ![a] = now] \in [ActionId -> Nat] BY DEF TypeOK
    <3> QED BY <3>1, <3>2, BeginPhaseType DEF TypeOK
  <2>3. CASE AbortAction(e, a)
    <3>1. [aid |-> a, mode |-> "abort", status |-> status[a], progress |-> progress[a]] \in Run
      BY DEF TypeOK, Run
    <3> QED BY <2>3, <3>1, TimesAssumption DEF AbortAction, TypeOK
  <2> QED BY <2>1, <2>2, <2>3
<1>6. ASSUME NEW e \in Executor, TimerTick(e) PROVE TypeOK'
  <2>1. timer.aid \in ActionId BY <1>6 DEF TimerTick, TypeOK
  <2>2. BeginPhase(e, timer.aid, ExpireIfStale(status, timer.aid), NoTimer, wake) BY <1>6 DEF TimerTick
  <2>3. NoTimer \in [aid : ActionId \cup {None}, due : Nat] BY DEF NoTimer
  <2> QED BY <2>1, <2>2, <2>3, SweptType, BeginPhaseType DEF TypeOK
<1>7. ASSUME NEW e \in Executor, ReplyStep(e) PROVE TypeOK'
  <2>1. exec[e] \in Run
    BY <1>7 DEF ReplyStep, EndPhase, BeginRevert, PhaseRaises, LosePhase, TypeOK
  <2>2. exec[e].aid \in ActionId /\ exec[e].progress \in Nat BY <2>1 DEF Run
  <2>3. CASE EndPhase(e)
    <3> PICK out \in PhaseOutcomes(exec[e]) :
          /\ status' = [status EXCEPT ![exec[e].aid] = out[1]]
          /\ progress' = [progress EXCEPT ![exec[e].aid] = out[2]]
          /\ wake' = IF out[1] = "FINALIZING" THEN [wake EXCEPT ![exec[e].aid] = now + BakeWindow] ELSE wake
          /\ timer' = IF out[1] \in Terminal THEN timer
                      ELSE Armed(exec[e].aid, IF out[1] = "FINALIZING" /\ filing[exec[e].aid].kind = "upgrade"
                                              THEN wake'[exec[e].aid] ELSE now)
      BY <2>3 DEF EndPhase
    <3>1. out[1] \in Status /\ out[2] \in Nat BY <2>1, OutcomeType
    <3>2. wake' \in [ActionId -> Nat]
      <4>1. now + BakeWindow \in Nat /\ wake \in [ActionId -> Nat] BY TimesAssumption DEF TypeOK
      <4>2. CASE out[1] = "FINALIZING" BY <4>1, <4>2
      <4>3. CASE out[1] # "FINALIZING" BY <4>1, <4>3
      <4> QED BY <4>2, <4>3
    <3>3. timer' \in [aid : ActionId \cup {None}, due : Nat]
      BY <2>2, <3>2 DEF TypeOK, Armed
    <3> QED BY <2>2, <2>3, <3>1, <3>2, <3>3 DEF EndPhase, TypeOK
  <2>4. CASE BeginRevert(e)
    <3>1. exec' \in [Executor -> Run \cup {None}]
      BY <2>1, <2>4 DEF BeginRevert, TypeOK, Run
    <3> QED BY <2>2, <2>4, <3>1 DEF BeginRevert, TypeOK, Status, NonTerminal, Running
  <2>5. CASE PhaseRaises(e)
    BY <2>2, <2>5 DEF PhaseRaises, TypeOK, Status, Terminal
  <2>6. CASE LosePhase(e)
    BY <2>6 DEF LosePhase, TypeOK
  <2> QED BY <1>7, <2>3, <2>4, <2>5, <2>6 DEF ReplyStep
<1>8. ASSUME UpgradeBaton PROVE TypeOK'
  BY <1>8 DEF UpgradeBaton, TypeOK, NoTimer, Armed
<1>9. ASSUME Configure PROVE TypeOK'
  <2>1. weight' \in [Commander -> Weights]
    BY <1>9 DEF Configure, SetConfig, SetCommander, TypeOK
  <2>2. policy' \in [{"upgrade", "grant"} -> Policies]
    BY <1>9 DEF Configure, SetConfig, SetCommander, TypeOK
  <2>3. grantsOn' \in BOOLEAN
    BY <1>9, Zenon DEF Configure, SetConfig, SetCommander, TypeOK
  <2> QED BY <1>9, <2>1, <2>2, <2>3 DEF Configure, TypeOK
<1>10. ASSUME Tick PROVE TypeOK'
  BY <1>10 DEF Tick, TypeOK
<1>11. CASE UNCHANGED vars
  BY <1>11 DEF vars, TypeOK
<1> QED BY <1>1, <1>2, <1>3, <1>4, <1>5, <1>6, <1>7, <1>8, <1>9, <1>10, <1>11 DEF Next

\* Every variable of the baton keeps its type.
THEOREM TypeCorrect == Spec => []TypeOK
BY InitType, NextType, PTL DEF Spec

-----------------------------------------------------------------------------
(* The claim that keeps executors apart *)

\* A suspended executor's claim has not run out, and no other executor is
\* suspended in the same action.
Claimed ==
  /\ \A e \in Executor : Busy(e) => inflight[exec[e].aid] > now
  /\ OneExecutor

\* A begin claims an action nobody holds.
LEMMA BeginPhaseClaims ==
  ASSUME TypeOK, Claimed, NEW e \in Executor, NEW a \in ActionId, NEW st, NEW t, NEW w,
         BeginPhase(e, a, st, t, w)
  PROVE  Claimed'
<1> USE DEF Claimed, OneExecutor, Busy
<1>1. now' = now BY DEF BeginPhase, envVars
<1>2. CASE UNCHANGED <<inflight, exec>> BY <1>1, <1>2
<1>3. CASE inflight[a] <= now /\ inflight' = [inflight EXCEPT ![a] = 0] /\ UNCHANGED exec
  <2>1. \A f \in Executor : exec[f] # None => exec[f] \in Run /\ exec[f].aid \in ActionId /\ exec[f].aid # a
    BY <1>3 DEF TypeOK, Run
  <2> QED BY <1>1, <1>3, <2>1 DEF TypeOK
<1>4. CASE /\ inflight[a] <= now /\ exec[e] = None
           /\ inflight' = [inflight EXCEPT ![a] = now + InflightTtl]
           /\ \E r : r.aid = a /\ exec' = [exec EXCEPT ![e] = r]
  <2>1. \A f \in Executor : exec[f] # None => exec[f] \in Run /\ exec[f].aid \in ActionId /\ exec[f].aid # a
    BY <1>4 DEF TypeOK, Run
  <2>2. now + InflightTtl > now /\ inflight'[a] = now + InflightTtl
    BY <1>4, TimesAssumption DEF TypeOK
  <2> QED BY <1>1, <1>4, <2>1, <2>2 DEF TypeOK
<1> QED BY <1>2, <1>3, <1>4 DEF BeginPhase

\* Unless a call may outlast the claim, the claims stay apart.
LEMMA NextClaimed ==
  ASSUME ~SlowCalls
  PROVE  TypeOK /\ Claimed /\ [Next]_vars => Claimed'
<1> SUFFICES ASSUME TypeOK, Claimed, [Next]_vars PROVE Claimed'
  OBVIOUS
<1> USE DEF Claimed, OneExecutor, Busy, volatileVars, envVars, recordVars
<1>1. ASSUME UNCHANGED <<inflight, exec, now>> PROVE Claimed'
  BY <1>1
<1>2. CASE ProposeStep \/ (\E d \in drafts : EndPropose(d)) \/ Sweep \/ VoteStep \/ Configure
  BY <1>1, <1>2 DEF ProposeStep, Propose, BeginPropose, EndPropose, Sweep, VoteStep, SubmitApproval,
                    SubmitMultisigAccelerant, RejectAction, ExpireOnTouch, Configure
<1>3. ASSUME NEW e \in Executor, TimerTick(e) PROVE Claimed'
  BY <1>3, BeginPhaseClaims DEF TimerTick, TypeOK
<1>4. ASSUME NEW e \in Executor, NEW a \in ActionId, ExecuteAction(e, a) \/ SkipBakeAndComplete(e, a)
      PROVE  Claimed'
  BY <1>4, BeginPhaseClaims DEF ExecuteAction, SkipBakeAndComplete
<1>5. ASSUME NEW e \in Executor, NEW a \in ActionId, AbortAction(e, a) PROVE Claimed'
  <2>1. \A f \in Executor : exec[f] # None => exec[f] \in Run /\ exec[f].aid \in ActionId /\ exec[f].aid # a
    BY <1>5 DEF AbortAction, TypeOK, Run
  <2>2. now + InflightTtl > now /\ inflight'[a] = now + InflightTtl
    BY <1>5, TimesAssumption DEF AbortAction, TypeOK
  <2> QED BY <1>5, <2>1, <2>2 DEF AbortAction, TypeOK
<1>6. ASSUME NEW e \in Executor, ReplyStep(e) PROVE Claimed'
  <2>1. exec[e] \in Run /\ exec[e] # None /\ exec[e].aid \in ActionId
    BY <1>6 DEF ReplyStep, EndPhase, BeginRevert, PhaseRaises, LosePhase, TypeOK, Run
  <2>2. now' = now
    BY <1>6 DEF ReplyStep, EndPhase, BeginRevert, PhaseRaises, LosePhase
  <2>3. \A f \in Executor \ {e} : exec[f] # None => exec[f] \in Run /\ exec[f].aid \in ActionId /\ exec[f].aid # exec[e].aid
    BY <2>1 DEF TypeOK, Run
  <2>4. CASE exec' = [exec EXCEPT ![e] = None] /\ inflight' \in {inflight, [inflight EXCEPT ![exec[e].aid] = 0]}
    BY <2>1, <2>2, <2>3, <2>4 DEF TypeOK
  <2>5. CASE BeginRevert(e)
    <3>1. exec' = [exec EXCEPT ![e].mode = "revert"] /\ inflight' = inflight
      BY <2>5 DEF BeginRevert
    <3>2. exec'[e] # None => exec'[e].aid = exec[e].aid
      BY <2>1, <3>1 DEF TypeOK, Run
    <3>3. \A f \in Executor \ {e} : exec'[f] = exec[f]
      BY <3>1 DEF TypeOK
    <3> QED BY <2>1, <2>2, <2>3, <3>1, <3>2, <3>3
  <2> QED BY <1>6, <2>4, <2>5 DEF ReplyStep, EndPhase, PhaseRaises, LosePhase
<1>7. CASE UpgradeBaton
  BY <1>7 DEF UpgradeBaton
<1>8. CASE Tick
  BY <1>8, TimesAssumption DEF Tick, TypeOK
<1>9. CASE UNCHANGED vars
  BY <1>1, <1>9 DEF vars
<1> QED BY <1>2, <1>3, <1>4, <1>5, <1>6, <1>7, <1>8, <1>9 DEF Next, CallStep

\* One executor at a time: timers, operators, aborts, retries and upgrades of
\* the baton included, as long as no phase outlasts INFLIGHT_TTL_NS.
THEOREM ClaimsKeepExecutorsApart ==
  ASSUME ~SlowCalls
  PROVE  Spec => []OneExecutor
<1>1. Init => Claimed BY DEF Init, Claimed, OneExecutor, Busy
<1>2. TypeOK /\ Claimed /\ [Next]_vars => Claimed' BY NextClaimed
<1>3. Claimed => OneExecutor BY DEF Claimed
<1> QED BY <1>1, <1>2, <1>3, TypeCorrect, PTL DEF Spec

-----------------------------------------------------------------------------
(* What approval guarantees *)

\* The approval path of an action, at every stage of its life.
Approved ==
  /\ \A a \in ActionId :
       /\ status[a] \in {"ABSENT", "PENDING"} => path[a] = "none"
       /\ status[a] \in NonTerminal \ {"PENDING"} => path[a] # "none"
  /\ GrantsAreVoted
  /\ \A e \in Executor : Busy(e) => path[exec[e].aid] # "none"

\* A sweep leaves an action as it was or EXPIRED.
LEMMA SweptOrSame ==
  ASSUME TypeOK, NEW a \in ActionId, NEW b \in ActionId
  PROVE  /\ Swept[b] \in {status[b], "EXPIRED"}
         /\ ExpireIfStale(status, a)[b] \in {status[b], "EXPIRED"}
         /\ ExpireIfStale(Swept, a)[b] \in {status[b], "EXPIRED"}
         /\ Stale(a) => ExpireIfStale(status, a)[a] = "EXPIRED" /\ ExpireIfStale(Swept, a)[a] = "EXPIRED"
<1>1. Swept[b] \in {status[b], "EXPIRED"} BY DEF Swept
<1>2. status \in [ActionId -> Status] /\ Swept \in [ActionId -> Status] BY SweptType DEF TypeOK
<1> QED BY <1>1, <1>2 DEF ExpireIfStale

\* A begin of a phase takes up an approved action that is not stale, or none.
LEMMA BeginPhaseApproved ==
  ASSUME TypeOK, Approved, NEW e \in Executor, NEW a \in ActionId, NEW st \in [ActionId -> Status], NEW t, NEW w,
         \A b \in ActionId : st[b] \in {status[b], "EXPIRED"},
         BeginPhase(e, a, st, t, w)
  PROVE  /\ Approved'
         /\ \A f \in Executor : Started(f) => exec'[f].aid = a /\ st[a] \in NonTerminal \ {"PENDING"}
                                            /\ path[a] # "none"
<1> USE DEF NonTerminal, Running, Terminal
<1>1. UNCHANGED <<path, filing>> BY DEF BeginPhase
<1>2. st[a] \in NonTerminal \ {"PENDING"} => st[a] = status[a] /\ path[a] # "none"
  BY DEF Approved
<1>3. CASE status' = st /\ UNCHANGED exec
  BY <1>1, <1>3 DEF Approved, GrantsAreVoted, Busy, Started
<1>4. CASE status' = [st EXCEPT ![a] = "NEEDS_ATTENTION"] /\ UNCHANGED exec
  BY <1>1, <1>4 DEF Approved, GrantsAreVoted, Busy, Started
<1>5. CASE /\ st[a] \in NonTerminal \ {"PENDING"}
           /\ status' = [st EXCEPT ![a] = Entered(filing[a].kind, st[a])]
           /\ \E r : r.aid = a /\ exec' = [exec EXCEPT ![e] = r]
  <2>1. Entered(filing[a].kind, st[a]) \notin {"ABSENT", "PENDING"} BY <1>5 DEF Entered
  <2>2. \A b \in ActionId \ {a} : status'[b] \in {status[b], "EXPIRED"} BY <1>5
  <2>3. status'[a] \notin {"ABSENT", "PENDING"} BY <1>5, <2>1
  <2>4. \A f \in Executor : exec'[f] = exec[f] \/ exec'[f].aid = a BY <1>5 DEF TypeOK
  <2> QED BY <1>1, <1>2, <1>5, <2>2, <2>3, <2>4 DEF Approved, GrantsAreVoted, Busy, Started
<1> QED BY <1>3, <1>4, <1>5 DEF BeginPhase

\* What one step does to the approval of actions.
StepApproves ==
  /\ Approved'
  /\ \A e \in Executor :
       Started(e) => /\ path[exec'[e].aid] # "none"
                     /\ exec'[e].mode = "execute" => ~Stale(exec'[e].aid)
  /\ \A a \in ActionId :
       path[a] = "none" /\ path'[a] = "governance" =>
         QuorumMet(votes'[a], policy[PolicyKey(filing[a].kind)], weight)

\* Every step approves as StepApproves says.
LEMMA NextApproves == TypeOK /\ Approved /\ [Next]_vars => StepApproves
<1> SUFFICES ASSUME TypeOK, Approved, [Next]_vars PROVE StepApproves
  OBVIOUS
<1> USE DEF recordVars, configVars, volatileVars, envVars
<1>0. \A e \in Executor : Busy(e) => exec[e].aid \in ActionId BY DEF Busy, TypeOK, Run
\* Steps that approve nothing and start nothing.
<1>1. ASSUME UNCHANGED path,
             \A e \in Executor : exec'[e] \in {None, exec[e]},
             \A a \in ActionId : filing'[a].kind = "grant" => path[a] # "accelerant",
             \A a \in ActionId : \/ (status'[a] \in {status[a]} \cup Terminal)
                                \/ (status'[a] \in NonTerminal \ {"PENDING"} /\ path[a] # "none")
                                \/ (status'[a] = "PENDING" /\ path[a] = "none")
      PROVE  StepApproves
  BY <1>1 DEF StepApproves, Approved, GrantsAreVoted, Busy, Started, NonTerminal, Running, Terminal
<1>2. ASSUME NEW a \in ActionId, NEW k, NEW o, status[a] = "ABSENT", File(a, k, o), UNCHANGED exec
      PROVE  StepApproves
  <2>1. path[a] = "none" /\ UNCHANGED path BY <1>2 DEF Approved, File
  <2>2. \A b \in ActionId : status'[b] \in {status[b], "EXPIRED"} \/ (b = a /\ status'[b] = "PENDING")
    BY <1>2, SweptOrSame, SweptType DEF File
  <2>3. \A b \in ActionId : filing'[b].kind = "grant" => path[b] # "accelerant"
    BY <1>2, <2>1 DEF File, Approved, GrantsAreVoted, TypeOK
  <2> QED BY <1>1, <1>2, <2>1, <2>2, <2>3 DEF Terminal
<1>3. ASSUME status' = Swept, UNCHANGED <<path, filing, exec>> PROVE StepApproves
  BY <1>1, <1>3, SweptOrSame DEF Terminal, Approved, GrantsAreVoted
<1>4. CASE ProposeStep
  <2> PICK a \in ActionId, k \in Kinds, o \in Overrides \cup {None} : Propose(a, k, o) \/ BeginPropose(a, k, o)
    BY <1>4 DEF ProposeStep
  <2>1. CASE Propose(a, k, o) BY <1>2, <2>1 DEF Propose
  <2>2. CASE BeginPropose(a, k, o) BY <1>3, <2>2 DEF BeginPropose
  <2> QED BY <2>1, <2>2
<1>5. ASSUME NEW d \in drafts, EndPropose(d) PROVE StepApproves
  <2>1. d.aid \in ActionId BY DEF TypeOK, Draft
  <2> QED BY <1>2, <1>3, <1>5, <2>1 DEF EndPropose
<1>6. CASE Sweep
  BY <1>3, <1>6 DEF Sweep
<1>7. ASSUME NEW c \in Commander, NEW a \in ActionId, SubmitApproval(c, a) PROVE StepApproves
  <2> DEFINE eff == Effective(filing[a].kind, filing[a].override)
             base == policy[PolicyKey(filing[a].kind)]
  <2>1. path'[a] = "governance" => QuorumMet(votes'[a], eff, weight)
    BY <1>7 DEF SubmitApproval, TypeOK, Approved
  <2>2. votes'[a] \in SUBSET Commander BY <1>7 DEF SubmitApproval, TypeOK
  <2>3. base \in Policy BY PoliciesAssumption DEF PolicyKey, TypeOK
  <2>4. filing[a].override # None => filing[a].override \in Policy
    BY PoliciesAssumption DEF TypeOK, Filing
  <2>5. QuorumMet(votes'[a], eff, weight) => QuorumMet(votes'[a], base, weight)
    <3>1. CASE filing[a].override = None BY <3>1 DEF Effective
    <3>2. CASE filing[a].override # None
      <4>1. eff \in Policy /\ AtLeastAsStrict(eff, base)
        BY <1>7, <2>4, <3>2 DEF SubmitApproval, PolicyHolds, Effective
      <4>2. QuorumMet(votes'[a], eff, weight) => QuorumMet(votes'[a], base, weight)
        BY <2>2, <2>3, <4>1, StricterIsEnough
      <4> QED BY <4>2
    <3> QED BY <3>1, <3>2
  <2>6. \A b \in ActionId \ {a} : path'[b] = path[b] /\ status'[b] = status[b]
    BY <1>7 DEF SubmitApproval, TypeOK
  <2>7. \/ status'[a] = "PENDING" /\ path'[a] = path[a]
        \/ status'[a] = "APPROVED" /\ path'[a] = "governance"
    BY <1>7 DEF SubmitApproval, TypeOK
  <2>8. UNCHANGED <<exec, filing>> BY <1>7 DEF SubmitApproval
  <2>9. Approved'
    BY <1>0, <1>7, <2>6, <2>7, <2>8
       DEF Approved, GrantsAreVoted, Busy, NonTerminal, Running, TypeOK, SubmitApproval
  <2>10. \A b \in ActionId : path[b] = "none" /\ path'[b] = "governance" =>
                              QuorumMet(votes'[b], policy[PolicyKey(filing[b].kind)], weight)
    BY <2>1, <2>5, <2>6
  <2> QED BY <2>8, <2>9, <2>10 DEF StepApproves, Started, Busy
<1>8. ASSUME NEW a \in ActionId, SubmitMultisigAccelerant(a) PROVE StepApproves
  <2>1. \A b \in ActionId \ {a} : path'[b] = path[b] /\ status'[b] = status[b]
    BY <1>8 DEF SubmitMultisigAccelerant, TypeOK
  <2>2. status'[a] = "APPROVED" /\ path'[a] = "accelerant" /\ filing[a].kind # "grant" /\ UNCHANGED <<exec, filing>>
    BY <1>8 DEF SubmitMultisigAccelerant, TypeOK
  <2>3. Approved'
    BY <1>0, <2>1, <2>2 DEF Approved, GrantsAreVoted, Busy, NonTerminal, Running
  <2> QED BY <2>1, <2>2, <2>3 DEF StepApproves, Started, Busy
<1>9. ASSUME NEW a \in ActionId, RejectAction(a) \/ ExpireOnTouch(a) PROVE StepApproves
  <2>1. \A b \in ActionId : status'[b] \in {status[b]} \cup Terminal
    BY <1>9, SweptOrSame DEF RejectAction, ExpireOnTouch, TypeOK, Terminal
  <2> QED BY <1>1, <1>9, <2>1 DEF RejectAction, ExpireOnTouch, Approved, GrantsAreVoted
<1>10. ASSUME NEW e \in Executor, NEW a \in ActionId, NEW st \in [ActionId -> Status], NEW t, NEW w,
              \A b \in ActionId : st[b] \in {status[b], "EXPIRED"},
              Stale(a) => st[a] = "EXPIRED",
              BeginPhase(e, a, st, t, w)
       PROVE  StepApproves
  <2>1. UNCHANGED path BY <1>10 DEF BeginPhase
  <2>2. "EXPIRED" \notin NonTerminal BY DEF NonTerminal, Running
  <2> QED BY <1>10, <2>1, <2>2, BeginPhaseApproved DEF StepApproves
<1>11. CASE CallStep
  <2> PICK e \in Executor, a \in ActionId :
         ExecuteAction(e, a) \/ SkipBakeAndComplete(e, a) \/ AbortAction(e, a)
    BY <1>11 DEF CallStep
  <2>1. CASE ExecuteAction(e, a)
    BY <1>10, <2>1, SweptOrSame, SweptType DEF ExecuteAction
  <2>2. CASE SkipBakeAndComplete(e, a)
    <3>1. ~Stale(a) BY <2>2 DEF SkipBakeAndComplete, Stale
    <3> QED BY <1>10, <2>2, <3>1 DEF SkipBakeAndComplete, TypeOK
  <2>3. CASE AbortAction(e, a)
    <3>1. path[a] # "none" /\ UNCHANGED <<status, filing, path>> BY <2>3 DEF AbortAction, Approved
    <3>2. \A f \in Executor : exec'[f] = exec[f] \/ (exec'[f].aid = a /\ exec'[f].mode = "abort")
      BY <2>3 DEF AbortAction, TypeOK
    <3> QED BY <3>1, <3>2 DEF StepApproves, Approved, GrantsAreVoted, Busy, Started
  <2> QED BY <2>1, <2>2, <2>3
<1>12. ASSUME NEW e \in Executor, TimerTick(e) PROVE StepApproves
  <2>1. timer.aid \in ActionId BY <1>12 DEF TimerTick, TypeOK
  <2> QED BY <1>10, <1>12, <2>1, SweptOrSame, SweptType DEF TimerTick
<1>13. ASSUME NEW e \in Executor, ReplyStep(e) PROVE StepApproves
  <2>1. exec[e] \in Run /\ Busy(e) /\ UNCHANGED <<path, filing>>
    BY <1>13 DEF ReplyStep, EndPhase, BeginRevert, PhaseRaises, LosePhase, TypeOK, Busy
  <2>2. exec[e].aid \in ActionId /\ path[exec[e].aid] # "none" BY <2>1 DEF Run, Approved
  <2>3. \A a \in ActionId : filing'[a].kind = "grant" => path[a] # "accelerant"
    BY <2>1 DEF Approved, GrantsAreVoted
  <2>4. CASE EndPhase(e)
    <3>1. PICK out \in PhaseOutcomes(exec[e]) : status' = [status EXCEPT ![exec[e].aid] = out[1]]
      BY <2>4 DEF EndPhase
    <3>2. out[1] \in Status \ {"ABSENT", "PENDING", "APPROVED"} BY <2>1, <3>1, OutcomeType
    <3>3. \A f \in Executor : exec'[f] \in {None, exec[f]} BY <2>4 DEF EndPhase, TypeOK
    <3>4. \A a \in ActionId : \/ (status'[a] \in {status[a]} \cup Terminal)
                             \/ (status'[a] \in NonTerminal \ {"PENDING"} /\ path[a] # "none")
      BY <2>2, <3>1, <3>2 DEF TypeOK, Status, NonTerminal
    <3> QED BY <1>1, <2>1, <2>3, <3>3, <3>4
  <2>5. CASE BeginRevert(e)
    <3>1. \A f \in Executor : exec'[f] = exec[f] \/ (f = e /\ exec'[f].aid = exec[f].aid)
      BY <2>1, <2>5 DEF BeginRevert, TypeOK, Run
    <3>2. \A a \in ActionId \ {exec[e].aid} : status'[a] = status[a] BY <2>5 DEF BeginRevert, TypeOK
    <3>3. status'[exec[e].aid] = "UPGRADING" BY <2>2, <2>5 DEF BeginRevert, TypeOK
    <3> QED BY <2>1, <2>2, <3>1, <3>2, <3>3 DEF StepApproves, Approved, GrantsAreVoted, Busy, Started
  <2>6. CASE PhaseRaises(e) \/ LosePhase(e)
    <3>1. \A f \in Executor : exec'[f] \in {None, exec[f]} BY <2>6 DEF PhaseRaises, LosePhase, TypeOK
    <3>2. \A a \in ActionId : status'[a] \in {status[a]} \cup Terminal
      BY <2>2, <2>6 DEF PhaseRaises, LosePhase, TypeOK, Terminal
    <3> QED BY <1>1, <2>1, <2>3, <3>1, <3>2
  <2> QED BY <1>13, <2>4, <2>5, <2>6 DEF ReplyStep
<1>14. CASE UpgradeBaton \/ Configure \/ Tick \/ UNCHANGED vars
  <2>1. UNCHANGED <<status, path, filing>> /\ \A e \in Executor : exec'[e] \in {None, exec[e]}
    BY <1>14 DEF UpgradeBaton, Configure, Tick, vars
  <2> QED BY <1>1, <2>1 DEF Approved, GrantsAreVoted
<1> QED BY <1>4, <1>5, <1>6, <1>7, <1>8, <1>9, <1>11, <1>12, <1>13, <1>14 DEF Next, VoteStep

\* At all times the approval paths are as they should be.
LEMMA ApprovedAlways == Spec => [](TypeOK /\ Approved)
<1>1. Init => Approved BY DEF Init, Approved, GrantsAreVoted, Busy, NonTerminal, Running
<1>2. TypeOK /\ Approved /\ [Next]_vars => Approved' BY NextApproves DEF StepApproves
<1> QED BY <1>1, <1>2, TypeCorrect, PTL DEF Spec

\* No controller grant is ever approved without its commanders' votes.
THEOREM GrantsNeedVotes == Spec => []GrantsAreVoted
<1>1. Approved => GrantsAreVoted BY DEF Approved
<1> QED BY <1>1, ApprovedAlways, PTL

\* Whatever overrides, weights and policies change under a proposal, the votes
\* that approve it meet the policy configured at that moment.
THEOREM ConfiguredPolicyHolds == Spec => VotesMeetConfiguredPolicy
<1>1. TypeOK /\ Approved /\ [Next]_vars =>
        [\A a \in ActionId : path[a] = "none" /\ path'[a] = "governance" =>
           QuorumMet(votes'[a], policy[PolicyKey(filing[a].kind)], weight)]_vars
  BY NextApproves DEF StepApproves
<1> QED BY <1>1, ApprovedAlways, PTL DEF Spec, VotesMeetConfiguredPolicy

\* Nothing is begun on an action nobody approved, or that has expired.
THEOREM OnlyApprovedStart == Spec => StartsApprovedAndFresh
<1>1. TypeOK /\ Approved /\ [Next]_vars =>
        [\A e \in Executor :
           Started(e) => /\ path[exec'[e].aid] # "none"
                         /\ exec'[e].mode = "execute" => ~Stale(exec'[e].aid)]_vars
  BY NextApproves DEF StepApproves
<1> QED BY <1>1, ApprovedAlways, PTL DEF Spec, StartsApprovedAndFresh
-----------------------------------------------------------------------------
(* Order. A release or a grant is left out: it may expire under its         *)
(* executor (see the run baton_expiry_race).                                *)

SettledKinds == {"upgrade", "provision", "restore"}

\* A suspended executor and the saved record are in step: the action is still
\* running, at the cursor the executor loaded.
InStep ==
  /\ \A a \in ActionId :
       /\ status[a] # "ABSENT" => filing[a].kind \in SettledKinds
       /\ filing[a].kind = "restore" => status[a] \in {"ABSENT", "PENDING", "APPROVED", "RESTORING"} \cup Terminal
  /\ \A d \in drafts : d.kind \in SettledKinds
  /\ \A e \in Executor :
       Busy(e) => /\ status[exec[e].aid] \in Running
                  /\ exec[e].mode # "abort"
                  /\ exec[e].progress = progress[exec[e].aid]
  /\ AtMostOneOpen

\* What one step does to actions that have ended, cursors and restores.
StepInOrder ==
  /\ InStep'
  /\ \A a \in ActionId : status[a] \in Terminal => status'[a] = status[a]
  /\ \A a \in ActionId : progress'[a] >= progress[a]
  /\ \A e \in Executor :
       Started(e) /\ filing[exec'[e].aid].kind = "restore" => status[exec'[e].aid] = "APPROVED"

LEMMA StatusesDisjoint ==
  /\ Terminal \cap NonTerminal = {} /\ Running \cap {"PENDING", "APPROVED"} = {}
  /\ "ABSENT" \notin Terminal \cup NonTerminal
  /\ "EXPIRED" \in Terminal /\ "RESTORING" \in Running
  /\ NonTerminal = {"PENDING", "APPROVED"} \cup Running
BY DEF Terminal, NonTerminal, Running

\* When no action is active a sweep leaves none open.
LEMMA SweptClosed ==
  ASSUME TypeOK, ~AnyActive, NEW b \in ActionId
  PROVE  Swept[b] \notin NonTerminal
BY StatusesDisjoint DEF Swept, AnyActive, IsActive, IsOpen

\* Only an action that waits for votes or for its first phase is swept or expires.
LEMMA SweptWaiting ==
  ASSUME TypeOK, NEW a \in ActionId, NEW b \in ActionId
  PROVE  /\ Swept[b] = status[b] \/ (status[b] \in {"PENDING", "APPROVED"} /\ Swept[b] = "EXPIRED")
         /\ \/ ExpireIfStale(status, a)[b] = status[b]
            \/ status[b] \in {"PENDING", "APPROVED"} /\ ExpireIfStale(status, a)[b] = "EXPIRED"
         /\ \/ ExpireIfStale(Swept, a)[b] = status[b]
            \/ status[b] \in {"PENDING", "APPROVED"} /\ ExpireIfStale(Swept, a)[b] = "EXPIRED"
<1>1. Swept[b] = status[b] \/ (status[b] \in {"PENDING", "APPROVED"} /\ Swept[b] = "EXPIRED")
  BY DEF Swept, Stale
<1>2. status \in [ActionId -> Status] /\ Swept \in [ActionId -> Status] BY SweptType DEF TypeOK
<1> QED BY <1>1, <1>2 DEF ExpireIfStale, Stale

\* A finished phase moves the cursor forward, and a finished restore has ended.
LEMMA OutcomeForward ==
  ASSUME TypeOK, NEW run \in Run, NEW out \in PhaseOutcomes(run), filing[run.aid].kind \in SettledKinds,
         run.mode # "abort"
  PROVE  /\ out[2] >= run.progress
         /\ filing[run.aid].kind = "restore" => out[1] \in Terminal
<1> DEFINE p == run.progress
<1>1. p \in Nat BY DEF Run
<1>2. CASE run.mode = "revert"
  BY <1>1, <1>2 DEF PhaseOutcomes, Terminal
<1>3. CASE run.mode # "revert" /\ filing[run.aid].kind = "upgrade"
  <2>1. out \in UpgradeOutcomes(run.status, p) BY <1>3 DEF PhaseOutcomes
  <2> QED BY <1>1, <1>3, <2>1 DEF UpgradeOutcomes
<1>4. CASE run.mode # "revert" /\ filing[run.aid].kind = "provision"
  <2>1. out \in ProvisionOutcomes(p) BY <1>4 DEF PhaseOutcomes
  <2> QED BY <1>1, <1>4, <2>1 DEF ProvisionOutcomes
<1>5. CASE run.mode # "revert" /\ filing[run.aid].kind = "restore"
  <2>1. out \in {<<r, p>> : r \in {"COMPLETE", "ROLLED_BACK", "NEEDS_ATTENTION"}} BY <1>5 DEF PhaseOutcomes
  <2> QED BY <1>1, <2>1 DEF Terminal
<1> QED BY <1>2, <1>3, <1>4, <1>5 DEF SettledKinds

\* Steps that begin nothing, and change only actions that are not running.
LEMMA QuietStep ==
  ASSUME TypeOK, InStep, UNCHANGED <<filing, progress>>,
         \A d \in drafts' : d.kind \in SettledKinds,
         \A e \in Executor : exec'[e] \in {None, exec[e]},
         \A a \in ActionId : \/ status'[a] = status[a]
                             \/ status[a] \in {"PENDING", "APPROVED"} /\ status'[a] \in Terminal
                             \/ status[a] = "PENDING" /\ status'[a] = "APPROVED"
  PROVE  StepInOrder
<1>1. \A e \in Executor : Busy(e) => exec[e].aid \in ActionId BY DEF Busy, TypeOK, Run
<1>2. \A a \in ActionId : status'[a] \in NonTerminal => status[a] \in NonTerminal
  BY StatusesDisjoint
<1>3. AtMostOneOpen' BY <1>2 DEF InStep, AtMostOneOpen, IsOpen
<1>4. \A e \in Executor : exec'[e] # None => Busy(e) /\ exec'[e] = exec[e] BY DEF Busy
<1>5. InStep' BY <1>1, <1>3, <1>4, StatusesDisjoint DEF InStep, Busy
<1>6. \A a \in ActionId : progress'[a] >= progress[a] BY DEF TypeOK
<1> QED BY <1>4, <1>5, <1>6, StatusesDisjoint DEF StepInOrder, Started

\* Filing happens when nothing is open but what the sweep expires.
LEMMA FileStep ==
  ASSUME TypeOK, InStep, NEW a \in ActionId, NEW k \in SettledKinds, NEW o, status[a] = "ABSENT", ~AnyActive,
         File(a, k, o), UNCHANGED exec, \A d \in drafts' : d.kind \in SettledKinds
  PROVE  StepInOrder
<1>1. status'[a] = "PENDING" /\ filing'[a].kind = k BY SweptType DEF File, TypeOK
<1>2. \A b \in ActionId \ {a} : status'[b] = Swept[b] /\ filing'[b] = filing[b] BY SweptType DEF File, TypeOK
<1>3. \A b \in ActionId \ {a} : \/ status'[b] = status[b]
                                \/ status[b] \in {"PENDING", "APPROVED"} /\ status'[b] = "EXPIRED"
  BY <1>2, SweptWaiting
<1>4. \A b \in ActionId \ {a} : status'[b] \notin NonTerminal BY <1>2, SweptClosed
<1>5. AtMostOneOpen' BY <1>4 DEF AtMostOneOpen, IsOpen
<1>6. UNCHANGED progress BY DEF File
<1>7. \A e \in Executor : Busy(e) => exec[e].aid \in ActionId \ {a}
  BY StatusesDisjoint DEF InStep, Busy, TypeOK, Run, NonTerminal, Running
<1>8. InStep'
  BY <1>1, <1>2, <1>3, <1>5, <1>6, <1>7, StatusesDisjoint DEF InStep, Busy
<1>9. \A b \in ActionId : progress'[b] >= progress[b] BY <1>6 DEF TypeOK
<1>10. \A b \in ActionId : status[b] \in Terminal => status'[b] = status[b]
  BY <1>3, StatusesDisjoint
<1> QED BY <1>8, <1>9, <1>10 DEF StepInOrder, Started, Busy

\* A begin of a phase finds nobody else in the action, and a restore APPROVED.
LEMMA BeginStep ==
  ASSUME TypeOK, Claimed, InStep, NEW e \in Executor, NEW a \in ActionId, NEW st \in [ActionId -> Status],
         NEW t, NEW w,
         \A b \in ActionId : \/ st[b] = status[b]
                             \/ status[b] \in {"PENDING", "APPROVED"} /\ st[b] = "EXPIRED",
         BeginPhase(e, a, st, t, w)
  PROVE  StepInOrder
<1>1. UNCHANGED <<filing, progress, drafts>> /\ \A d \in drafts' : d.kind \in SettledKinds
  BY DEF BeginPhase, InStep
<1>2. CASE status' = st /\ UNCHANGED exec
  BY <1>1, <1>2, QuietStep, StatusesDisjoint
<1> DEFINE Free == st[a] \in NonTerminal \ {"PENDING"} /\ inflight[a] <= now
<1>3. ASSUME Free
      PROVE  /\ st[a] = status[a] /\ status[a] \in {"APPROVED"} \cup Running
             /\ filing[a].kind \in SettledKinds
             /\ \A f \in Executor : Busy(f) => exec[f].aid \in ActionId \ {a}
  <2>1. st[a] = status[a] /\ status[a] \in {"APPROVED"} \cup Running BY <1>3, StatusesDisjoint
  <2>2. filing[a].kind \in SettledKinds BY <2>1, StatusesDisjoint DEF InStep, NonTerminal
  <2>3. \A f \in Executor : Busy(f) => exec[f].aid \in ActionId \ {a}
    BY <1>3 DEF Claimed, Busy, TypeOK, Run
  <2> QED BY <2>1, <2>2, <2>3
<1>4. CASE Free /\ status' = [st EXCEPT ![a] = "NEEDS_ATTENTION"] /\ UNCHANGED exec
  <2>1. \A b \in ActionId \ {a} : status'[b] = st[b] BY <1>4
  <2>2. status'[a] = "NEEDS_ATTENTION" /\ "NEEDS_ATTENTION" \in Terminal BY <1>4 DEF Terminal
  <2>3. \A b \in ActionId : status'[b] \in NonTerminal => status[b] \in NonTerminal
    BY <1>4, <2>1, <2>2, StatusesDisjoint
  <2>4. AtMostOneOpen' BY <2>3 DEF InStep, AtMostOneOpen, IsOpen
  <2>5. InStep'
    BY <1>1, <1>3, <1>4, <2>1, <2>2, <2>4, StatusesDisjoint DEF InStep, Busy
  <2>6. \A b \in ActionId : progress'[b] >= progress[b] BY <1>1 DEF TypeOK
  <2>7. \A b \in ActionId : status[b] \in Terminal => status'[b] = status[b]
    BY <1>3, <1>4, <2>1, StatusesDisjoint
  <2> QED BY <1>4, <2>5, <2>6, <2>7 DEF StepInOrder, Started, Busy
<1>5. CASE /\ Free /\ ~CannotRun(a, st[a])
           /\ status' = [st EXCEPT ![a] = Entered(filing[a].kind, st[a])]
           /\ exec' = [exec EXCEPT ![e] = [aid |-> a, mode |-> "execute", progress |-> progress[a],
                                           status |-> Entered(filing[a].kind, st[a])]]
  <2> DEFINE s == Entered(filing[a].kind, st[a])
  <2>1. s \in Running
    <3>1. CASE status[a] = "APPROVED"
      BY <1>3, <1>5, <3>1 DEF Entered, SettledKinds, Running
    <3>2. CASE status[a] \in Running
      BY <1>3, <1>5, <3>2, StatusesDisjoint DEF Entered
    <3> QED BY <1>3, <1>5, <3>1, <3>2
  <2>2. \A b \in ActionId \ {a} : status'[b] = st[b] BY <1>5
  <2>3. status'[a] = s BY <1>5
  <2>4. filing[a].kind = "restore" => status[a] = "APPROVED" /\ s = "RESTORING"
    BY <1>3, <1>5, StatusesDisjoint DEF InStep, CannotRun, Entered, NonTerminal
  <2>5. \A b \in ActionId : status'[b] \in NonTerminal => status[b] \in NonTerminal
    BY <1>3, <1>5, <2>2, StatusesDisjoint
  <2>6. AtMostOneOpen' BY <2>5 DEF InStep, AtMostOneOpen, IsOpen
  <2>7. \A f \in Executor :
          \/ f # e /\ exec'[f] = exec[f]
          \/ exec'[f].aid = a /\ exec'[f].mode = "execute" /\ exec'[f].progress = progress[a]
    BY <1>5 DEF TypeOK
  <2>8. InStep'
    <3>1. \A b \in ActionId :
            /\ status'[b] # "ABSENT" => filing[b].kind \in SettledKinds
            /\ filing[b].kind = "restore" =>
                 status'[b] \in {"ABSENT", "PENDING", "APPROVED", "RESTORING"} \cup Terminal
      BY <1>3, <1>5, <2>2, <2>3, <2>4, StatusesDisjoint DEF InStep
    <3>2. \A f \in Executor :
            exec'[f] # None => /\ status'[exec'[f].aid] \in Running
                               /\ exec'[f].mode # "abort"
                               /\ exec'[f].progress = progress[exec'[f].aid]
      BY <1>3, <1>5, <2>1, <2>2, <2>3, <2>7, StatusesDisjoint DEF InStep, Busy
    <3> QED BY <1>1, <2>6, <3>1, <3>2 DEF InStep, Busy
  <2>9. \A b \in ActionId : progress'[b] >= progress[b] BY <1>1 DEF TypeOK
  <2>10. \A b \in ActionId : status[b] \in Terminal => status'[b] = status[b]
    BY <1>3, <1>5, <2>2, StatusesDisjoint
  <2>11. \A f \in Executor : Started(f) => exec'[f].aid = a BY <2>7 DEF Started, Busy
  <2> QED BY <2>4, <2>8, <2>9, <2>10, <2>11 DEF StepInOrder
<1> QED BY <1>2, <1>4, <1>5 DEF BeginPhase

\* The reply of a phase finds the action where the executor left it.
LEMMA ReplyInOrder ==
  ASSUME TypeOK, Claimed, InStep, NEW e \in Executor, ReplyStep(e)
  PROVE  StepInOrder
<1> DEFINE a == exec[e].aid
<1>1. Busy(e) /\ exec[e] \in Run /\ a \in ActionId
  BY DEF ReplyStep, EndPhase, BeginRevert, PhaseRaises, LosePhase, Busy, TypeOK, Run
<1>2. /\ status[a] \in Running /\ exec[e].mode # "abort" /\ exec[e].progress = progress[a]
      /\ filing[a].kind \in SettledKinds
  BY <1>1, StatusesDisjoint DEF InStep, NonTerminal
<1>3. \A f \in Executor \ {e} : Busy(f) => exec[f].aid \in ActionId \ {a}
  BY <1>1 DEF Claimed, OneExecutor, Busy, TypeOK, Run
<1>4. UNCHANGED <<filing, drafts>>
  BY DEF ReplyStep, EndPhase, BeginRevert, PhaseRaises, LosePhase, volatileVars, recordVars
<1>5. ASSUME NEW s \in Running \cup Terminal, NEW p \in Nat, p >= progress[a],
             status' = [status EXCEPT ![a] = s], progress' = [progress EXCEPT ![a] = p],
             filing[a].kind = "restore" => s \in Terminal,
             \A f \in Executor \ {e} : exec'[f] = exec[f],
             exec'[e] = None
      PROVE  StepInOrder
  <2>1. \A b \in ActionId \ {a} : status'[b] = status[b] /\ progress'[b] = progress[b]
    BY <1>5 DEF TypeOK
  <2>2. status'[a] = s /\ progress'[a] = p BY <1>1, <1>5 DEF TypeOK
  <2>3. AtMostOneOpen'
    BY <1>1, <1>2, <2>1, <2>2, StatusesDisjoint DEF InStep, AtMostOneOpen, IsOpen, NonTerminal
  <2>4. InStep'
    BY <1>1, <1>2, <1>3, <1>4, <1>5, <2>1, <2>2, <2>3, StatusesDisjoint DEF InStep, Busy
  <2>5. \A b \in ActionId : progress'[b] >= progress[b] BY <1>5, <2>1, <2>2 DEF TypeOK
  <2>6. \A b \in ActionId : status[b] \in Terminal => status'[b] = status[b]
    BY <1>2, <2>1, StatusesDisjoint DEF NonTerminal
  <2> QED BY <1>5, <2>4, <2>5, <2>6 DEF StepInOrder, Started, Busy
<1>6. CASE EndPhase(e)
  <2>1. PICK out \in PhaseOutcomes(exec[e]) :
          status' = [status EXCEPT ![a] = out[1]] /\ progress' = [progress EXCEPT ![a] = out[2]]
    BY <1>6 DEF EndPhase
  <2>2. out[1] \in Running \cup Terminal /\ out[2] \in Nat
    BY <1>1, <2>1, OutcomeType DEF Status, NonTerminal
  <2>3. out[2] >= progress[a] /\ (filing[a].kind = "restore" => out[1] \in Terminal)
    BY <1>1, <1>2, <2>1, OutcomeForward
  <2>4. (\A f \in Executor \ {e} : exec'[f] = exec[f]) /\ exec'[e] = None
    BY <1>6 DEF EndPhase, TypeOK
  <2> QED BY <1>5, <2>1, <2>2, <2>3, <2>4
<1>7. CASE BeginRevert(e)
  <2>1. /\ status' = [status EXCEPT ![a] = "UPGRADING"] /\ progress' = [progress EXCEPT ![a] = exec[e].progress]
        /\ filing[a].kind = "upgrade"
    BY <1>7 DEF BeginRevert
  <2>2. /\ \A f \in Executor \ {e} : exec'[f] = exec[f]
        /\ exec'[e].aid = a /\ exec'[e].mode = "revert" /\ exec'[e].progress = exec[e].progress
    BY <1>1, <1>7 DEF BeginRevert, TypeOK, Run
  <2>3. progress' = progress BY <1>1, <1>2, <2>1 DEF TypeOK
  <2>4. /\ \A b \in ActionId \ {a} : status'[b] = status[b]
        /\ status'[a] = "UPGRADING" /\ "UPGRADING" \in Running
    BY <1>1, <2>1 DEF TypeOK, Running
  <2>5. AtMostOneOpen'
    BY <1>1, <1>2, <2>4, StatusesDisjoint DEF InStep, AtMostOneOpen, IsOpen, NonTerminal
  <2>6. InStep'
    BY <1>1, <1>2, <1>3, <1>4, <2>1, <2>2, <2>3, <2>4, <2>5, StatusesDisjoint DEF InStep, Busy
  <2>7. \A b \in ActionId : progress'[b] >= progress[b] BY <2>3 DEF TypeOK
  <2>8. \A b \in ActionId : status[b] \in Terminal => status'[b] = status[b]
    BY <1>2, <2>4, StatusesDisjoint DEF NonTerminal
  <2>9. \A f \in Executor : ~Started(f) BY <1>1, <2>2 DEF Started, Busy
  <2> QED BY <2>6, <2>7, <2>8, <2>9 DEF StepInOrder
<1>8. CASE PhaseRaises(e)
  <2>1. (\A f \in Executor \ {e} : exec'[f] = exec[f]) /\ exec'[e] = None /\ UNCHANGED progress
    BY <1>8 DEF PhaseRaises, TypeOK
  <2>2. CASE filing[a].kind = "provision"
    <3>1. /\ status' = [status EXCEPT ![a] = "FAILED_PROVISION"] /\ "FAILED_PROVISION" \in Terminal
          /\ progress' = [progress EXCEPT ![a] = progress[a]] /\ progress[a] \in Nat
      BY <1>1, <1>8, <2>1, <2>2 DEF PhaseRaises, TypeOK, Terminal
    <3>2. /\ "FAILED_PROVISION" \in Running \cup Terminal /\ progress[a] >= progress[a]
          /\ filing[a].kind # "restore"
      BY <2>2, <3>1
    <3> QED BY <1>5, <2>1, <3>1, <3>2
  <2>3. CASE filing[a].kind # "provision"
    <3>1. UNCHANGED <<status, progress>> BY <1>8, <2>3 DEF PhaseRaises
    <3> QED BY <1>4, <2>1, <3>1, QuietStep DEF InStep
  <2> QED BY <2>2, <2>3
<1>9. CASE LosePhase(e)
  <2>1. UNCHANGED <<status, progress>> /\ \A f \in Executor : exec'[f] \in {None, exec[f]}
    BY <1>9 DEF LosePhase, recordVars, TypeOK
  <2> QED BY <1>4, <2>1, QuietStep DEF InStep
<1> QED BY <1>6, <1>7, <1>8, <1>9 DEF ReplyStep

\* Every step keeps executors and records in step.
LEMMA NextInOrder ==
  ASSUME Kinds \subseteq SettledKinds
  PROVE  TypeOK /\ Claimed /\ InStep /\ [Next]_vars => StepInOrder
<1> SUFFICES ASSUME TypeOK, Claimed, InStep, [Next]_vars PROVE StepInOrder
  OBVIOUS
<1> USE DEF recordVars, configVars, volatileVars, envVars
<1>1. \A d \in drafts : d.kind \in SettledKinds BY DEF InStep
<1>2. ASSUME status' = Swept, UNCHANGED <<filing, progress, exec>>, \A d \in drafts' : d.kind \in SettledKinds
      PROVE  StepInOrder
  BY <1>2, QuietStep, SweptWaiting, StatusesDisjoint
<1>3. CASE ProposeStep
  <2> PICK a \in ActionId, k \in Kinds, o \in Overrides \cup {None} : Propose(a, k, o) \/ BeginPropose(a, k, o)
    BY <1>3 DEF ProposeStep
  <2>1. CASE Propose(a, k, o) BY <1>1, <2>1, FileStep DEF Propose
  <2>2. CASE BeginPropose(a, k, o) BY <1>1, <1>2, <2>2 DEF BeginPropose
  <2> QED BY <2>1, <2>2
<1>4. ASSUME NEW d \in drafts, EndPropose(d) PROVE StepInOrder
  <2>1. d.aid \in ActionId /\ d.kind \in SettledKinds BY <1>1 DEF TypeOK, Draft
  <2> QED BY <1>1, <1>2, <1>4, <2>1, FileStep DEF EndPropose
<1>5. CASE Sweep BY <1>1, <1>2, <1>5 DEF Sweep
<1>6. CASE VoteStep
  <2> PICK a \in ActionId : \/ \E c \in Commander : SubmitApproval(c, a)
                            \/ SubmitMultisigAccelerant(a) \/ RejectAction(a) \/ ExpireOnTouch(a)
    BY <1>6 DEF VoteStep
  <2>1. /\ UNCHANGED <<filing, progress, drafts, exec>>
        /\ \/ UNCHANGED status
           \/ status[a] = "PENDING" /\ status' = [status EXCEPT ![a] = "APPROVED"]
           \/ status[a] = "PENDING" /\ status' = [status EXCEPT ![a] = "REJECTED"]
           \/ status' = ExpireIfStale(status, a)
    BY DEF SubmitApproval, SubmitMultisigAccelerant, RejectAction, ExpireOnTouch
  <2>2. \A b \in ActionId : \/ status'[b] = status[b]
                            \/ status[b] \in {"PENDING", "APPROVED"} /\ status'[b] \in Terminal
                            \/ status[b] = "PENDING" /\ status'[b] = "APPROVED"
    BY <2>1, SweptWaiting DEF TypeOK, Terminal
  <2> QED BY <1>1, <2>1, <2>2, QuietStep
<1>7. CASE CallStep
  <2> PICK e \in Executor, a \in ActionId :
         ExecuteAction(e, a) \/ SkipBakeAndComplete(e, a) \/ AbortAction(e, a)
    BY <1>7 DEF CallStep
  <2>1. CASE ExecuteAction(e, a)
    BY <2>1, BeginStep, SweptWaiting, SweptType DEF ExecuteAction
  <2>2. CASE SkipBakeAndComplete(e, a)
    BY <2>2, BeginStep DEF SkipBakeAndComplete, TypeOK
  <2>3. CASE AbortAction(e, a)
    BY <2>3, StatusesDisjoint DEF AbortAction, InStep, SettledKinds
  <2> QED BY <2>1, <2>2, <2>3
<1>8. ASSUME NEW e \in Executor, TimerTick(e) PROVE StepInOrder
  <2>1. timer.aid \in ActionId BY <1>8 DEF TimerTick, TypeOK
  <2> QED BY <1>8, <2>1, BeginStep, SweptWaiting, SweptType DEF TimerTick
<1>9. ASSUME NEW e \in Executor, ReplyStep(e) PROVE StepInOrder
  BY <1>9, ReplyInOrder
<1>10. CASE UpgradeBaton \/ Configure \/ Tick \/ UNCHANGED vars
  <2>1. /\ UNCHANGED <<status, filing, progress>>
        /\ drafts' \subseteq drafts
        /\ \A e \in Executor : exec'[e] \in {None, exec[e]}
    BY <1>10 DEF UpgradeBaton, Configure, Tick, vars
  <2> QED BY <1>1, <2>1, QuietStep
<1> QED BY <1>3, <1>4, <1>5, <1>6, <1>7, <1>8, <1>9, <1>10 DEF Next

\* The strengthened invariant holds throughout.
LEMMA InStepAlways ==
  ASSUME ~SlowCalls, Kinds \subseteq SettledKinds
  PROVE  Spec => [](TypeOK /\ Claimed /\ InStep)
<1>1. Init => Claimed /\ InStep
  BY StatusesDisjoint DEF Init, Claimed, OneExecutor, Busy, InStep, AtMostOneOpen, IsOpen
<1>2. TypeOK /\ Claimed /\ [Next]_vars => Claimed' BY NextClaimed
<1>3. TypeOK /\ Claimed /\ InStep /\ [Next]_vars => InStep' BY NextInOrder DEF StepInOrder
<1> QED BY <1>1, <1>2, <1>3, TypeCorrect, PTL DEF Spec

\* The baton takes one action at a time.
THEOREM OneOpenAction ==
  ASSUME ~SlowCalls, Kinds \subseteq SettledKinds
  PROVE  Spec => []AtMostOneOpen
<1>1. InStep => AtMostOneOpen BY DEF InStep
<1> QED BY <1>1, InStepAlways, PTL

\* A finished action stays as it finished, whatever executor comes late.
THEOREM EndedForGood ==
  ASSUME ~SlowCalls, Kinds \subseteq SettledKinds
  PROVE  Spec => TerminalIsFinal
<1>1. TypeOK /\ Claimed /\ InStep /\ [Next]_vars =>
        [\A a \in ActionId : status[a] \in Terminal => status'[a] = status[a]]_vars
  BY NextInOrder DEF StepInOrder
<1> QED BY <1>1, InStepAlways, PTL DEF Spec, TerminalIsFinal

\* No executor saves an older cursor over a newer one.
THEOREM CursorsOnlyAdvance ==
  ASSUME ~SlowCalls, Kinds \subseteq SettledKinds
  PROVE  Spec => ProgressNeverLost
<1>1. TypeOK /\ Claimed /\ InStep /\ [Next]_vars =>
        [\A a \in ActionId : progress'[a] >= progress[a]]_vars
  BY NextInOrder DEF StepInOrder
<1> QED BY <1>1, InStepAlways, PTL DEF Spec, ProgressNeverLost

\* A restore found RESTORING is not run again.
THEOREM RestoresBeginOnce ==
  ASSUME ~SlowCalls, Kinds \subseteq SettledKinds
  PROVE  Spec => RestoreBeginsOnce
<1>1. TypeOK /\ Claimed /\ InStep /\ [Next]_vars =>
        [\A e \in Executor :
           Started(e) /\ filing[exec'[e].aid].kind = "restore" => status[exec'[e].aid] = "APPROVED"]_vars
  BY NextInOrder DEF StepInOrder
<1> QED BY <1>1, InStepAlways, PTL DEF Spec, RestoreBeginsOnce
-----------------------------------------------------------------------------
(* Who drives an action. While no phase raised or lost its reply.           *)

Drives(a) == timer.aid = a \/ \E e \in Executor : Busy(e) /\ exec[e].aid = a
UnderWay(a) == status[a] \in {"APPROVED"} \cup Running

\* A claim that has not run out is some executor's, and an action under way has an
\* executor or the timer.
Driven ==
  faults = 0 => \A a \in ActionId :
    /\ inflight[a] > now => \E e \in Executor : Busy(e) /\ exec[e].aid = a
    /\ UnderWay(a) => Drives(a)

\* Steps that leave claims, executors and the timer alone, and approve nothing.
LEMMA CalmStep ==
  ASSUME TypeOK, Driven, UNCHANGED <<timer, inflight, exec, faults, now>>,
         \A a \in ActionId : UnderWay(a)' => UnderWay(a)
  PROVE  Driven'
BY DEF Driven, Drives, Busy

\* A step on the one open action, which it leaves driven or ended.
LEMMA DrivingStep ==
  ASSUME TypeOK, InStep, Driven, NEW a \in ActionId, IsOpen(a), UNCHANGED <<faults, now>>,
         \A b \in ActionId \ {a} : status'[b] = status[b] \/ status'[b] \notin NonTerminal,
         \A b \in ActionId \ {a} : inflight'[b] > now => inflight[b] > now,
         \A e \in Executor : Busy(e) /\ exec[e].aid # a => exec'[e] = exec[e],
         inflight'[a] > now => \E e \in Executor : Busy(e)' /\ exec'[e].aid = a,
         UnderWay(a)' => Drives(a)'
  PROVE  Driven'
<1>1. \A b \in ActionId \ {a} : ~UnderWay(b)'
  BY StatusesDisjoint DEF InStep, AtMostOneOpen, IsOpen, UnderWay
<1>2. ASSUME NEW b \in ActionId \ {a}, faults = 0, inflight'[b] > now
      PROVE  \E e \in Executor : Busy(e)' /\ exec'[e].aid = b
  <2>1. PICK e \in Executor : Busy(e) /\ exec[e].aid = b BY <1>2 DEF Driven
  <2> QED BY <2>1 DEF Busy
<1> QED BY <1>1, <1>2 DEF Driven

\* A begin takes the timer only from the action it goes on with, and a tick that is
\* refused has found its action ended or in an executor's hands.
LEMMA BeginDrives ==
  ASSUME TypeOK, Claimed, InStep, Driven, NEW e \in Executor, NEW a \in ActionId, NEW st \in [ActionId -> Status],
         NEW t, NEW w, t = timer \/ (t = NoTimer /\ timer.aid = a),
         \A b \in ActionId : \/ st[b] = status[b]
                             \/ status[b] \in {"PENDING", "APPROVED"} /\ st[b] = "EXPIRED",
         BeginPhase(e, a, st, t, w)
  PROVE  Driven'
<1> USE DEF UnderWay
<1>1. UNCHANGED <<faults, now>> BY DEF BeginPhase, envVars
<1>2. \A b \in ActionId : st[b] = status[b] \/ st[b] \notin NonTerminal BY StatusesDisjoint
<1>3. CASE /\ st[a] \in Terminal \cup {"ABSENT", "PENDING"} \/ inflight[a] > now
           /\ status' = st /\ timer' = t /\ UNCHANGED <<inflight, exec>>
  <2>1. \A b \in ActionId : UnderWay(b)' => UnderWay(b) BY <1>2, <1>3, StatusesDisjoint
  <2>2. ASSUME NEW b \in ActionId, faults = 0, UnderWay(b)', ~Drives(b)' PROVE FALSE
    <3>1. Drives(b) BY <2>1, <2>2 DEF Driven
    <3>2. timer.aid = b /\ ~\E f \in Executor : Busy(f) /\ exec[f].aid = b
      BY <1>3, <2>2, <3>1 DEF Drives, Busy
    <3>3. b = a BY <1>3, <2>2, <3>2 DEF Drives
    <3>4. st[a] \notin Terminal \cup {"ABSENT", "PENDING"} BY <1>3, <2>2, <3>3, StatusesDisjoint
    <3>5. inflight[a] > now BY <1>3, <3>4
    <3> QED BY <2>2, <3>2, <3>3, <3>5 DEF Driven
  <2> QED BY <1>1, <1>3, <2>2 DEF Driven, Busy
<1> DEFINE Free == st[a] \in NonTerminal \ {"PENDING"} /\ inflight[a] <= now
<1>4. Free => IsOpen(a) /\ now \in Nat /\ inflight \in [ActionId -> Nat]
  BY <1>2 DEF IsOpen, TypeOK
<1>6. ASSUME Free, \A b \in ActionId \ {a} : status'[b] = st[b] PROVE
        \A b \in ActionId \ {a} : status'[b] = status[b] \/ status'[b] \notin NonTerminal
  BY <1>2, <1>6
<1>7. CASE Free /\ status' = st /\ timer' = Armed(a, w[a]) /\ inflight' = [inflight EXCEPT ![a] = 0] /\ UNCHANGED exec
  <2>1. Drives(a)' BY <1>7 DEF Drives, Armed
  <2>2. ~(inflight'[a] > now) BY <1>4, <1>7
  <2>3. \A b \in ActionId \ {a} : inflight'[b] = inflight[b] BY <1>4, <1>7
  <2> QED BY <1>1, <1>4, <1>6, <1>7, <2>1, <2>2, <2>3, DrivingStep
<1>8. CASE Free /\ status' = [st EXCEPT ![a] = "NEEDS_ATTENTION"] /\ inflight' = [inflight EXCEPT ![a] = 0] /\ UNCHANGED exec
  <2>1. ~UnderWay(a)' BY <1>8, StatusesDisjoint DEF Terminal
  <2>2. ~(inflight'[a] > now) BY <1>4, <1>8
  <2>3. \A b \in ActionId \ {a} : inflight'[b] = inflight[b] /\ status'[b] = st[b] BY <1>4, <1>8
  <2> QED BY <1>1, <1>4, <1>6, <1>8, <2>1, <2>2, <2>3, DrivingStep
<1>9. CASE /\ Free /\ exec[e] = None
           /\ status' = [st EXCEPT ![a] = Entered(filing[a].kind, st[a])]
           /\ inflight' = [inflight EXCEPT ![a] = now + InflightTtl]
           /\ \E r : r # None /\ r.aid = a /\ exec' = [exec EXCEPT ![e] = r]
  <2>1. exec'[e] # None /\ exec'[e].aid = a BY <1>9 DEF TypeOK
  <2>2. \A f \in Executor : Busy(f) => exec'[f] = exec[f] BY <1>9 DEF TypeOK, Busy
  <2>3. \E f \in Executor : Busy(f)' /\ exec'[f].aid = a BY <2>1 DEF Busy
  <2>4. \A b \in ActionId \ {a} : inflight'[b] = inflight[b] /\ status'[b] = st[b] BY <1>4, <1>9
  <2>5. Drives(a)' BY <2>3 DEF Drives
  <2> QED BY <1>1, <1>4, <1>6, <1>9, <2>2, <2>3, <2>4, <2>5, DrivingStep
<1>10. Free => [aid |-> a, mode |-> "execute", progress |-> progress[a], status |-> Entered(filing[a].kind, st[a])] # None
  <2>1. Entered(filing[a].kind, st[a]) \in Status BY DEF Entered, Status, NonTerminal, Running
  <2>2. progress[a] \in Nat BY DEF TypeOK
  <2> QED BY <2>1, <2>2, NoExecutorAssumption DEF Run
<1> QED BY <1>3, <1>7, <1>8, <1>9, <1>10 DEF BeginPhase
\* A reply passes the action on to the timer or ends it, unless it raised or was lost.
LEMMA ReplyDrives ==
  ASSUME TypeOK, Claimed, InStep, Driven, NEW e \in Executor, ReplyStep(e)
  PROVE  Driven'
<1>1. PICK a \in ActionId : Busy(e) /\ exec[e] \in Run /\ a = exec[e].aid
  BY DEF ReplyStep, EndPhase, BeginRevert, PhaseRaises, LosePhase, Busy, TypeOK, Run
<1>2. IsOpen(a) /\ exec[e].mode # "abort" /\ filing[a].kind \in SettledKinds
  BY <1>1, StatusesDisjoint DEF InStep, IsOpen
<1>3. now \in Nat /\ inflight \in [ActionId -> Nat] /\ status \in [ActionId -> Status] /\ exec \in [Executor -> Run \cup {None}]
  BY DEF TypeOK
<1>4. CASE PhaseRaises(e) \/ LosePhase(e)
  <2>1. faults' = faults + 1 /\ faults \in Nat BY <1>4 DEF PhaseRaises, LosePhase, TypeOK
  <2>2. faults' # 0 BY <2>1
  <2> QED BY <2>2 DEF Driven
<1>5. CASE EndPhase(e)
  <2>1. PICK out \in PhaseOutcomes(exec[e]) :
          /\ status' = [status EXCEPT ![a] = out[1]]
          /\ timer' = IF out[1] \in Terminal THEN timer
                      ELSE Armed(a, IF out[1] = "FINALIZING" /\ filing[a].kind = "upgrade" THEN wake'[a] ELSE now)
    BY <1>1, <1>5 DEF EndPhase
  <2>2. UNCHANGED <<faults, now>> /\ inflight' = [inflight EXCEPT ![a] = 0] /\ exec' = [exec EXCEPT ![e] = None]
    BY <1>1, <1>5 DEF EndPhase, envVars
  <2>3. \A b \in ActionId \ {a} : status'[b] = status[b] /\ inflight'[b] = inflight[b] BY <1>3, <2>1, <2>2
  <2>4. ~(inflight'[a] > now) BY <1>1, <1>3, <2>2
  <2>5. \A f \in Executor : Busy(f) /\ exec[f].aid # a => exec'[f] = exec[f] BY <1>1, <1>3, <2>2
  <2>6. UnderWay(a)' => Drives(a)'
    <3>1. CASE out[1] \in Terminal
      <4>1. status'[a] = out[1] BY <1>1, <1>3, <2>1
      <4> QED BY <3>1, <4>1, StatusesDisjoint DEF UnderWay
    <3>2. CASE out[1] \notin Terminal
      <4>1. timer'.aid = a BY <2>1, <3>2 DEF Armed
      <4> QED BY <4>1 DEF Drives
    <3> QED BY <3>1, <3>2
  <2> QED BY <1>1, <1>2, <2>2, <2>3, <2>4, <2>5, <2>6, DrivingStep
<1>6. CASE BeginRevert(e)
  <2>1. /\ status' = [status EXCEPT ![a] = "UPGRADING"] /\ exec' = [exec EXCEPT ![e].mode = "revert"]
        /\ UNCHANGED <<faults, now, inflight>>
    BY <1>1, <1>6 DEF BeginRevert, envVars
  <2>2. exec'[e] \in Run /\ exec'[e].aid = a BY <1>1, <1>3, <2>1 DEF Run
  <2>3. exec'[e] # None BY <2>2, NoExecutorAssumption
  <2>4. \E f \in Executor : Busy(f)' /\ exec'[f].aid = a BY <2>2, <2>3 DEF Busy
  <2>5. \A b \in ActionId \ {a} : status'[b] = status[b] /\ inflight'[b] = inflight[b] BY <1>3, <2>1
  <2>6. \A f \in Executor : Busy(f) /\ exec[f].aid # a => exec'[f] = exec[f] BY <1>1, <1>3, <2>1
  <2>7. Drives(a)' BY <2>4 DEF Drives
  <2> QED BY <1>1, <1>2, <2>1, <2>4, <2>5, <2>6, <2>7, DrivingStep
<1> QED BY <1>4, <1>5, <1>6 DEF ReplyStep

\* Every step leaves the action under way driven.
LEMMA NextDriven ==
  ASSUME Kinds \subseteq SettledKinds
  PROVE  TypeOK /\ Claimed /\ InStep /\ Driven /\ [Next]_vars => Driven'
<1> SUFFICES ASSUME TypeOK, Claimed, InStep, Driven, [Next]_vars PROVE Driven'
  OBVIOUS
<1> USE DEF recordVars, configVars, volatileVars, envVars
<1>1. ASSUME UNCHANGED <<timer, inflight, exec, faults, now>>,
             \A b \in ActionId : status'[b] \in {status[b], "PENDING"} \cup Terminal
      PROVE  Driven'
  <2>1. \A b \in ActionId : UnderWay(b)' => UnderWay(b) BY <1>1, StatusesDisjoint DEF UnderWay
  <2> QED BY <1>1, <2>1, CalmStep
<1>2. \A b \in ActionId : Swept[b] \in {status[b]} \cup Terminal BY SweptWaiting, StatusesDisjoint
<1>3. ASSUME NEW a \in ActionId, NEW k, NEW o, File(a, k, o), UNCHANGED <<timer, inflight, exec, faults, now>>
      PROVE  Driven'
  <2>1. \A b \in ActionId : status'[b] \in {Swept[b], "PENDING"} BY <1>3, SweptType DEF File
  <2> QED BY <1>1, <1>2, <1>3, <2>1
<1>4. CASE ProposeStep
  <2> PICK a \in ActionId, k \in Kinds, o \in Overrides \cup {None} : Propose(a, k, o) \/ BeginPropose(a, k, o)
    BY <1>4 DEF ProposeStep
  <2>1. CASE Propose(a, k, o) BY <1>3, <2>1 DEF Propose
  <2>2. CASE BeginPropose(a, k, o) BY <1>1, <1>2, <2>2 DEF BeginPropose
  <2> QED BY <2>1, <2>2
<1>5. ASSUME NEW d \in drafts, EndPropose(d) PROVE Driven'
  <2>1. d.aid \in ActionId BY DEF TypeOK, Draft
  <2>2. CASE File(d.aid, d.kind, d.override) BY <1>3, <1>5, <2>1, <2>2 DEF EndPropose
  <2>3. CASE status' = Swept BY <1>1, <1>2, <1>5, <2>3 DEF EndPropose
  <2> QED BY <1>5, <2>2, <2>3 DEF EndPropose
<1>6. CASE Sweep BY <1>1, <1>2, <1>6 DEF Sweep
<1>7. CASE VoteStep
  <2> PICK a \in ActionId : \/ \E c \in Commander : SubmitApproval(c, a)
                            \/ SubmitMultisigAccelerant(a) \/ RejectAction(a) \/ ExpireOnTouch(a)
    BY <1>7 DEF VoteStep
  <2>1. UNCHANGED <<inflight, exec, faults, now>> BY DEF SubmitApproval, SubmitMultisigAccelerant, RejectAction, ExpireOnTouch
  <2>2. CASE status[a] = "PENDING" /\ status' = [status EXCEPT ![a] = "APPROVED"] /\ timer' = Armed(a, now)
    <3>1. IsOpen(a) BY <2>2, StatusesDisjoint DEF IsOpen
    <3>2. \A b \in ActionId \ {a} : status'[b] = status[b] BY <2>2 DEF TypeOK
    <3>3. Drives(a)' BY <2>2 DEF Drives, Armed
    <3>4. inflight'[a] > now /\ faults = 0 => \E e \in Executor : Busy(e) /\ exec[e].aid = a BY <2>1 DEF Driven
    <3>5. CASE faults = 0
      <4>1. inflight'[a] > now => \E e \in Executor : Busy(e)' /\ exec'[e].aid = a BY <2>1, <3>4, <3>5 DEF Busy
      <4> QED BY <2>1, <3>1, <3>2, <3>3, <4>1, DrivingStep
    <3>6. CASE faults # 0 BY <2>1, <3>6 DEF Driven
    <3> QED BY <3>5, <3>6
  <2>3. CASE UNCHANGED <<status, timer>> BY <1>1, <2>1, <2>3
  <2>4. CASE UNCHANGED timer /\ (status' = [status EXCEPT ![a] = "REJECTED"] \/ status' = ExpireIfStale(status, a))
    <3>1. \A b \in ActionId : status'[b] \in {status[b]} \cup Terminal
      BY <2>4, SweptWaiting, StatusesDisjoint DEF TypeOK, Terminal
    <3> QED BY <1>1, <2>1, <2>4, <3>1
  <2> QED BY <2>2, <2>3, <2>4 DEF SubmitApproval, SubmitMultisigAccelerant, RejectAction, ExpireOnTouch
<1>8. CASE CallStep
  <2> PICK e \in Executor, a \in ActionId :
         ExecuteAction(e, a) \/ SkipBakeAndComplete(e, a) \/ AbortAction(e, a)
    BY <1>8 DEF CallStep
  <2>1. CASE ExecuteAction(e, a) BY <2>1, BeginDrives, SweptWaiting, SweptType DEF ExecuteAction
  <2>2. CASE SkipBakeAndComplete(e, a) BY <2>2, BeginDrives DEF SkipBakeAndComplete, TypeOK
  <2>3. CASE AbortAction(e, a) BY <2>3, StatusesDisjoint DEF AbortAction, InStep, SettledKinds
  <2> QED BY <2>1, <2>2, <2>3
<1>9. ASSUME NEW e \in Executor, TimerTick(e) PROVE Driven'
  <2>1. timer.aid \in ActionId BY <1>9 DEF TimerTick, TypeOK
  <2> QED BY <1>9, <2>1, BeginDrives, SweptWaiting, SweptType DEF TimerTick
<1>10. ASSUME NEW e \in Executor, ReplyStep(e) PROVE Driven' BY <1>10, ReplyDrives
<1>11. CASE UpgradeBaton
  <2>1. UNCHANGED <<status, faults, now>> /\ \A b \in ActionId : inflight'[b] = 0 BY <1>11 DEF UpgradeBaton
  <2>2. \A b \in ActionId : ~(inflight'[b] > now) BY <2>1 DEF TypeOK
  <2>3. ASSUME NEW b \in ActionId, UnderWay(b)' PROVE Drives(b)'
    <3>1. IsOpen(b) BY <2>1, <2>3, StatusesDisjoint DEF IsOpen, UnderWay
    <3>2. \E a \in ActionId : IsOpen(a) /\ timer'.aid = a BY <1>11, <3>1 DEF UpgradeBaton, Armed
    <3> QED BY <3>1, <3>2 DEF InStep, AtMostOneOpen, Drives
  <2> QED BY <2>1, <2>2, <2>3 DEF Driven
<1>12. CASE Configure BY <1>1, <1>12 DEF Configure
<1>13. CASE Tick
  <2>1. UNCHANGED <<status, timer, inflight, exec, faults>> /\ now' = now + 1 BY <1>13 DEF Tick
  <2>2. now \in Nat /\ \A b \in ActionId : inflight[b] \in Nat BY DEF TypeOK
  <2>3. \A b \in ActionId : inflight[b] > now + 1 => inflight[b] > now BY <2>2
  <2> QED BY <2>1, <2>3 DEF Driven, UnderWay, Drives, Busy
<1>14. CASE UNCHANGED vars BY <1>1, <1>14 DEF vars
<1> QED BY <1>4, <1>5, <1>6, <1>7, <1>8, <1>9, <1>10, <1>11, <1>12, <1>13, <1>14 DEF Next

\* An approved action goes on by itself: whatever ticks are refused, whoever pumps it
\* by hand and however often the baton is upgraded, the timer or an executor has it,
\* until a phase raises or its reply is lost.
THEOREM ActionsDriveThemselves ==
  ASSUME ~SlowCalls, Kinds \subseteq SettledKinds
  PROVE  Spec => []SelfDriving
<1>1. Init => Driven
  BY StatusesDisjoint DEF Init, Driven, UnderWay
<1>2. TypeOK /\ Claimed /\ InStep /\ Driven /\ [Next]_vars => Driven' BY NextDriven
<1>3. Driven => SelfDriving BY DEF Driven, SelfDriving, UnderWay, Drives
<1> QED BY <1>1, <1>2, <1>3, InStepAlways, PTL DEF Spec
=============================================================================
