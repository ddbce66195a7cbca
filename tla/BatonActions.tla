---------------------------- MODULE BatonActions ----------------------------
(***************************************************************************)
(* The baton's actions (baton/src/main.py): filing, approval, expiry, and  *)
(* the executors that drive an approved action one phase per message.      *)
(*                                                                         *)
(* A canister method runs atomically up to an await and from one await to  *)
(* the next.  A phase makes its management calls one after the other and   *)
(* touches no shared state between them, so it is two atomic steps: the    *)
(* begin (load the record, claim the action, perhaps save a new status)    *)
(* and the end (save the outcome from the copy of the record the executor  *)
(* loaded, release the claim, re-arm the timer).  Between them any other   *)
(* message may run.  What a phase does to the canisters is left to its own *)
(* module; here a phase just succeeds or fails.                            *)
(*                                                                         *)
(* require_capability lets the top commander through, so proposing,        *)
(* executing, aborting and rejecting are always open to somebody and carry *)
(* no guard on the caller; voting has no such bypass and does.             *)
(***************************************************************************)
EXTENDS ApprovalPolicy, Sequences

CONSTANTS
  None,             \* no action, no executor copy, no override
  ActionId,         \* ids proposers use; an id is never reused
  Executor,         \* messages that may be suspended in a phase at once
  Kinds,            \* the kinds of action proposed in this instance
  Policies,         \* policies the baton may be configured with
  Overrides,        \* policies a proposal may carry
  Weights,          \* weights a commander may have; 0: it is not one
  Batches,          \* chunk or file batches after the first of an upgrade/provision
  ReleasePlan,      \* stage of each step of a release's plan
  WindowFrom,       \* first plan index (from 0) inside the maintenance window
  ExpiryAge,        \* action_expiry_days; 0 turns expiry off
  AccelerantAge,    \* accelerant_days
  InflightTtl,      \* INFLIGHT_TTL_NS
  BakeWindow,       \* bake_window_seconds
  ScheduleDelays,   \* how far ahead a release may be scheduled (not_before)
  MaxNow,           \* bound: the clock stops here
  MaxFaults,        \* bound: exceptions and lost replies
  MaxDrafts,        \* bound: proposals suspended at once
  MaxChanges,       \* bound: changes of policy, commanders and the grant flag
  MaxUpgrades,      \* bound: upgrades of the baton
  SlowCalls         \* may a call outlast InflightTtl?

AllKinds == {"upgrade", "provision", "release", "restore", "grant"}

ASSUME ActionIdAssumption == IsFiniteSet(ActionId)
ASSUME KindsAssumption   == Kinds \subseteq AllKinds
ASSUME PoliciesAssumption == Policies \cup Overrides \subseteq {p \in Policy : WellFormed(p)}
ASSUME WeightsAssumption == Weights \subseteq 0..MaxWeight
ASSUME NoneAssumption    == None \notin ActionId \cup Overrides
ASSUME BatchesAssumption == Batches \in Nat
ASSUME PlanAssumption ==
  /\ ReleasePlan \in Seq({"PRE_FLIGHT", "STAGING", "SNAPSHOTTING", "MAINTENANCE", "STOPPING", "UPGRADING",
                          "STARTING", "VERIFYING", "RESTORING", "FINALIZING"})
  /\ Len(ReleasePlan) >= 1
  /\ WindowFrom \in Nat
ASSUME TimesAssumption ==
  /\ ExpiryAge \in Nat /\ AccelerantAge \in Nat /\ BakeWindow \in Nat
  /\ InflightTtl \in Nat \ {0}
  /\ ScheduleDelays \subseteq Nat
  /\ MaxNow \in Nat /\ MaxFaults \in Nat /\ MaxDrafts \in Nat /\ MaxChanges \in Nat /\ MaxUpgrades \in Nat
ASSUME SlowCallsAssumption == SlowCalls \in BOOLEAN

\* models.py TERMINAL_STATUSES and NON_TERMINAL_STATUSES.
Terminal == {"FAILED_STAGING", "ROLLED_BACK", "NEEDS_ATTENTION", "ABORTED", "EXPIRED", "REJECTED",
             "REJECTED_PREFLIGHT", "FAILED_STOP", "FAILED_SNAPSHOT", "REVERTED_PARTIAL_FAILURE",
             "REVERTED_FAILED_VERIFY", "COMPLETE", "FAILED_PROVISION"}
Running == {"PRE_FLIGHT", "STOPPING", "SNAPSHOTTING", "UPGRADING", "STARTING", "VERIFYING", "FINALIZING",
            "PROVISIONING", "STAGING", "MAINTENANCE", "RESTORING"}
NonTerminal == {"PENDING", "APPROVED"} \cup Running
Status == NonTerminal \cup Terminal \cup {"ABSENT"}

Filing == [kind : AllKinds, at : Nat, seq : Nat, override : Overrides \cup {None}]
Draft == [aid : ActionId, kind : AllKinds, override : Overrides \cup {None}]
Run == [aid : ActionId, mode : {"execute", "revert", "abort"}, status : Status, progress : Nat]

ASSUME NoExecutorAssumption == None \notin Run

VARIABLES
  \* stable memory: survives an upgrade of the baton
  status,    \* ActionId -> Status, "ABSENT" before it is filed
  filing,    \* ActionId -> what is fixed when the action is filed
  votes,     \* ActionId -> commanders whose approval is recorded
  path,      \* ActionId -> approval_path
  progress,  \* ActionId -> batches or plan steps done (upgrade_index, cursor, ...)
  wake,      \* ActionId -> bake_until, or not_before while a release is APPROVED
  weight,    \* Commander -> weight, 0 when it is not a commander
  policy,    \* "upgrade"/"grant" -> configured approval policy
  grantsOn,  \* the controller_grants flag
  \* main memory: lost in an upgrade
  timer,     \* _active_timer: the one pending resume
  inflight,  \* _inflight: until when the action is claimed, 0 when it is not
  exec,      \* Executor -> the phase it is suspended in, or None
  drafts,    \* proposals suspended before they are filed
  \* the environment
  now, faults, changes, upgrades

recordVars == <<status, filing, votes, path, progress, wake>>
configVars == <<weight, policy, grantsOn>>
volatileVars == <<timer, inflight, exec, drafts>>
envVars == <<now, faults, changes, upgrades>>
vars == <<recordVars, configVars, volatileVars, envVars>>

NoTimer == [aid |-> None, due |-> 0]
Armed(a, due) == [aid |-> a, due |-> due]
Unfiled == [kind |-> "upgrade", at |-> 0, seq |-> 0, override |-> None]

TypeOK ==
  /\ status \in [ActionId -> Status]
  /\ filing \in [ActionId -> Filing]
  /\ votes \in [ActionId -> SUBSET Commander]
  /\ path \in [ActionId -> {"none", "governance", "accelerant"}]
  /\ progress \in [ActionId -> Nat]
  /\ wake \in [ActionId -> Nat]
  /\ weight \in [Commander -> Weights]
  /\ policy \in [{"upgrade", "grant"} -> Policies]
  /\ grantsOn \in BOOLEAN
  /\ timer \in [aid : ActionId \cup {None}, due : Nat]
  /\ inflight \in [ActionId -> Nat]
  /\ exec \in [Executor -> Run \cup {None}]
  /\ drafts \subseteq Draft
  /\ now \in Nat /\ faults \in Nat /\ changes \in Nat /\ upgrades \in Nat

\* A new baton has no commander and the default policies; setting it up is not
\* counted against MaxChanges.
Init ==
  /\ status = [a \in ActionId |-> "ABSENT"]
  /\ filing = [a \in ActionId |-> Unfiled]
  /\ votes = [a \in ActionId |-> {}]
  /\ path = [a \in ActionId |-> "none"]
  /\ progress = [a \in ActionId |-> 0]
  /\ wake = [a \in ActionId |-> 0]
  /\ weight \in [Commander -> Weights]
  /\ policy \in [{"upgrade", "grant"} -> Policies]
  /\ grantsOn = FALSE
  /\ timer = NoTimer
  /\ inflight = [a \in ActionId |-> 0]
  /\ exec = [e \in Executor |-> None]
  /\ drafts = {}
  /\ now = 0 /\ faults = 0 /\ changes = 0 /\ upgrades = 0
-----------------------------------------------------------------------------
(* The index of open actions and expiry *)

IsOpen(a) == status[a] \in NonTerminal
Older(b, a) == filing[b].seq < filing[a].seq

\* action_expired: only an action that has not started expires.
Stale(a) ==
  /\ ExpiryAge > 0
  /\ status[a] \in {"PENDING", "APPROVED"}
  /\ now > filing[a].at + ExpiryAge

IsActive(a) == IsOpen(a) /\ ~Stale(a)
AnyActive == \E a \in ActionId : IsActive(a)

\* _active_action_id stops at the oldest action that is open and not stale;
\* the stale ones it meets before are saved EXPIRED.
IsFirstActive(a) == IsActive(a) /\ \A b \in ActionId : IsActive(b) => ~Older(b, a)
Swept ==
  [a \in ActionId |->
     IF Stale(a) /\ \A b \in ActionId : IsActive(b) => ~Older(b, a) THEN "EXPIRED" ELSE status[a]]

\* Mutant: nothing expires but through the sweep.
ExpireNever(st, a) == st

\* _expire_if_stale on the action a message is about.
ExpireIfStale(st, a) == IF Stale(a) THEN [st EXCEPT ![a] = "EXPIRED"] ELSE st
-----------------------------------------------------------------------------
(* Filing *)

PolicyKey(kind) == IF kind = "grant" THEN "grant" ELSE "upgrade"

\* Mutant: every override is measured against the upgrade policy.
PolicyHoldsForUpgrade(kind, override) ==
  override # None => AtLeastAsStrict(override, policy["upgrade"])

\* effective_approval_policy: a laxer override is refused, not ignored.
PolicyHolds(kind, override) ==
  override # None => AtLeastAsStrict(override, policy[PolicyKey(kind)])
Effective(kind, override) ==
  IF override = None THEN policy[PolicyKey(kind)] ELSE override

Filed == {a \in ActionId : status[a] # "ABSENT"}

File(a, kind, override) ==
  /\ status' = [Swept EXCEPT ![a] = "PENDING"]
  /\ filing' = [filing EXCEPT ![a] = [kind |-> kind, at |-> now,
                                      seq |-> Cardinality(Filed) + 1, override |-> override]]
  /\ \E d \in IF kind = "release" THEN ScheduleDelays ELSE {0} :
       /\ now + d <= MaxNow  \* bound: the clock gets there
       /\ wake' = [wake EXCEPT ![a] = now + d]
  /\ UNCHANGED <<votes, path, progress>>

\* propose_managed_upgrade and propose_controller_grant have no await.
Propose(a, kind, override) ==
  /\ kind \in Kinds \cap {"upgrade", "grant"}
  /\ kind = "grant" => grantsOn
  /\ ~AnyActive
  /\ PolicyHolds(kind, override)
  /\ status[a] = "ABSENT"
  /\ File(a, kind, override)
  /\ UNCHANGED <<configVars, volatileVars, envVars>>

\* propose_asset_provision, propose_release and propose_snapshot_restore check,
\* ask the store or a canister, check again and file.
BeginPropose(a, kind, override) ==
  /\ kind \in Kinds \cap {"provision", "release", "restore"}
  /\ Cardinality(drafts) < MaxDrafts
  /\ ~AnyActive
  /\ PolicyHolds(kind, override)
  /\ status[a] = "ABSENT"
  /\ status' = Swept
  /\ drafts' = drafts \cup {[aid |-> a, kind |-> kind, override |-> override]}
  /\ UNCHANGED <<filing, votes, path, progress, wake, configVars, timer, inflight, exec, envVars>>

\* Mutant: the open index is not looked at again after the await.
EndProposeUnchecked(d) ==
  /\ d \in drafts
  /\ drafts' = drafts \ {d}
  /\ status[d.aid] = "ABSENT" /\ File(d.aid, d.kind, d.override)
  /\ UNCHANGED <<configVars, timer, inflight, exec, envVars>>

EndPropose(d) ==
  /\ d \in drafts
  /\ drafts' = drafts \ {d}
  /\ \/ ~AnyActive /\ status[d.aid] = "ABSENT" /\ File(d.aid, d.kind, d.override)
     \/ /\ AnyActive \/ status[d.aid] # "ABSENT"
        /\ status' = Swept
        /\ UNCHANGED <<filing, votes, path, progress, wake>>
  /\ UNCHANGED <<configVars, timer, inflight, exec, envVars>>

\* A refused proposal or execute_action still saves the expiry of what it met.
Sweep ==
  /\ Swept # status
  /\ status' = Swept
  /\ UNCHANGED <<filing, votes, path, progress, wake, configVars, volatileVars, envVars>>
-----------------------------------------------------------------------------
(* Approval *)

SubmitApproval(c, a) ==
  LET eff == Effective(filing[a].kind, filing[a].override)
      all == votes[a] \cup {c}
  IN /\ status[a] = "PENDING" /\ ~Stale(a)
     /\ PolicyHolds(filing[a].kind, filing[a].override)
     /\ IsApprovalEligible(c, eff, weight)
     /\ c \notin votes[a]
     /\ votes' = [votes EXCEPT ![a] = all]
     /\ \/ /\ QuorumMet(all, eff, weight)
           /\ status' = [status EXCEPT ![a] = "APPROVED"]
           /\ path' = [path EXCEPT ![a] = "governance"]
           /\ timer' = Armed(a, now)
        \/ /\ ~QuorumMet(all, eff, weight)
           /\ UNCHANGED <<status, path, timer>>
     /\ UNCHANGED <<filing, progress, wake, configVars, inflight, exec, drafts, envVars>>

SubmitMultisigAccelerant(a) ==
  /\ status[a] = "PENDING" /\ ~Stale(a)
  /\ filing[a].kind # "grant"
  /\ path[a] = "none"
  /\ now >= filing[a].at + AccelerantAge
  /\ status' = [status EXCEPT ![a] = "APPROVED"]
  /\ path' = [path EXCEPT ![a] = "accelerant"]
  /\ timer' = Armed(a, now)
  /\ UNCHANGED <<filing, votes, progress, wake, configVars, inflight, exec, drafts, envVars>>

\* reject_action does not look at the age of the action.
RejectAction(a) ==
  /\ status[a] = "PENDING"
  /\ status' = [status EXCEPT ![a] = "REJECTED"]
  /\ UNCHANGED <<filing, votes, path, progress, wake, configVars, volatileVars, envVars>>

\* submit_approval and submit_multisig_accelerant on a stale action expire it.
ExpireOnTouch(a) ==
  /\ Stale(a)
  /\ status' = ExpireIfStale(status, a)
  /\ UNCHANGED <<filing, votes, path, progress, wake, configVars, volatileVars, envVars>>
-----------------------------------------------------------------------------
(* The executors *)

\* What _run_phase_gen and the kind's own pipeline save before the first await.
Entered(kind, s) ==
  IF s # "APPROVED" THEN s
  ELSE CASE kind = "upgrade"   -> "PRE_FLIGHT"
         [] kind = "provision" -> "PROVISIONING"
         [] kind = "restore"   -> "RESTORING"
         [] OTHER              -> "APPROVED"

\* A scheduled release and a baking action go back to sleep without an await.
MustWait(a, s, w) ==
  /\ w[a] > now
  /\ \/ filing[a].kind = "release" /\ s \in {"APPROVED", "FINALIZING"}
     \/ filing[a].kind = "upgrade" /\ s = "FINALIZING"

\* Mutant: an interrupted restore is simply run again.
CannotRunGrant(a, s) == filing[a].kind = "grant" /\ ~grantsOn

\* A restore found RESTORING was interrupted; a grant whose flag went off is refused.
CannotRun(a, s) ==
  \/ filing[a].kind = "restore" /\ s = "RESTORING"
  \/ filing[a].kind = "grant" /\ ~grantsOn

\* _execute_action_gen(a) up to its first await, run by message e on the saved
\* statuses st, the timer t and the wake-up times w.
BeginPhase(e, a, st, t, w) ==
  /\ wake' = w
  /\ \/ /\ st[a] \in Terminal \cup {"ABSENT", "PENDING"} \/ inflight[a] > now
        /\ status' = st /\ timer' = t
        /\ UNCHANGED <<inflight, exec>>
     \/ /\ st[a] \in NonTerminal \ {"PENDING"} /\ inflight[a] <= now
        /\ \/ /\ MustWait(a, st[a], w)
              /\ status' = st /\ timer' = Armed(a, w[a])
              /\ inflight' = [inflight EXCEPT ![a] = 0]
              /\ UNCHANGED exec
           \/ /\ CannotRun(a, st[a])
              /\ status' = [st EXCEPT ![a] = "NEEDS_ATTENTION"] /\ timer' = t
              /\ inflight' = [inflight EXCEPT ![a] = 0]
              /\ UNCHANGED exec
           \/ /\ ~MustWait(a, st[a], w) /\ ~CannotRun(a, st[a])
              /\ exec[e] = None
              /\ status' = [st EXCEPT ![a] = Entered(filing[a].kind, st[a])] /\ timer' = t
              /\ inflight' = [inflight EXCEPT ![a] = now + InflightTtl]
              /\ exec' = [exec EXCEPT ![e] = [aid |-> a, mode |-> "execute", progress |-> progress[a],
                                              status |-> Entered(filing[a].kind, st[a])]]
  /\ UNCHANGED <<filing, votes, path, progress, configVars, drafts, envVars>>

\* The resume timer fires; firing uses the timer up.
TimerTick(e) ==
  /\ timer.aid # None /\ timer.due <= now
  /\ BeginPhase(e, timer.aid, ExpireIfStale(status, timer.aid), NoTimer, wake)

ExecuteAction(e, a) ==
  /\ \A b \in ActionId : IsFirstActive(b) => b = a
  /\ BeginPhase(e, a, ExpireIfStale(Swept, a), timer, wake)

\* Top commander: end the bake window now. No guard on another executor.
SkipBakeAndComplete(e, a) ==
  /\ status[a] = "FINALIZING"
  /\ BeginPhase(e, a, status, timer, [wake EXCEPT ![a] = now])

\* Mutant: an abort does not look at the claim.
AbortUnclaimed(e, a) ==
  /\ filing[a].kind = "release"
  /\ status[a] \in NonTerminal \ {"PENDING"}
  /\ exec[e] = None
  /\ inflight' = [inflight EXCEPT ![a] = now + InflightTtl]
  /\ exec' = [exec EXCEPT ![e] = [aid |-> a, mode |-> "abort", status |-> status[a], progress |-> progress[a]]]
  /\ UNCHANGED <<recordVars, configVars, timer, drafts, envVars>>

AbortAction(e, a) ==
  /\ filing[a].kind = "release"
  /\ status[a] \in NonTerminal \ {"PENDING"}
  /\ inflight[a] <= now
  /\ exec[e] = None
  /\ inflight' = [inflight EXCEPT ![a] = now + InflightTtl]
  /\ exec' = [exec EXCEPT ![e] = [aid |-> a, mode |-> "abort", status |-> status[a], progress |-> progress[a]]]
  /\ UNCHANGED <<recordVars, configVars, timer, drafts, envVars>>

\* What a finished phase saves: <<status, progress>>.
ManagedNext(s) ==
  CASE s = "PRE_FLIGHT"   -> {"STOPPING", "REJECTED_PREFLIGHT"}
    [] s = "STOPPING"     -> {"SNAPSHOTTING", "FAILED_STOP"}
    [] s = "SNAPSHOTTING" -> {"UPGRADING", "FAILED_SNAPSHOT"}
    [] s = "STARTING"     -> {"VERIFYING", "REVERTED_PARTIAL_FAILURE"}
    [] s = "VERIFYING"    -> {"FINALIZING", "REVERTED_FAILED_VERIFY"}
    [] s = "FINALIZING"   -> {"COMPLETE", "REVERTED_FAILED_VERIFY"}
    [] OTHER              -> {}

\* Mutant: the batch cursor is reset once the last batch is in.
UpgradeResets(s, p) ==
  IF s # "UPGRADING" THEN {<<r, p>> : r \in ManagedNext(s)}
  ELSE IF p < Batches THEN {<<"UPGRADING", p + 1>>} ELSE {<<"STARTING", 0>>}

UpgradeOutcomes(s, p) ==
  IF s # "UPGRADING" THEN {<<r, p>> : r \in ManagedNext(s)}
  ELSE IF p < Batches THEN {<<"UPGRADING", p + 1>>} ELSE {<<"STARTING", p>>}

\* Mutant: the batch cursor is not moved on.
ProvisionAgain(p) == {<<"PROVISIONING", p>>}

ProvisionOutcomes(p) ==
  IF p < Batches THEN {<<"PROVISIONING", p + 1>>} ELSE {<<"COMPLETE", p>>}

\* The plan step at cursor p ends, or fails. A step that takes several messages
\* stands in ReleasePlan as several steps of one stage; bake and cleanup stand
\* as one step, with the bake's wait in front.
ReleaseOutcomes(p) ==
  LET advanced == IF p + 1 >= Len(ReleasePlan) THEN "COMPLETE" ELSE ReleasePlan[p + 2]
      failed == IF p = 0 THEN {"REJECTED_PREFLIGHT", "FAILED_STAGING"}
                ELSE IF p < WindowFrom THEN {"FAILED_STAGING"}
                ELSE IF p < Len(ReleasePlan) /\ ReleasePlan[p + 1] = "FINALIZING" THEN {"NEEDS_ATTENTION"}
                ELSE {"ROLLED_BACK", "NEEDS_ATTENTION"}
  IN {<<advanced, p + 1>>} \cup {<<r, p>> : r \in failed}

PhaseOutcomes(run) ==
  LET kind == filing[run.aid].kind
      p == run.progress
  IN IF run.mode = "revert" THEN {<<"REVERTED_PARTIAL_FAILURE", p>>}
     ELSE IF run.mode = "abort" THEN {<<r, p>> : r \in {"ABORTED", "ROLLED_BACK", "NEEDS_ATTENTION"}}
     ELSE CASE kind = "upgrade"   -> UpgradeOutcomes(run.status, p)
            [] kind = "provision" -> ProvisionOutcomes(p)
            [] kind = "release"   -> ReleaseOutcomes(p)
            [] kind = "restore"   -> {<<r, p>> : r \in {"COMPLETE", "ROLLED_BACK", "NEEDS_ATTENTION"}}
            [] OTHER              -> {<<r, p>> : r \in {"COMPLETE", "NEEDS_ATTENTION"}}

\* The last reply of the phase: the executor saves its own copy of the record,
\* moved on, and drops the claim whoever holds it by now.
EndPhase(e) ==
  /\ exec[e] # None
  /\ LET a == exec[e].aid IN
     /\ \E out \in PhaseOutcomes(exec[e]) :
          /\ status' = [status EXCEPT ![a] = out[1]]
          /\ progress' = [progress EXCEPT ![a] = out[2]]
          /\ wake' = IF out[1] = "FINALIZING" THEN [wake EXCEPT ![a] = now + BakeWindow] ELSE wake
          /\ timer' = IF out[1] \in Terminal THEN timer
                      ELSE Armed(a, IF out[1] = "FINALIZING" /\ filing[a].kind = "upgrade" THEN wake'[a] ELSE now)
     /\ inflight' = [inflight EXCEPT ![a] = 0]
  /\ exec' = [exec EXCEPT ![e] = None]
  /\ UNCHANGED <<filing, votes, path, configVars, drafts, envVars>>

\* A failed UPGRADING step is saved as it is before the revert's own calls.
BeginRevert(e) ==
  /\ exec[e] # None
  /\ exec[e].mode = "execute" /\ exec[e].status = "UPGRADING" /\ filing[exec[e].aid].kind = "upgrade"
  /\ status' = [status EXCEPT ![exec[e].aid] = "UPGRADING"]
  /\ progress' = [progress EXCEPT ![exec[e].aid] = exec[e].progress]
  /\ exec' = [exec EXCEPT ![e].mode = "revert"]
  /\ UNCHANGED <<filing, votes, path, wake, configVars, timer, inflight, drafts, envVars>>

\* An exception inside a phase: asset provisioning catches it and fails the
\* action, every other kind answers an error and leaves the record and the timer.
PhaseRaises(e) ==
  /\ exec[e] # None
  /\ faults < MaxFaults /\ faults' = faults + 1
  /\ LET a == exec[e].aid IN
     /\ status' = IF filing[a].kind = "provision" THEN [status EXCEPT ![a] = "FAILED_PROVISION"] ELSE status
     /\ inflight' = [inflight EXCEPT ![a] = 0]
  /\ exec' = [exec EXCEPT ![e] = None]
  /\ UNCHANGED <<filing, votes, path, progress, wake, configVars, timer, drafts, now, changes, upgrades>>

\* A trap in the callback, or a reply that never comes: the claim stays.
\* (Bound: only while the clock can still outrun the claim.)
LosePhase(e) ==
  /\ exec[e] # None
  /\ inflight[exec[e].aid] <= MaxNow
  /\ faults < MaxFaults /\ faults' = faults + 1
  /\ exec' = [exec EXCEPT ![e] = None]
  /\ UNCHANGED <<recordVars, configVars, timer, inflight, drafts, now, changes, upgrades>>
-----------------------------------------------------------------------------
(* Upgrade of the baton, configuration, time *)

\* Mutant: nothing is resumed after an upgrade.
UpgradeForgets ==
  /\ upgrades < MaxUpgrades /\ upgrades' = upgrades + 1
  /\ inflight' = [a \in ActionId |-> 0]
  /\ exec' = [e \in Executor |-> None]
  /\ drafts' = {}
  /\ timer' = NoTimer
  /\ UNCHANGED <<recordVars, configVars, now, faults, changes>>

\* main memory is lost; _scan_and_resume arms the oldest open action, PENDING or not.
UpgradeBaton ==
  /\ upgrades < MaxUpgrades /\ upgrades' = upgrades + 1
  /\ inflight' = [a \in ActionId |-> 0]
  /\ exec' = [e \in Executor |-> None]
  /\ drafts' = {}
  /\ \/ /\ \A a \in ActionId : ~IsOpen(a)
        /\ timer' = NoTimer
     \/ \E a \in ActionId :
          /\ IsOpen(a) /\ \A b \in ActionId : IsOpen(b) => ~Older(b, a)
          /\ timer' = Armed(a, IF status[a] = "FINALIZING" /\ wake[a] > now THEN wake[a] ELSE now)
  /\ UNCHANGED <<recordVars, configVars, now, faults, changes>>

\* add_commander, remove_commander, add_commander_via_policy.
SetCommander(c, w) ==
  /\ weight[c] # w
  /\ weight' = [weight EXCEPT ![c] = w]
  /\ UNCHANGED <<policy, grantsOn>>

\* set_config.
SetConfig ==
  \/ /\ \E k \in DOMAIN policy, p \in Policies : p # policy[k] /\ policy' = [policy EXCEPT ![k] = p]
     /\ UNCHANGED <<weight, grantsOn>>
  \/ /\ grantsOn' = ~grantsOn
     /\ UNCHANGED <<weight, policy>>

Configure ==
  /\ changes < MaxChanges /\ changes' = changes + 1
  /\ SetConfig \/ \E c \in Commander, w \in Weights : SetCommander(c, w)
  /\ UNCHANGED <<recordVars, volatileVars, now, faults, upgrades>>

\* Unless calls may be slow, no claim runs out under a suspended phase.
Tick ==
  /\ now < MaxNow /\ now' = now + 1
  /\ SlowCalls \/ \A e \in Executor : exec[e] # None => inflight[exec[e].aid] > now + 1
  /\ UNCHANGED <<recordVars, configVars, volatileVars, faults, changes, upgrades>>
-----------------------------------------------------------------------------
ProposeStep == \E a \in ActionId, k \in Kinds, o \in Overrides \cup {None} :
                 Propose(a, k, o) \/ BeginPropose(a, k, o)
VoteStep == \E a \in ActionId :
              \/ \E c \in Commander : SubmitApproval(c, a)
              \/ SubmitMultisigAccelerant(a) \/ RejectAction(a) \/ ExpireOnTouch(a)
CallStep == \E e \in Executor, a \in ActionId :
              ExecuteAction(e, a) \/ SkipBakeAndComplete(e, a) \/ AbortAction(e, a)
ReplyStep(e) == EndPhase(e) \/ BeginRevert(e) \/ PhaseRaises(e) \/ LosePhase(e)

Next ==
  \/ ProposeStep \/ (\E d \in drafts : EndPropose(d)) \/ Sweep
  \/ VoteStep \/ CallStep
  \/ (\E e \in Executor : TimerTick(e) \/ ReplyStep(e))
  \/ UpgradeBaton \/ Configure \/ Tick

Spec == Init /\ [][Next]_vars
-----------------------------------------------------------------------------
(* Fairness: timers fire, the IC delivers a response to every call, time passes. *)
(* Nobody is obliged to call the baton.                                      *)

DriveFairly ==
  /\ \A e \in Executor : WF_vars(EndPhase(e))
  /\ WF_vars(\E e \in Executor : TimerTick(e))
  /\ WF_vars(Tick)
FairSpec == Spec /\ DriveFairly

\* An operator who keeps calling execute_action while an action is unfinished.
Pump == \E e \in Executor, a \in ActionId : ExecuteAction(e, a)
PumpedSpec == FairSpec /\ WF_vars(Pump)
-----------------------------------------------------------------------------
(* Properties *)

Busy(e) == exec[e] # None
Started(e) == ~Busy(e) /\ exec'[e] # None

\* "Only one executor runs a phase of an action at a time": the inflight claim
\* keeps a timer tick, an operator and an abort apart.
OneExecutor ==
  \A e, f \in Executor : Busy(e) /\ Busy(f) /\ exec[e].aid = exec[f].aid => e = f

\* The baton takes one action at a time: every propose checks the open index,
\* the asynchronous ones again after their await, and nothing reopens an action.
AtMostOneOpen == \A a, b \in ActionId : IsOpen(a) /\ IsOpen(b) => a = b

\* While no phase has raised or lost its reply, an action under way always has
\* an executor or the pending timer: the single timer is never taken from it by
\* a tick that is refused, a hand-pumped phase or an upgrade of the baton.
SelfDriving ==
  faults = 0 => \A a \in ActionId : status[a] \in {"APPROVED"} \cup Running =>
                  timer.aid = a \/ \E e \in Executor : Busy(e) /\ exec[e].aid = a

\* A finished action stays as it finished: no vote, sweep, tick or late executor
\* moves it again.
TerminalIsFinal ==
  [][\A a \in ActionId : status[a] \in Terminal => status'[a] = status[a]]_vars

\* "Nothing is done twice": the saved cursor of an action never goes back, so no
\* batch is installed again on the word of an executor's older copy.
ProgressNeverLost ==
  [][\A a \in ActionId : progress'[a] >= progress[a]]_vars

\* A phase that may touch canisters begins only on an action somebody approved,
\* and never first begins one past its expiry.
StartsApprovedAndFresh ==
  [][\A e \in Executor :
       Started(e) => /\ path[exec'[e].aid] # "none"
                     /\ exec'[e].mode = "execute" => ~Stale(exec'[e].aid)]_vars

\* An interrupted restore is not re-run blindly: its calls begin once, from APPROVED.
RestoreBeginsOnce ==
  [][\A e \in Executor :
       Started(e) /\ filing[exec'[e].aid].kind = "restore" => status[exec'[e].aid] = "APPROVED"]_vars

\* An action is approved by votes only when the commanders registered now meet
\* the policy configured now: neither a proposal's own override, nor votes cast
\* under other weights or policies, lower that bar.
VotesMeetConfiguredPolicy ==
  [][\A a \in ActionId :
       path[a] = "none" /\ path'[a] = "governance" =>
         QuorumMet(votes'[a], policy[PolicyKey(filing[a].kind)], weight)]_vars

\* Hands off controllers unless its own commanders voted: no accelerated grant.
GrantsAreVoted ==
  \A a \in ActionId : filing[a].kind = "grant" => path[a] # "accelerant"

\* An approved action comes to an end.
EventuallyEnds ==
  \A a \in ActionId : status[a] = "APPROVED" ~> status[a] \in Terminal
=============================================================================
