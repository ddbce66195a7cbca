--------------------------- MODULE CommitteeProofs --------------------------
(***************************************************************************)
(* Theorems about the committee: who lets an action run (Multisig), for    *)
(* every set of principals, every set of signer changes and every bound;   *)
(* then that no canister is deleted before it was swept (CommitteeCalls),  *)
(* for every number of canisters, actions and rungs of the ladder.         *)
(***************************************************************************)
EXTENDS Committee, DataLemmas
-----------------------------------------------------------------------------
(* Who lets an action run *)


\* Each suspended runIfApproved belongs to one executing proposal, whose
\* approvals it holds, and knows whether the action has run.
CallsInStep ==
  /\ \A c \in calls : /\ status[c.id] = "executing"
                      /\ approvals[c.id] = c.approvals
                      /\ runs[c.id] = IF c.stage = "sent" THEN 0 ELSE 1
  /\ \A c, d \in calls : c.id = d.id => c = d

\* Ids from nextId on are still free.
FreshIds ==
  \A p \in Id : /\ p >= nextId => status[p] = "absent"
                /\ status[p] = "absent" => approvals[p] = {}

IInv == TypeOK /\ CommitteeCanDecide /\ RunsMatchOutcome /\ CallsInStep /\ FreshIds

\* runIfApproved keeps the types of what it stores.
LEMMA RunIfApprovedType ==
  ASSUME TypeOK, NEW p \in Id, NEW voters \in SUBSET Principal, RunIfApproved(p, voters)
  PROVE  /\ status' \in [Id -> Status]
         /\ approvals' \in [Id -> SUBSET Principal]
         /\ calls' \subseteq Calls
BY DEF TypeOK, RunIfApproved, Status, Calls

\* What runIfApproved changes: proposal p only, and at most one call is added.
LEMMA RunIfApprovedStep ==
  ASSUME TypeOK, NEW p \in Id, NEW voters \in SUBSET Principal, RunIfApproved(p, voters)
  PROVE  /\ approvals'[p] = voters
         /\ status'[p] \in {"pending", "executing"}
         /\ \A q \in Id \ {p} : status'[q] = status[q] /\ approvals'[q] = approvals[q]
         /\ \/ calls' = calls
            \/ /\ calls' = calls \cup {[id |-> p, approvals |-> voters, stage |-> "sent"]}
               /\ status'[p] = "executing"
               /\ QuorumOf(voters)
BY DEF TypeOK, RunIfApproved

\* The invariant holds when the committee is installed.
LEMMA InitIInv == Init => IInv
BY OtherAssumption DEF Init, IInv, TypeOK, CommitteeCanDecide, RunsMatchOutcome, CallsInStep, FreshIds,
     Status, Terms, Action

\* A vote on, or the filing of, a free or pending proposal keeps the invariant.
LEMMA RunIfApprovedIInv ==
  ASSUME IInv, NEW p \in Id, NEW voters \in SUBSET Principal, RunIfApproved(p, voters),
         status[p] \in {"absent", "pending"},
         UNCHANGED <<signers, threshold, runs, now, losses>>,
         nextId' \in Nat, nextId' >= nextId, p < nextId',
         terms' \in [Id -> Terms]
  PROVE  IInv'
<1> USE DEF IInv
<1>1. TypeOK' BY RunIfApprovedType DEF TypeOK
<1>2. CommitteeCanDecide' BY DEF CommitteeCanDecide
<1>3. RunsMatchOutcome'
  BY RunIfApprovedStep DEF RunsMatchOutcome, TypeOK
<1>4. CallsInStep'
  <2>1. \A c \in calls : c.id # p /\ c.id \in Id
    BY DEF CallsInStep, TypeOK, Calls
  <2>2. runs[p] = 0 BY DEF RunsMatchOutcome
  <2>3. CASE calls' = calls
    BY <2>1, <2>3, RunIfApprovedStep DEF CallsInStep
  <2>4. CASE /\ calls' = calls \cup {[id |-> p, approvals |-> voters, stage |-> "sent"]}
             /\ status'[p] = "executing"
    BY <2>1, <2>2, <2>4, RunIfApprovedStep DEF CallsInStep
  <2> QED BY <2>3, <2>4, RunIfApprovedStep
<1>5. FreshIds'
  BY RunIfApprovedStep DEF FreshIds, TypeOK, Id
<1> QED BY <1>1, <1>2, <1>3, <1>4, <1>5

\* Every step keeps the invariant.
LEMMA NextIInv == IInv /\ [Next]_vars => IInv'
<1> SUFFICES ASSUME IInv, [Next]_vars PROVE IInv'
  OBVIOUS
<1> USE DEF IInv
<1>1. ASSUME NEW ss \in SUBSET Principal, NEW th \in 1..Cardinality(Principal), Configure(ss, th)
      PROVE  IInv'
  BY <1>1 DEF Configure, Valid, TypeOK, CommitteeCanDecide, RunsMatchOutcome, CallsInStep, FreshIds
<1>2. ASSUME NEW c \in Principal, NEW action \in Action, NEW secs \in ExpirySecs, Propose(c, action, secs)
      PROVE  IInv'
  <2>1. nextId \in Id /\ nextId' = nextId + 1 /\ RunIfApproved(nextId, {c})
    BY <1>2 DEF Propose
  <2>2. status[nextId] = "absent" BY <2>1 DEF FreshIds, TypeOK
  <2>3. terms' \in [Id -> Terms]
    BY <1>2, ExpiryAssumption DEF Propose, TypeOK, Terms
  <2> QED BY <1>2, <2>1, <2>2, <2>3, RunIfApprovedIInv DEF Propose, TypeOK
<1>3. ASSUME NEW c \in Principal, NEW p \in Id, Approve(c, p)
      PROVE  IInv'
  <2>1. CASE status' = [status EXCEPT ![p] = "expired"] /\ UNCHANGED <<approvals, calls>>
    BY <1>3, <2>1 DEF Approve, TypeOK, CommitteeCanDecide, RunsMatchOutcome, CallsInStep, FreshIds, Status, Final, Calls
  <2>2. CASE RunIfApproved(p, approvals[p] \cup {c})
    <3>1. p < nextId BY <1>3 DEF Approve, FreshIds, TypeOK, Id
    <3> QED BY <1>3, <2>2, <3>1, RunIfApprovedIInv DEF Approve, TypeOK
  <2> QED BY <1>3, <2>1, <2>2 DEF Approve
<1>4. ASSUME NEW c \in Principal, NEW p \in Id, Reject(c, p)
      PROVE  IInv'
  BY <1>4 DEF Reject, TypeOK, CommitteeCanDecide, RunsMatchOutcome, CallsInStep, FreshIds, Status, Final, Calls
<1>5. ASSUME NEW c \in calls, ManageSigners(c) \/ CallOthers(c)
      PROVE  IInv'
  <2>1. c \in Calls /\ c.stage = "sent" /\ runs[c.id] = 0 /\ status[c.id] = "executing"
    BY <1>5 DEF TypeOK, CallsInStep, ManageSigners, CallOthers
  <2>2. /\ \E stage \in {"ok", "err"} : calls' = (calls \ {c}) \cup {[c EXCEPT !.stage = stage]}
        /\ runs' = [runs EXCEPT ![c.id] = @ + 1]
        /\ UNCHANGED <<nextId, status, approvals, terms, now, losses>>
    BY <1>5 DEF ManageSigners, CallOthers, Answered
  <2>3. signers' \subseteq Principal /\ threshold' \in Nat /\ CommitteeCanDecide'
    <3>1. CASE CallOthers(c) BY <3>1 DEF CallOthers, CommitteeCanDecide, TypeOK
    <3>2. CASE ManageSigners(c)
      <4>1. terms[c.id].action \in [add : SUBSET Principal, remove : SUBSET Principal, threshold : Nat]
        BY <2>1, <3>2, ChangesAssumption DEF ManageSigners, TypeOK, Terms, Action, Calls
      <4> QED BY <3>2, <4>1 DEF ManageSigners, Valid, NewSigners, NewThreshold, CommitteeCanDecide, TypeOK
    <3> QED BY <1>5, <3>1, <3>2
  <2>4. TypeOK' BY <2>1, <2>2, <2>3 DEF TypeOK, Calls
  <2>5. RunsMatchOutcome' BY <2>1, <2>2 DEF RunsMatchOutcome, TypeOK, Calls
  <2>6. CallsInStep' BY <2>1, <2>2 DEF CallsInStep, TypeOK, Calls
  <2>7. FreshIds' BY <2>2 DEF FreshIds
  <2> QED BY <2>3, <2>4, <2>5, <2>6, <2>7
<1>6. ASSUME NEW c \in calls, StoreOutcome(c)
      PROVE  IInv'
  BY <1>6 DEF StoreOutcome, TypeOK, CommitteeCanDecide, RunsMatchOutcome, CallsInStep, FreshIds, Calls, Status, Final
<1>7. ASSUME NEW c \in calls, LoseCall(c)
      PROVE  IInv'
  BY <1>7 DEF LoseCall, TypeOK, CommitteeCanDecide, RunsMatchOutcome, CallsInStep, FreshIds
<1>8. CASE Tick
  BY <1>8 DEF Tick, TypeOK, CommitteeCanDecide, RunsMatchOutcome, CallsInStep, FreshIds
<1>9. CASE UNCHANGED vars
  BY <1>9 DEF vars, TypeOK, CommitteeCanDecide, RunsMatchOutcome, CallsInStep, FreshIds
<1> QED BY <1>1, <1>2, <1>3, <1>4, <1>5, <1>6, <1>7, <1>8, <1>9 DEF Next, SignerStep, CallStep

\* The inductive invariant, of which the invariants below are parts.
THEOREM Inductive == Spec => []IInv
BY InitIInv, NextIInv, PTL DEF Spec

\* Every variable of the committee keeps its type.
THEOREM TypeCorrect == Spec => []TypeOK
<1>1. IInv => TypeOK BY DEF IInv
<1> QED BY <1>1, Inductive, PTL

\* The committee is never locked out: runIfApproved may change the signers in a
\* message of its own, but only to a set that can meet its threshold.
THEOREM NeverLockedOut == Spec => []CommitteeCanDecide
<1>1. IInv => CommitteeCanDecide BY DEF IInv
<1> QED BY <1>1, Inductive, PTL

\* No proposal's action runs twice, and none runs that was not approved.
THEOREM RunsOnce == Spec => []RunsMatchOutcome
<1>1. IInv => RunsMatchOutcome BY DEF IInv
<1> QED BY <1>1, Inductive, PTL

\* Decisions are final, whatever reply comes late.
THEOREM DecidedOnce == Spec => DecisionIsFinal
<1> DEFINE Kept == \A p \in Id : /\ status[p] \in Final => status'[p] = status[p]
                                 /\ approvals[p] \subseteq approvals'[p]
<1>1. ASSUME IInv, [Next]_vars PROVE [Kept]_vars
  <2> USE <1>1 DEF IInv, Final
  <2>1. ASSUME NEW c \in Principal, NEW action \in Action, NEW secs \in ExpirySecs, Propose(c, action, secs)
        PROVE  Kept
    BY <2>1, RunIfApprovedStep DEF Propose, FreshIds, TypeOK
  <2>2. ASSUME NEW c \in Principal, NEW p \in Id, Approve(c, p) \/ Reject(c, p)
        PROVE  Kept
    <3>1. approvals[p] \cup {c} \in SUBSET Principal BY <2>2 DEF TypeOK
    <3>2. CASE RunIfApproved(p, approvals[p] \cup {c}) /\ status[p] = "pending"
      BY <3>1, <3>2, RunIfApprovedStep
    <3>3. CASE status[p] = "pending" /\ UNCHANGED approvals
               /\ status' \in {[status EXCEPT ![p] = s] : s \in {"expired", "rejected"}}
      BY <3>3 DEF TypeOK
    <3> QED BY <2>2, <3>2, <3>3 DEF Approve, Reject
  <2>3. ASSUME NEW c \in calls, CallStep(c)
        PROVE  Kept
    <3>1. CASE StoreOutcome(c) BY <3>1 DEF StoreOutcome, CallsInStep, TypeOK, Calls
    <3> QED BY <2>3, <3>1 DEF CallStep, ManageSigners, CallOthers, LoseCall
  <2> QED BY <2>1, <2>2, <2>3 DEF Next, SignerStep, Configure, Tick, vars
<1> QED BY <1>1, Inductive, PTL DEF Spec, DecisionIsFinal

\* An action is sent only on the word of enough signers of that moment, in time.
THEOREM QuorumSends == Spec => SentWithQuorum
<1> DEFINE Heard == \A c \in calls' \ calls :
                      c.stage = "sent" => /\ Cardinality(approvals'[c.id] \cap signers) >= threshold
                                          /\ now <= terms'[c.id].expires
<1>1. ASSUME IInv, [Next]_vars PROVE [Heard]_vars
  <2> USE <1>1 DEF IInv
  <2>1. ASSUME NEW c \in Principal, NEW action \in Action, NEW secs \in ExpirySecs, Propose(c, action, secs)
        PROVE  Heard
    <3>1. terms'[nextId].expires = now + secs /\ RunIfApproved(nextId, {c}) /\ nextId \in Id
      BY <2>1 DEF Propose, TypeOK
    <3>2. secs \in Nat /\ now \in Nat /\ {c} \in SUBSET Principal
      BY ExpiryAssumption DEF TypeOK
    <3>3. /\ approvals'[nextId] = {c}
          /\ calls' \subseteq calls \cup {[id |-> nextId, approvals |-> {c}, stage |-> "sent"]}
          /\ calls' # calls => Cardinality({c} \cap signers) >= threshold
      BY <3>1, <3>2, RunIfApprovedStep DEF QuorumOf
    <3>4. ASSUME NEW d \in calls' \ calls PROVE d.id = nextId /\ calls' # calls
      BY <3>3
    <3>5. now <= terms'[nextId].expires BY <3>1, <3>2
    <3>6. calls' # calls => Cardinality(approvals'[nextId] \cap signers) >= threshold BY <3>3
    <3> QED BY <3>4, <3>5, <3>6
  <2>2. ASSUME NEW c \in Principal, NEW p \in Id, Approve(c, p)
        PROVE  Heard
    <3>1. approvals[p] \cup {c} \in SUBSET Principal BY DEF TypeOK
    <3>2. CASE RunIfApproved(p, approvals[p] \cup {c})
      <4> DEFINE all == approvals[p] \cup {c}
      <4>1. /\ approvals'[p] = all
            /\ calls' \subseteq calls \cup {[id |-> p, approvals |-> all, stage |-> "sent"]}
            /\ calls' # calls => Cardinality(all \cap signers) >= threshold
        BY <3>1, <3>2, RunIfApprovedStep DEF QuorumOf
      <4>2. terms' = terms /\ now <= terms[p].expires
        BY <2>2, <3>2, RunIfApprovedStep DEF Approve, TypeOK, FreshIds
      <4> QED BY <4>1, <4>2
    <3> QED BY <2>2, <3>2 DEF Approve
  <2>3. ASSUME NEW c \in calls, CallStep(c)
        PROVE  Heard
    <3>1. CASE ManageSigners(c) \/ CallOthers(c)
      BY <3>1 DEF ManageSigners, CallOthers, Answered, TypeOK, Calls
    <3> QED BY <2>3, <3>1 DEF CallStep, StoreOutcome, LoseCall
  <2> QED BY <2>1, <2>2, <2>3 DEF Next, SignerStep, Configure, Reject, Tick, vars
<1> QED BY <1>1, Inductive, PTL DEF Spec, SentWithQuorum

-----------------------------------------------------------------------------
(* What burns with a canister *)

\* A canister holds cycles.
Holds(m) == {"cycles", "floor"} \subseteq DOMAIN m /\ m.cycles \in Nat /\ m.floor \in Nat
Machines == DOMAIN ic = Target /\ \A t \in Target : Holds(ic[t])

\* An action that empties a canister before it is deleted.
Emptying == {"thaw", "reinstall", "start", "status", "sweep", "stop", "delete"}
Work(r) ==
  /\ "at" \in DOMAIN r /\ (r.at = "tidy" => "result" \in DOMAIN r /\ r.result \in {"ok", "err"})
  /\ r.at \in {"destroy"} \cup Emptying => "ids" \in DOMAIN r /\ r.ids \in Seq(Target) /\ r.ids # <<>>
  /\ r.at \in Emptying =>
       /\ {"rung", "seen", "late"} \subseteq DOMAIN r
       /\ r.rung \in 1..Len(Ladder) /\ r.seen \in Nat /\ r.late \in Nat

\* What the canister has beside what came late: what was seen before the sweep, the
\* reserve after it.
Emptied(r, c) ==
  /\ r.at = "sweep" => r.seen > Ladder[r.rung] /\ c <= r.seen + r.late
  /\ r.at \in {"stop", "delete"} => c <= Ladder[r.rung] + r.late

SweptInv ==
  /\ Machines
  /\ DOMAIN doing = Slots /\ \A q \in Slots : Work(doing[q])
  /\ \A q \in Slots : doing[q].at \in Emptying => Emptied(doing[q], ic[Doomed(q)].cycles)
  /\ DOMAIN burnt = Target /\ \A t \in Target : burnt[t] \in Nat
  /\ SweptBeforeDeleted

\* The last rung is the highest.
LEMMA LastRung ==
  /\ Len(Ladder) \in Nat \ {0} /\ Last(Ladder) = Ladder[Len(Ladder)]
  /\ \A i \in 1..Len(Ladder) : Ladder[i] \in Nat /\ Ladder[i] <= Last(Ladder)
<1> DEFINE n == Len(Ladder)
           S == {k \in 0..(n - 1) : Ladder[n - k] > Ladder[n]}
<1>1. n \in Nat \ {0} /\ (\A i \in 1..n : Ladder[i] \in Nat) /\ \A i \in 2..n : Ladder[i - 1] < Ladder[i]
  BY LadderAssumption
<1>2. Last(Ladder) = Ladder[n] BY DEF Last
<1>3. S = {}
  <2>1. SUFFICES ASSUME S # {} PROVE FALSE OBVIOUS
  <2>2. S \subseteq Nat BY <1>1
  <2>3. PICK k \in S : \A m \in S : k <= m BY <2>1, <2>2, LeastNatural
  <2>4. k \in 0..(n - 1) /\ Ladder[n - k] > Ladder[n] BY <2>3
  <2>5. k # 0 BY <1>1, <2>4
  <2>6. k - 1 \in 0..(n - 1) /\ ~(k <= k - 1) BY <1>1, <2>4, <2>5
  <2>7. k - 1 \notin S BY <2>3, <2>6
  <2>8. ~(Ladder[n - (k - 1)] > Ladder[n]) BY <2>6, <2>7
  <2>9. n - (k - 1) \in 2..n /\ (n - (k - 1)) - 1 = n - k /\ n - k \in 1..n BY <1>1, <2>4, <2>5
  <2>10. Ladder[n - k] < Ladder[n - (k - 1)] BY <1>1, <2>9
  <2>11. Ladder[n - k] \in Nat /\ Ladder[n - (k - 1)] \in Nat /\ Ladder[n] \in Nat BY <1>1, <2>9
  <2> QED BY <2>4, <2>8, <2>10, <2>11
<1>4. ASSUME NEW i \in 1..n PROVE Ladder[i] <= Ladder[n]
  <2>1. n - i \in 0..(n - 1) /\ n - (n - i) = i BY <1>1
  <2>2. ~(Ladder[n - (n - i)] > Ladder[n]) BY <1>3, <2>1
  <2>3. Ladder[i] \in Nat /\ Ladder[n] \in Nat BY <1>1
  <2> QED BY <2>1, <2>2, <2>3
<1> QED BY <1>1, <1>2, <1>4

\* An action that empties a canister goes on with the same one: what it remembers.
LEMMA EmptyingOn ==
  ASSUME NEW q, Work(doing[q]), doing[q].at \in Emptying, NEW at \in Emptying
  PROVE  /\ LET d == On(q, at, <<>>)
            IN Work(d) /\ d.at = at /\ d.ids = doing[q].ids /\ d.rung = doing[q].rung /\ d.seen = doing[q].seen
               /\ d.late = doing[q].late
         /\ \A n \in Nat : LET d == On(q, at, [seen |-> n, late |-> 0])
                           IN Work(d) /\ d.at = at /\ d.ids = doing[q].ids /\ d.rung = doing[q].rung /\ d.seen = n
                              /\ d.late = 0
         /\ \A k \in 1..Len(Ladder) : LET d == On(q, at, [rung |-> k])
                                      IN Work(d) /\ d.at = at /\ d.ids = doing[q].ids
<1> DEFINE r == doing[q]
<1>1. /\ {"at", "ids", "rung", "seen", "late"} \subseteq DOMAIN r
      /\ r.ids \in Seq(Target) /\ r.ids # <<>> /\ r.rung \in 1..Len(Ladder) /\ r.seen \in Nat /\ r.late \in Nat
  BY DEF Work
<1>0. "at" \in DOMAIN doing[q] BY <1>1
<1>2. Work(On(q, at, <<>>)) /\ On(q, at, <<>>).at = at /\ On(q, at, <<>>).ids = r.ids
      /\ On(q, at, <<>>).rung = r.rung /\ On(q, at, <<>>).seen = r.seen /\ On(q, at, <<>>).late = r.late
  <2> DEFINE d == On(q, at, <<>>)
  <2>1. DOMAIN <<>> = {} OBVIOUS
  <2>2. DOMAIN d = DOMAIN r /\ d.at = at /\ \A x \in DOMAIN r \ {"at"} : d[x] = r[x]
    <3>1. "at" \notin DOMAIN <<>> BY <2>1
    <3> QED BY <1>0, <2>1, <3>1 DEF On, With
  <2>3. d.ids = r.ids /\ d.rung = r.rung /\ d.seen = r.seen /\ d.late = r.late BY <1>1, <2>2
  <2> HIDE DEF d
  <2>4. Work(d) BY <1>1, <2>2, <2>3 DEF Work, Emptying
  <2> QED BY <2>2, <2>3, <2>4 DEF d
<1>3. ASSUME NEW n \in Nat
      PROVE  LET d == On(q, at, [seen |-> n, late |-> 0])
             IN Work(d) /\ d.at = at /\ d.ids = r.ids /\ d.rung = r.rung /\ d.seen = n /\ d.late = 0
  <2> DEFINE m == [seen |-> n, late |-> 0]
             d == On(q, at, m)
  <2>1. DOMAIN m = {"seen", "late"} /\ m["seen"] = n /\ m["late"] = 0 OBVIOUS
  <2> HIDE DEF m
  <2>2. /\ DOMAIN d = DOMAIN m \cup DOMAIN r /\ d.at = at /\ \A x \in DOMAIN m : d[x] = m[x]
        /\ \A x \in DOMAIN r \ (DOMAIN m \cup {"at"}) : d[x] = r[x]
    <3>1. "at" \notin DOMAIN m BY <2>1
    <3> QED BY <1>0, <3>1 DEF On, With
  <2>3. d.ids = r.ids /\ d.rung = r.rung /\ d.seen = n /\ d.late = 0 BY <1>1, <2>1, <2>2
  <2> HIDE DEF d
  <2>4. Work(d) BY <1>1, <2>1, <2>2, <2>3 DEF Work, Emptying
  <2> QED BY <2>2, <2>3, <2>4 DEF d, m
<1>4. ASSUME NEW k \in 1..Len(Ladder)
      PROVE  LET d == On(q, at, [rung |-> k]) IN Work(d) /\ d.at = at /\ d.ids = r.ids
  <2> DEFINE m == [rung |-> k]
             d == On(q, at, m)
  <2>1. DOMAIN m = {"rung"} /\ m["rung"] = k OBVIOUS
  <2> HIDE DEF m
  <2>2. /\ DOMAIN d = DOMAIN m \cup DOMAIN r /\ d.at = at /\ \A x \in DOMAIN m : d[x] = m[x]
        /\ \A x \in DOMAIN r \ (DOMAIN m \cup {"at"}) : d[x] = r[x]
    <3>1. "at" \notin DOMAIN m BY <2>1
    <3> QED BY <1>0, <3>1 DEF On, With
  <2>3. d.ids = r.ids /\ d.rung = k /\ d.seen = r.seen /\ d.late = r.late BY <1>1, <2>1, <2>2
  <2> HIDE DEF d
  <2>4. Work(d) BY <1>1, <2>1, <2>2, <2>3 DEF Work, Emptying
  <2> QED BY <2>2, <2>3, <2>4 DEF d, m
<1> QED BY <1>2, <1>3, <1>4

\* A call about a canister that takes cycles from none.
LEMMA CallKeeps ==
  ASSUME Machines, NEW t, NEW after, t \in Target => Holds(after) /\ after.cycles <= ic[t].cycles,
         ic' = ic \/ ic' = [ic EXCEPT ![t] = after]
  PROVE  Machines' /\ \A u \in Target : ic'[u].cycles <= ic[u].cycles
<1>1. \A u \in Target : Holds(ic[u]) /\ ic[u].cycles <= ic[u].cycles BY DEF Machines, Holds
<1>2. DOMAIN ic' = Target /\ \A u \in Target : ic'[u] = ic[u] \/ (u = t /\ ic'[u] = after) BY DEF Machines
<1> QED BY <1>1, <1>2 DEF Machines

\* One action goes on, and no canister has more cycles than before.
LEMMA OneGoesOn ==
  ASSUME SweptInv, NEW q \in Slots, NEW d, Work(d), doing' = [doing EXCEPT ![q] = d],
         Machines', \A t \in Target : ic'[t].cycles <= ic[t].cycles, burnt' = burnt,
         d.at \in Emptying => Emptied(d, ic'[Head(d.ids)].cycles)
  PROVE  SweptInv'
<1>1. DOMAIN doing' = Slots /\ \A p \in Slots : doing'[p] = (IF p = q THEN d ELSE doing[p]) BY DEF SweptInv
<1>2. \A p \in Slots : Work(doing'[p]) BY <1>1 DEF SweptInv
<1>3. ASSUME NEW p \in Slots, doing'[p].at \in Emptying PROVE Emptied(doing'[p], ic'[Head(doing'[p].ids)].cycles)
  <2>1. CASE p = q BY <1>1, <1>3, <2>1
  <2>2. CASE p # q
    <3> DEFINE r == doing[p]
               t == Head(r.ids)
    <3>1. doing'[p] = r BY <1>1, <2>2
    <3>2. Work(r) /\ r.at \in Emptying /\ Emptied(r, ic[t].cycles) BY <1>3, <3>1 DEF SweptInv, Doomed
    <3>3. r.ids \in Seq(Target) /\ r.ids # <<>> /\ r.rung \in 1..Len(Ladder) /\ r.seen \in Nat /\ r.late \in Nat
      BY <3>2 DEF Work
    <3>4. t \in Target /\ Ladder[r.rung] \in Nat BY <3>3, LastRung
    <3>5. ic'[t].cycles <= ic[t].cycles /\ ic'[t].cycles \in Nat /\ ic[t].cycles \in Nat
      BY <3>4 DEF SweptInv, Machines, Holds
    <3> HIDE DEF t, r
    <3>6. PICK was, is, most : was = ic[t].cycles /\ is = ic'[t].cycles /\ most = Ladder[r.rung] OBVIOUS
    <3>7. PICK seen, late : seen = r.seen /\ late = r.late OBVIOUS
    <3>8. /\ r.at = "sweep" => seen > most /\ was <= seen + late
          /\ r.at \in {"stop", "delete"} => was <= most + late
      BY <3>2, <3>6, <3>7 DEF Emptied
    <3>9. (was <= seen + late => is <= seen + late) /\ (was <= most + late => is <= most + late)
      <4>1. was \in Nat /\ is \in Nat /\ most \in Nat /\ seen \in Nat /\ late \in Nat /\ is <= was
        BY <3>3, <3>4, <3>5, <3>6, <3>7
      <4> QED BY <4>1
    <3>10. Emptied(r, ic'[t].cycles) BY <3>6, <3>7, <3>8, <3>9 DEF Emptied
    <3> QED BY <3>1, <3>10 DEF t
  <2> QED BY <2>1, <2>2
<1>4. SweptBeforeDeleted' /\ DOMAIN burnt' = Target /\ \A t \in Target : burnt'[t] \in Nat
  BY DEF SweptInv, SweptBeforeDeleted
<1> QED BY <1>1, <1>2, <1>3, <1>4 DEF SweptInv, Doomed

\* An action that empties no canister.
LEMMA OtherGoesOn ==
  ASSUME SweptInv, NEW q \in Slots, NEW d, "at" \in DOMAIN d, d.at \notin {"destroy"} \cup Emptying, d.at = "tidy" => "result" \in DOMAIN d /\ d.result \in {"ok", "err"},
         doing' = [doing EXCEPT ![q] = d], Machines', \A t \in Target : ic'[t].cycles <= ic[t].cycles, burnt' = burnt
  PROVE  SweptInv'
<1>1. Work(d) BY DEF Work
<1> QED BY <1>1, OneGoesOn
\* A call that leaves the cycles alone.
LEMMA PlainCall ==
  ASSUME Machines, NEW t, NEW c, NEW w, NEW a
  PROVE  t \in Target =>
           /\ Holds(ic[t]) /\ ic[t].cycles <= ic[t].cycles
           /\ LET m == [ic[t] EXCEPT !.chunks = c] IN Holds(m) /\ m.cycles <= ic[t].cycles
           /\ LET m == [ic[t] EXCEPT !.code = w] IN Holds(m) /\ m.cycles <= ic[t].cycles
           /\ LET m == [ic[t] EXCEPT !.admins = a] IN Holds(m) /\ m.cycles <= ic[t].cycles
           /\ LET m == [ic[t] EXCEPT !.runs = a] IN Holds(m) /\ m.cycles <= ic[t].cycles
           /\ LET m == [ic[t] EXCEPT !.frozen = a] IN Holds(m) /\ m.cycles <= ic[t].cycles
           /\ LET m == [ic[t] EXCEPT !.code = w, !.chunks = c] IN Holds(m) /\ m.cycles <= ic[t].cycles
<1>1. SUFFICES ASSUME t \in Target
      PROVE  /\ Holds(ic[t]) /\ ic[t].cycles <= ic[t].cycles
             /\ LET m == [ic[t] EXCEPT !.chunks = c] IN Holds(m) /\ m.cycles <= ic[t].cycles
             /\ LET m == [ic[t] EXCEPT !.code = w] IN Holds(m) /\ m.cycles <= ic[t].cycles
             /\ LET m == [ic[t] EXCEPT !.admins = a] IN Holds(m) /\ m.cycles <= ic[t].cycles
             /\ LET m == [ic[t] EXCEPT !.runs = a] IN Holds(m) /\ m.cycles <= ic[t].cycles
             /\ LET m == [ic[t] EXCEPT !.frozen = a] IN Holds(m) /\ m.cycles <= ic[t].cycles
             /\ LET m == [ic[t] EXCEPT !.code = w, !.chunks = c] IN Holds(m) /\ m.cycles <= ic[t].cycles
  OBVIOUS
<1>2. PICK r : r = ic[t] OBVIOUS
<1>3. {"cycles", "floor"} \subseteq DOMAIN r /\ r.cycles \in Nat /\ r.floor \in Nat /\ r.cycles <= r.cycles
  BY <1>1, <1>2 DEF Machines, Holds
<1>4. LET m == [r EXCEPT !.chunks = c] IN Holds(m) /\ m.cycles <= r.cycles BY <1>3 DEF Holds
<1>5. LET m == [r EXCEPT !.code = w] IN Holds(m) /\ m.cycles <= r.cycles BY <1>3 DEF Holds
<1>6. LET m == [r EXCEPT !.admins = a] IN Holds(m) /\ m.cycles <= r.cycles BY <1>3 DEF Holds
<1>7. LET m == [r EXCEPT !.runs = a] IN Holds(m) /\ m.cycles <= r.cycles BY <1>3 DEF Holds
<1>8. LET m == [r EXCEPT !.frozen = a] IN Holds(m) /\ m.cycles <= r.cycles BY <1>3 DEF Holds
<1>9. LET m == [r EXCEPT !.code = w, !.chunks = c] IN Holds(m) /\ m.cycles <= r.cycles BY <1>3 DEF Holds
<1> QED BY <1>2, <1>3, <1>4, <1>5, <1>6, <1>7, <1>8, <1>9 DEF Holds

\* The actions that empty no canister, and the loss of any.
LEMMA OtherSteps ==
  ASSUME SweptInv, NEW q \in Slots,
         \/ LoseAction(q) \/ RefuseItself(q)
         \/ ReadStore(q) \/ ClearChunks(q) \/ UploadPiece(q) \/ FetchPiece(q) \/ InstallPieces(q) \/ TidyChunks(q)
         \/ InstallBaton(q) \/ ReadSettings(q) \/ WriteSettings(q) \/ SetControllers(q) \/ ApplySheet(q)
         \/ AskBaton(q) \/ AskConductor(q) \/ AskCanister(q)
  PROVE  SweptInv'
<1> DEFINE Elsewhither(d) ==
             /\ "at" \in DOMAIN d /\ d.at \notin {"destroy"} \cup Emptying
             /\ d.at = "tidy" => "result" \in DOMAIN d /\ d.result \in {"ok", "err"}
<1>1. Machines /\ "at" \in DOMAIN doing[q] BY DEF SweptInv, Work
<1>2. ASSUME NEW d, Elsewhither(d), Goes(q, d), ic' = ic, burnt' = burnt PROVE SweptInv'
  <2>1. Machines' /\ \A u \in Target : ic'[u].cycles <= ic[u].cycles BY <1>1, <1>2 DEF Machines, Holds
  <2>2. "at" \in DOMAIN d /\ d.at \notin {"destroy"} \cup Emptying /\ (d.at = "tidy" => "result" \in DOMAIN d /\ d.result \in {"ok", "err"}) BY <1>2
  <2> HIDE DEF Elsewhither
  <2> QED BY <1>2, <2>1, <2>2, OtherGoesOn DEF Goes
<1>3. ASSUME NEW d, Elsewhither(d), Goes(q, d), burnt' = burnt, NEW t, NEW after,
             t \in Target => Holds(after) /\ after.cycles <= ic[t].cycles,
             ic' = ic \/ ic' = [ic EXCEPT ![t] = after]
      PROVE  SweptInv'
  <2>1. Machines' /\ \A u \in Target : ic'[u].cycles <= ic[u].cycles BY <1>1, <1>3, CallKeeps
  <2>2. "at" \in DOMAIN d /\ d.at \notin {"destroy"} \cup Emptying /\ (d.at = "tidy" => "result" \in DOMAIN d /\ d.result \in {"ok", "err"}) BY <1>3
  <2> HIDE DEF Elsewhither
  <2> QED BY <1>3, <2>1, <2>2, OtherGoesOn DEF Goes
<1> HIDE DEF Elsewhither
<1>4. \A x : x \notin {"destroy", "tidy"} \cup Emptying => Elsewhither([at |-> x]) BY DEF Elsewhither
<1>5. /\ \A x \in {"clear", "install", "fetch"} : Elsewhither(On(q, x, <<>>))
      /\ \A i : Elsewhither(On(q, "upload", [piece |-> i])) /\ Elsewhither(On(q, "write", [read |-> i]))
  <2>1. \A x \in {"clear", "install", "fetch", "upload", "write"} : x \notin {"destroy", "tidy"} \cup Emptying BY DEF Emptying
  <2>2. \A x \in {"clear", "install", "fetch"} : "at" \in DOMAIN On(q, x, <<>>) /\ On(q, x, <<>>).at = x
    BY <1>1 DEF On, With
  <2>3. \A i : "at" \in DOMAIN On(q, "upload", [piece |-> i]) /\ On(q, "upload", [piece |-> i]).at = "upload"
    BY <1>1 DEF On, With
  <2>4. \A i : "at" \in DOMAIN On(q, "write", [read |-> i]) /\ On(q, "write", [read |-> i]).at = "write"
    BY <1>1 DEF On, With
  <2> QED BY <2>1, <2>2, <2>3, <2>4 DEF Elsewhither
<1>6. Elsewhither([at |-> "ok"]) /\ Elsewhither([at |-> "err"]) BY <1>4 DEF Emptying
<1>7. CASE LoseAction(q) \/ RefuseItself(q) \/ ReadStore(q) \/ FetchPiece(q) \/ ApplySheet(q)
           \/ AskBaton(q) \/ AskConductor(q) \/ AskCanister(q)
  <2>1. ic' = ic /\ burnt' = burnt
    BY <1>7 DEF LoseAction, RefuseItself, ReadStore, FetchPiece, ApplySheet, AskBaton, AskConductor, AskCanister, Asks
  <2>2. \A n : Elsewhither([at |-> "again", n |-> n]) BY DEF Elsewhither, Emptying
  <2>3. \E d : Elsewhither(d) /\ Goes(q, d)
    BY <1>5, <1>6, <1>7, <2>2 DEF LoseAction, RefuseItself, ReadStore, FetchPiece, FromStore, ApplySheet, AskBaton, AskConductor,
       AskCanister, Asks, Returns
  <2> QED BY <1>2, <2>1, <2>3
<1>8. CASE ClearChunks(q)
  <2> DEFINE t == doing[q].t
             m == [ic[t] EXCEPT !.chunks = {}]
  <2>1. burnt' = burnt /\ (ic' = ic \/ ic' = [ic EXCEPT ![t] = m]) BY <1>8 DEF ClearChunks, Call
  <2>2. \E d : Elsewhither(d) /\ Goes(q, d) BY <1>5, <1>6, <1>8 DEF ClearChunks, Call, Returns
  <2>3. t \in Target => Holds(m) /\ m.cycles <= ic[t].cycles BY <1>1, PlainCall
  <2> HIDE DEF t, m
  <2> QED BY <1>3, <2>1, <2>2, <2>3
<1>9. CASE UploadPiece(q)
  <2> DEFINE t == doing[q].t
             c == ic[t].chunks \cup {<<doing[q].module, doing[q].piece>>}
             m == [ic[t] EXCEPT !.chunks = c]
  <2>1. burnt' = burnt /\ (ic' = ic \/ ic' = [ic EXCEPT ![t] = m]) BY <1>9 DEF UploadPiece, Call
  <2>2. \E d : Elsewhither(d) /\ Goes(q, d) BY <1>5, <1>6, <1>9 DEF UploadPiece, Call, Returns
  <2>3. t \in Target => Holds(m) /\ m.cycles <= ic[t].cycles BY <1>1, PlainCall
  <2> HIDE DEF t, m
  <2> QED BY <1>3, <2>1, <2>2, <2>3
<1>10. CASE InstallPieces(q) \/ InstallBaton(q)
  <2> DEFINE t == doing[q].t
             w == doing[q].module
             m == [ic[t] EXCEPT !.code = w]
  <2>1. burnt' = burnt /\ (ic' = ic \/ ic' = [ic EXCEPT ![t] = m]) BY <1>10 DEF InstallPieces, InstallBaton, Call, Refused
  <2>2. \A r \in {"ok", "err"} : Elsewhither([at |-> "tidy", t |-> doing[q].t, result |-> r]) BY DEF Elsewhither, Emptying
  <2>3. \E d : Elsewhither(d) /\ Goes(q, d) BY <1>6, <1>10, <2>2 DEF InstallPieces, InstallBaton, Call, Refused, Returns
  <2>4. t \in Target => Holds(m) /\ m.cycles <= ic[t].cycles BY <1>1, PlainCall
  <2> HIDE DEF t, m
  <2> QED BY <1>3, <2>1, <2>3, <2>4
<1>11. CASE TidyChunks(q)
  <2> DEFINE t == doing[q].t
             m == [ic[t] EXCEPT !.chunks = {}]
  <2>1. burnt' = burnt /\ (ic' = ic \/ ic' = [ic EXCEPT ![t] = m]) BY <1>11 DEF TidyChunks, Call
  <2>2. Goes(q, [at |-> doing[q].result]) BY <1>11 DEF TidyChunks, Call, Returns
  <2>3. Elsewhither([at |-> doing[q].result]) BY <1>6, <1>11 DEF SweptInv, Work, TidyChunks, At
  <2>4. t \in Target => Holds(m) /\ m.cycles <= ic[t].cycles BY <1>1, PlainCall
  <2> HIDE DEF t, m
  <2> QED BY <1>3, <2>1, <2>2, <2>3, <2>4
<1>12. CASE ReadSettings(q)
  <2> DEFINE t == doing[q].t
  <2>1. burnt' = burnt /\ (ic' = ic \/ ic' = [ic EXCEPT ![t] = ic[t]]) BY <1>12 DEF ReadSettings, Call
  <2>2. \E d : Elsewhither(d) /\ Goes(q, d) BY <1>5, <1>6, <1>12 DEF ReadSettings, Call, Returns
  <2>3. t \in Target => Holds(ic[t]) /\ ic[t].cycles <= ic[t].cycles BY <1>1, PlainCall
  <2> HIDE DEF t
  <2> QED BY <1>3, <2>1, <2>2, <2>3
<1>13. CASE WriteSettings(q)
  <2> DEFINE t == doing[q].t
             m == [ic[t] EXCEPT !.admins = Merged(doing[q])]
  <2>1. burnt' = burnt /\ (ic' = ic \/ ic' = [ic EXCEPT ![t] = m]) BY <1>13 DEF WriteSettings, Call
  <2>2. \E d : Elsewhither(d) /\ Goes(q, d) BY <1>6, <1>13 DEF WriteSettings, Call, Returns
  <2>3. t \in Target => Holds(m) /\ m.cycles <= ic[t].cycles BY <1>1, PlainCall
  <2> HIDE DEF t, m
  <2> QED BY <1>3, <2>1, <2>2, <2>3
<1>14. CASE SetControllers(q)
  <2> DEFINE t == doing[q].t
             m == [ic[t] EXCEPT !.admins = doing[q].to]
  <2>1. burnt' = burnt /\ (ic' = ic \/ ic' = [ic EXCEPT ![t] = m]) BY <1>14 DEF SetControllers, Call
  <2>2. \E d : Elsewhither(d) /\ Goes(q, d) BY <1>6, <1>14 DEF SetControllers, Call, Returns
  <2>3. t \in Target => Holds(m) /\ m.cycles <= ic[t].cycles BY <1>1, PlainCall
  <2> HIDE DEF t, m
  <2> QED BY <1>3, <2>1, <2>2, <2>3
<1> QED BY <1>7, <1>8, <1>9, <1>10, <1>11, <1>12, <1>13, <1>14
\* A proposal names at least one canister.
LEMMA StartSwept ==
  ASSUME SweptInv, NEW q \in Slots, Start(q)
  PROVE  SweptInv'
<1>1. PICK r \in Requests : Goes(q, With(r, [at |-> r.kind])) BY DEF Start
<1>2. ic' = ic /\ burnt' = burnt BY DEF Start
<1> DEFINE d == With(r, [at |-> r.kind])
<1>3. r.kind \in {"upgrade", "baton", "settings", "controllers", "destroy", "sheet", "baton call", "destroy stand",
                  "canister call", "itself"}
  BY DEF Requests
<1>4. r.kind = "destroy" => "ids" \in DOMAIN r /\ r.ids \in {<<t>> : t \in Target} \cup {Targets} BY DEF Requests
<1>5. \A t \in Target : <<t>> \in Seq(Target) /\ <<t>> # <<>> BY SeqOfOne
<1>6. r.kind = "destroy" => "ids" \in DOMAIN r /\ r.ids \in Seq(Target) /\ r.ids # <<>>
  BY <1>4, <1>5, TargetsAssumption
<1>7. "at" \in DOMAIN d /\ d.at = r.kind /\ ("ids" \in DOMAIN r => "ids" \in DOMAIN d /\ d.ids = r.ids) BY DEF With
<1> HIDE DEF d
<1>8. Work(d) /\ d.at \notin Emptying BY <1>3, <1>6, <1>7 DEF Work, Emptying
<1>9. Machines' /\ \A u \in Target : ic'[u].cycles <= ic[u].cycles BY <1>2 DEF SweptInv, Machines, Holds
<1> QED BY <1>1, <1>2, <1>8, <1>9, OneGoesOn DEF Goes, d

\* The calls that empty a canister up to its deletion.
LEMMA EmptyingSteps ==
  ASSUME SweptInv, NEW q \in Slots,
         \/ StopDoomed(q) \/ Thaw(q) \/ InstallSweeper(q) \/ StartSweeper(q) \/ ReadCycles(q) \/ Sweep(q) \/ StopSwept(q)
  PROVE  SweptInv'
<1> DEFINE r == doing[q]
           t == Doomed(q)
<1>1. Machines /\ Work(r) BY DEF SweptInv
<1>2. r.at \in {"destroy"} \cup Emptying
  BY DEF StopDoomed, Thaw, InstallSweeper, StartSweeper, ReadCycles, Sweep, StopSwept, At, Emptying
<1>3. t \in Target /\ t = Head(r.ids) BY <1>1, <1>2 DEF Work, Doomed
<1>4. burnt' = burnt
  BY DEF StopDoomed, Thaw, InstallSweeper, StartSweeper, ReadCycles, Sweep, StopSwept, Call, Refused
<1>5. Holds(ic[t]) /\ ic[t].cycles \in Nat BY <1>1, <1>3 DEF Machines, Holds
<1>6. r.at \in Emptying => /\ r.rung \in 1..Len(Ladder) /\ r.seen \in Nat /\ r.late \in Nat
                           /\ Ladder[r.rung] \in Nat /\ Emptied(r, ic[t].cycles)
  BY <1>1, LastRung DEF Work, SweptInv
\* What is to be shown of where the action goes and of what the call makes of the canister.
<1>7. ASSUME NEW d, Work(d), Goes(q, d), NEW m, Holds(m), m.cycles <= ic[t].cycles,
             ic' = ic \/ ic' = [ic EXCEPT ![t] = m],
             d.at \in {"sweep", "stop", "delete"} => d.ids = r.ids /\ Emptied(d, ic'[t].cycles)
      PROVE  SweptInv'
  <2>1. Machines' /\ \A u \in Target : ic'[u].cycles <= ic[u].cycles BY <1>1, <1>7, CallKeeps
  <2>2. d.at \notin {"sweep", "stop", "delete"} => Emptied(d, ic'[Head(d.ids)].cycles) BY DEF Emptied
  <2>3. Emptied(d, ic'[Head(d.ids)].cycles) BY <1>3, <1>7, <2>2
  <2> QED BY <1>4, <1>7, <2>1, <2>3, OneGoesOn DEF Goes
<1>8. Work([at |-> "err"]) /\ [at |-> "err"].at = "err" BY DEF Work, Emptying
<1>9. PICK c : c = ic[t] OBVIOUS
<1>10. /\ Holds([c EXCEPT !.runs = FALSE]) /\ [c EXCEPT !.runs = FALSE].cycles <= c.cycles
       /\ Holds([c EXCEPT !.runs = TRUE]) /\ [c EXCEPT !.runs = TRUE].cycles <= c.cycles
       /\ Holds([c EXCEPT !.frozen = FALSE]) /\ [c EXCEPT !.frozen = FALSE].cycles <= c.cycles
       /\ Holds([c EXCEPT !.code = Sweeper, !.chunks = {}]) /\ [c EXCEPT !.code = Sweeper, !.chunks = {}].cycles <= c.cycles
       /\ Holds(c) /\ c.cycles <= c.cycles /\ c.cycles \in Nat
       /\ [c EXCEPT !.runs = FALSE].cycles = c.cycles
  BY <1>5, <1>9 DEF Holds
<1>11. CASE StopDoomed(q)
  <2> DEFINE d == Draining(q, "thaw")
             m == [c EXCEPT !.runs = FALSE]
  <2>1. Goes(q, d) /\ (ic' = ic \/ ic' = [ic EXCEPT ![t] = m]) BY <1>9, <1>11 DEF StopDoomed, Call
  <2>2. "at" \in DOMAIN r /\ "ids" \in DOMAIN r /\ r.ids \in Seq(Target) /\ r.ids # <<>> BY <1>1, <1>2 DEF Work
  <2>3. /\ {"at", "ids", "rung", "seen", "late"} \subseteq DOMAIN d
        /\ d.at = "thaw" /\ d.ids = r.ids /\ d.rung = 1 /\ d.seen = 0 /\ d.late = 0
    BY <2>2 DEF Draining, On, With
  <2> HIDE DEF d
  <2>4. Work(d) BY <2>2, <2>3, LastRung DEF Work
  <2> HIDE DEF m
  <2> QED BY <1>7, <1>9, <1>10, <2>1, <2>3, <2>4 DEF m
<1>12. CASE Thaw(q) \/ InstallSweeper(q) \/ StartSweeper(q)
  <2>1. r.at \in Emptying BY <1>12 DEF Thaw, InstallSweeper, StartSweeper, At, Emptying
  <2>2. \A at \in {"reinstall", "start", "status"} : Work(On(q, at, <<>>)) /\ On(q, at, <<>>).at = at
    BY <1>1, <2>1, EmptyingOn DEF Emptying
  <2>3. \E d : Work(d) /\ Goes(q, d) /\ d.at \notin {"sweep", "stop", "delete"}
    BY <1>8, <1>12, <2>2 DEF Thaw, InstallSweeper, StartSweeper, Call, Returns
  <2>4. \E m : Holds(m) /\ m.cycles <= ic[t].cycles /\ (ic' = ic \/ ic' = [ic EXCEPT ![t] = m])
    BY <1>9, <1>10, <1>12 DEF Thaw, InstallSweeper, StartSweeper, Call
  <2> QED BY <1>7, <2>3, <2>4
<1>13. CASE ReadCycles(q)
  <2>1. r.at = "status" /\ r.at \in Emptying BY <1>13 DEF ReadCycles, At, Emptying
  <2> DEFINE next == IF ic[t].cycles <= Ladder[r.rung] THEN "stop" ELSE "sweep"
             d == On(q, next, [seen |-> ic[t].cycles, late |-> 0])
  <2>2. next \in {"stop", "sweep"} /\ next \in Emptying BY DEF Emptying
  <2>3. next = "stop" => ic[t].cycles <= Ladder[r.rung] OBVIOUS
  <2>4. next = "sweep" => ic[t].cycles > Ladder[r.rung] BY <1>5, <1>6, <2>1
  <2> HIDE DEF next
  <2>5. Work(d) /\ d.at = next /\ d.ids = r.ids /\ d.rung = r.rung /\ d.seen = ic[t].cycles /\ d.late = 0
    BY <1>1, <1>5, <2>1, <2>2, EmptyingOn
  <2>6. ic' = ic \/ ic' = [ic EXCEPT ![t] = c] BY <1>9, <1>13 DEF ReadCycles, Call
  <2>7. ic'[t] = c BY <1>1, <1>3, <1>9, <2>6 DEF Machines
  <2>8. Goes(q, d) \/ Goes(q, [at |-> "err"]) BY <1>13 DEF ReadCycles, Call, Returns, next
  <2> HIDE DEF d
  <2>9. Emptied(d, ic'[t].cycles)
    <3>1. ic'[t].cycles = d.seen /\ d.seen \in Nat /\ Ladder[d.rung] \in Nat /\ d.late = 0 BY <1>5, <1>6, <1>9, <2>1, <2>5, <2>7
    <3>2. d.at = "sweep" => d.seen > Ladder[d.rung] BY <1>9, <2>4, <2>5
    <3>3. d.at \in {"stop", "delete"} => d.seen <= Ladder[d.rung] BY <1>9, <2>2, <2>3, <2>5
    <3> QED BY <3>1, <3>2, <3>3 DEF Emptied
  <2>10. CASE Goes(q, d) BY <1>7, <1>9, <1>10, <2>5, <2>6, <2>9, <2>10
  <2>11. CASE Goes(q, [at |-> "err"]) BY <1>7, <1>8, <1>9, <1>10, <2>6, <2>11
  <2> QED BY <2>8, <2>10, <2>11
<1>14. CASE Sweep(q)
  <2>1. r.at = "sweep" /\ r.at \in Emptying BY <1>14 DEF Sweep, At, Emptying
  <2> DEFINE amount == r.seen - Ladder[r.rung]
             m == [ic[t] EXCEPT !.cycles = ic[t].cycles - amount]
             d == On(q, "stop", <<>>)
  <2>2. /\ r.seen > Ladder[r.rung] /\ ic[t].cycles <= r.seen + r.late /\ amount \in Nat
    BY <1>6, <2>1 DEF Emptied
  <2>3. Work(d) /\ d.at = "stop" /\ d.ids = r.ids /\ d.rung = r.rung /\ d.late = r.late
    BY <1>1, <2>1, EmptyingOn DEF Emptying
  <2>4. NextRung(q) => \E e : Work(e) /\ Goes(q, e) /\ e.at \notin {"sweep", "stop", "delete"}
    <3>1. CASE r.rung < Len(Ladder)
      <4>1. r.rung + 1 \in 1..Len(Ladder) BY <1>6, <2>1, <3>1, LastRung
      <4>2. Work(On(q, "status", [rung |-> r.rung + 1])) /\ On(q, "status", [rung |-> r.rung + 1]).at = "status"
        BY <1>1, <2>1, <4>1, EmptyingOn DEF Emptying
      <4> QED BY <3>1, <4>2 DEF NextRung
    <3>2. CASE ~(r.rung < Len(Ladder)) BY <1>8, <3>2 DEF NextRung, Returns
    <3> QED BY <3>1, <3>2
  <2>5. CASE ~CanSweep(t, amount) \/ ~ic[t].alive
    <3>1. NextRung(q) /\ ic' = ic BY <1>14, <2>5 DEF Sweep, Refused, Call
    <3> QED BY <1>7, <1>9, <1>10, <2>4, <3>1
  <2>6. CASE CanSweep(t, amount) /\ ic[t].alive
    <3>1. /\ (Goes(q, d) /\ ic' = [ic EXCEPT ![t] = m]) \/ NextRung(q)
          /\ ic' = ic \/ ic' = [ic EXCEPT ![t] = m]
      BY <1>14, <2>6 DEF Sweep, Call, Refused
    <3>2. ic[t].cycles - amount \in Nat /\ ic[t].cycles - amount <= ic[t].cycles
          /\ ic[t].cycles - amount <= Ladder[r.rung] + r.late
      <4>1. ic[t].floor \in Nat /\ amount + ic[t].floor <= ic[t].cycles BY <1>5, <2>6 DEF CanSweep, Holds
      <4>2. \A n, f, x, l, e \in Nat : x > l /\ n <= x + e /\ (x - l) + f <= n =>
              n - (x - l) \in Nat /\ n - (x - l) <= n /\ n - (x - l) <= l + e
        OBVIOUS
      <4>3. r.seen \in Nat /\ r.late \in Nat /\ Ladder[r.rung] \in Nat /\ ic[t].cycles \in Nat BY <1>5, <1>6, <2>1
      <4> QED BY <2>2, <4>1, <4>2, <4>3
    <3>3. Holds(m) /\ m.cycles = ic[t].cycles - amount
      <4>1. PICK n : n = ic[t].cycles - amount OBVIOUS
      <4>2. Holds([c EXCEPT !.cycles = n]) /\ [c EXCEPT !.cycles = n].cycles = n BY <1>5, <1>9, <3>2, <4>1 DEF Holds
      <4> QED BY <1>9, <4>1, <4>2
    <3> HIDE DEF m, d, amount
    <3>4. CASE Goes(q, d) /\ ic' = [ic EXCEPT ![t] = m]
      <4>1. ic'[t] = m BY <1>1, <1>3, <3>4 DEF Machines
      <4>2. Emptied(d, ic'[t].cycles) BY <2>3, <3>2, <3>3, <4>1 DEF Emptied
      <4> QED BY <1>7, <2>3, <3>2, <3>3, <3>4, <4>2
    <3>5. CASE NextRung(q) BY <1>7, <2>4, <3>1, <3>2, <3>3, <3>5
    <3> QED BY <3>1, <3>4, <3>5
  <2> QED BY <2>5, <2>6
<1>15. CASE StopSwept(q)
  <2>1. r.at = "stop" /\ r.at \in Emptying BY <1>15 DEF StopSwept, At, Emptying
  <2> DEFINE d == On(q, "delete", <<>>)
             m == [c EXCEPT !.runs = FALSE]
  <2>2. Goes(q, d) /\ (ic' = ic \/ ic' = [ic EXCEPT ![t] = m]) BY <1>9, <1>15 DEF StopSwept, Call
  <2>3. Work(d) /\ d.at = "delete" /\ d.ids = r.ids /\ d.rung = r.rung /\ d.late = r.late
    BY <1>1, <2>1, EmptyingOn DEF Emptying
  <2>4. Holds(m) /\ m.cycles = c.cycles BY <1>10
  <2> HIDE DEF d, m
  <2>5. ic'[t].cycles = ic[t].cycles BY <1>1, <1>3, <1>9, <2>2, <2>4 DEF Machines
  <2>6. Emptied(d, ic'[t].cycles) BY <1>6, <2>1, <2>3, <2>5 DEF Emptied
  <2> QED BY <1>7, <1>9, <1>10, <2>2, <2>3, <2>4, <2>6
<1> QED BY <1>11, <1>12, <1>13, <1>14, <1>15
\* The deletion burns what is left, and goes on with the next canister.
LEMMA DeleteSwept ==
  ASSUME SweptInv, NEW q \in Slots, DeleteCanister(q)
  PROVE  SweptInv'
<1> DEFINE r == doing[q]
           t == Doomed(q)
<1>1. Machines /\ Work(r) /\ r.at = "delete" /\ r.at \in Emptying BY DEF SweptInv, DeleteCanister, At, Emptying
<1>2. r.ids \in Seq(Target) /\ r.ids # <<>> /\ t = Head(r.ids) /\ t \in Target BY <1>1 DEF Work, Doomed
<1>3. r.late \in Nat /\ Ladder[r.rung] \in Nat /\ Ladder[r.rung] <= Last(Ladder) /\ Last(Ladder) \in Nat
  BY <1>1, LastRung DEF Work
<1>4. ic[t].cycles <= Ladder[r.rung] + r.late /\ ic[t].cycles \in Nat
  BY <1>1, <1>2 DEF SweptInv, Emptied, Machines, Holds
<1>5. Work([at |-> "err"]) /\ Work([at |-> "ok"]) /\ [at |-> "err"].at \notin Emptying /\ [at |-> "ok"].at \notin Emptying
  BY DEF Work, Emptying
<1> DEFINE e == [at |-> "destroy", ids |-> Tail(r.ids)]
<1>6. Tail(r.ids) # <<>> => Work(e) /\ e.at \notin Emptying
  <2>1. Tail(r.ids) \in Seq(Target) BY <1>2
  <2> QED BY <2>1 DEF Work, Emptying
<1>7. \E d : Work(d) /\ d.at \notin Emptying /\ Goes(q, d)
  BY <1>5, <1>6 DEF DeleteCanister, Returns
<1>8. \/ ic' = ic /\ burnt' = burnt
      \/ /\ ic' = [ic EXCEPT ![t].alive = FALSE]
         /\ burnt' = [burnt EXCEPT ![t] = IF ic[t].cycles > r.late THEN ic[t].cycles - r.late ELSE 0]
  BY DEF DeleteCanister
<1>9. Machines' /\ \A u \in Target : ic'[u].cycles = ic[u].cycles
  <2>1. CASE ic' = ic BY <1>1, <2>1 DEF Machines, Holds
  <2>2. CASE ic' = [ic EXCEPT ![t].alive = FALSE]
    <3>1. PICK c : c = ic[t] OBVIOUS
    <3>2. Holds([c EXCEPT !.alive = FALSE]) /\ [c EXCEPT !.alive = FALSE].cycles = c.cycles
      BY <1>1, <1>2, <3>1 DEF Machines, Holds
    <3>3. ic' = [ic EXCEPT ![t] = [c EXCEPT !.alive = FALSE]] BY <2>2, <3>1
    <3> QED BY <1>1, <3>1, <3>2, <3>3 DEF Machines
  <2> QED BY <1>8, <2>1, <2>2
<1>10. DOMAIN burnt' = Target /\ \A u \in Target : burnt'[u] \in Nat /\ burnt'[u] <= Last(Ladder)
  <2>1. DOMAIN burnt = Target /\ \A u \in Target : burnt[u] \in Nat /\ burnt[u] <= Last(Ladder)
    BY DEF SweptInv, SweptBeforeDeleted
  <2> DEFINE b == IF ic[t].cycles > r.late THEN ic[t].cycles - r.late ELSE 0
  <2>2. b \in Nat /\ b <= Last(Ladder)
    <3>1. \A n, l, k, m \in Nat : n <= k + l /\ k <= m /\ n > l => n - l \in Nat /\ n - l <= m OBVIOUS
    <3> QED BY <1>3, <1>4, <3>1
  <2> HIDE DEF b
  <2>3. burnt' = burnt \/ burnt' = [burnt EXCEPT ![t] = b] BY <1>8 DEF b
  <2> QED BY <2>1, <2>2, <2>3
<1>11. PICK d : Work(d) /\ d.at \notin Emptying /\ doing' = [doing EXCEPT ![q] = d] BY <1>7 DEF Goes
<1>12. DOMAIN doing' = Slots /\ \A p \in Slots : doing'[p] = (IF p = q THEN d ELSE doing[p])
  BY <1>11 DEF SweptInv
<1>13. \A p \in Slots : Work(doing'[p]) BY <1>11, <1>12 DEF SweptInv
<1>14. ASSUME NEW p \in Slots, doing'[p].at \in Emptying PROVE Emptied(doing'[p], ic'[Head(doing'[p].ids)].cycles)
  <2>1. p # q /\ doing'[p] = doing[p] BY <1>11, <1>12, <1>14
  <2>2. doing[p].ids \in Seq(Target) /\ doing[p].ids # <<>> /\ Head(doing[p].ids) \in Target
    BY <1>14, <2>1 DEF SweptInv, Work
  <2>3. Emptied(doing[p], ic[Head(doing[p].ids)].cycles) BY <1>14, <2>1 DEF SweptInv, Doomed
  <2> QED BY <1>9, <2>1, <2>2, <2>3
<1> QED BY <1>9, <1>10, <1>12, <1>13, <1>14 DEF SweptInv, SweptBeforeDeleted, Doomed

\* A deposit is told apart as late by every action that has read the canister's cycles.
LEMMA DepositSwept ==
  ASSUME SweptInv, NEW t \in Target, Deposit(t)
  PROVE  SweptInv'
<1>1. PICK c : c = ic[t] OBVIOUS
<1>2. ic' = [ic EXCEPT ![t] = [c EXCEPT !.cycles = c.cycles + 1]] /\ burnt' = burnt BY <1>1 DEF Deposit
<1>3. {"cycles", "floor"} \subseteq DOMAIN c /\ c.cycles \in Nat /\ c.floor \in Nat BY <1>1 DEF SweptInv, Machines, Holds
<1>4. PICK n \in Nat : n = c.cycles + 1 BY <1>3
<1>5. Holds([c EXCEPT !.cycles = n]) /\ [c EXCEPT !.cycles = n].cycles = n BY <1>3, <1>4 DEF Holds
<1>6. DOMAIN ic' = Target /\ \A u \in Target : IF u = t THEN ic'[u].cycles = ic[u].cycles + 1 /\ Holds(ic'[u]) ELSE ic'[u] = ic[u]
  BY <1>1, <1>2, <1>4, <1>5 DEF SweptInv, Machines
<1>7. Machines' BY <1>6 DEF SweptInv, Machines
<1>8. DOMAIN doing' = Slots
  /\ \A q \in Slots : doing'[q] = IF "late" \in DOMAIN doing[q] /\ Doomed(q) = t
                                  THEN [doing[q] EXCEPT !.late = @ + 1] ELSE doing[q]
  BY DEF Deposit
<1>9. ASSUME NEW q \in Slots
      PROVE  /\ Work(doing'[q])
             /\ doing'[q].at \in Emptying => Emptied(doing'[q], ic'[Head(doing'[q].ids)].cycles)
  <2>1. PICK r : r = doing[q] /\ Work(r) /\ (r.at \in Emptying => Emptied(r, ic[Head(r.ids)].cycles))
    BY DEF SweptInv, Doomed
  <2>2. r.at \in Emptying => /\ "ids" \in DOMAIN r /\ r.ids \in Seq(Target) /\ r.ids # <<>> /\ Head(r.ids) \in Target
                             /\ "late" \in DOMAIN r /\ r.late \in Nat /\ r.seen \in Nat
                             /\ r.rung \in 1..Len(Ladder) /\ Ladder[r.rung] \in Nat
                             /\ ic[Head(r.ids)].cycles \in Nat
    <3>1. r.at \in Emptying => /\ "ids" \in DOMAIN r /\ r.ids \in Seq(Target) /\ r.ids # <<>>
                               /\ "late" \in DOMAIN r /\ r.late \in Nat /\ r.seen \in Nat /\ r.rung \in 1..Len(Ladder)
      BY <2>1 DEF Work
    <3>2. r.at \in Emptying => Head(r.ids) \in Target BY <3>1
    <3>3. \A u \in Target : ic[u].cycles \in Nat BY DEF SweptInv, Machines, Holds
    <3> QED BY <3>1, <3>2, <3>3, LastRung
  <2>3. CASE "late" \in DOMAIN r /\ Head(r.ids) = t
    <3>1. PICK l : l = r.late + 1 OBVIOUS
    <3>2. PICK d : d = [r EXCEPT !.late = l] OBVIOUS
    <3>3. doing'[q] = d BY <1>8, <2>1, <2>3, <3>1, <3>2 DEF Doomed
    <3>4. DOMAIN d = DOMAIN r /\ d.late = l /\ \A x \in DOMAIN r \ {"late"} : d[x] = r[x] BY <2>3, <3>2
    <3>5. d.at = r.at BY <2>1, <3>4 DEF Work
    <3>6. r.at = "tidy" => "result" \in DOMAIN d /\ d.result \in {"ok", "err"} BY <2>1, <3>4 DEF Work
    <3>7. r.at \in {"destroy"} \cup Emptying => d.ids = r.ids BY <2>1, <3>4 DEF Work
    <3>8. r.at \in Emptying => d.rung = r.rung /\ d.seen = r.seen BY <2>1, <3>4 DEF Work
    <3>9. Work(d) BY <2>1, <2>2, <3>1, <3>4, <3>5, <3>6, <3>7, <3>8 DEF Work
    <3>10. r.at \in Emptying => Emptied(d, ic'[Head(d.ids)].cycles)
      <4>1. SUFFICES ASSUME r.at \in Emptying PROVE Emptied(d, ic'[t].cycles)
        BY <2>3, <3>7
      <4>2. d.rung = r.rung /\ d.seen = r.seen /\ d.late = r.late + 1 /\ Emptied(r, ic[t].cycles)
        BY <2>1, <2>3, <3>1, <3>4, <3>8, <4>1
      <4>3. ic'[t].cycles = ic[t].cycles + 1 /\ ic[t].cycles \in Nat /\ r.late \in Nat /\ r.seen \in Nat /\ Ladder[r.rung] \in Nat
        BY <1>6, <2>2, <2>3, <4>1
      <4> QED BY <3>5, <4>2, <4>3 DEF Emptied
    <3> QED BY <3>3, <3>5, <3>9, <3>10
  <2>4. CASE ~("late" \in DOMAIN r /\ Head(r.ids) = t)
    <3>1. doing'[q] = r BY <1>8, <2>1, <2>4 DEF Doomed
    <3>2. r.at \in Emptying => Head(r.ids) # t BY <2>2, <2>4
    <3> QED BY <1>6, <2>1, <2>2, <3>1, <3>2
  <2> QED BY <2>3, <2>4
<1>10. SweptBeforeDeleted' /\ DOMAIN burnt' = Target /\ \A u \in Target : burnt'[u] \in Nat
  BY <1>2 DEF SweptInv, SweptBeforeDeleted
<1> QED BY <1>7, <1>8, <1>9, <1>10 DEF SweptInv, Doomed

\* Every step of the committee's actions and of others keeps the invariant.
LEMMA NextSwept ==
  ASSUME SweptInv, CommitteeNext \/ UNCHANGED committeeVars
  PROVE  SweptInv'
<1>1. ASSUME ic' = ic \/ \E t, a : ic' = [ic EXCEPT ![t].admins = a], UNCHANGED <<doing, burnt>> PROVE SweptInv'
  <2>1. Machines' /\ \A u \in Target : ic'[u].cycles = ic[u].cycles
    <3>1. CASE ic' = ic BY <3>1 DEF SweptInv, Machines, Holds
    <3>2. CASE \E t, a : ic' = [ic EXCEPT ![t].admins = a]
      <4>1. PICK t, a : ic' = [ic EXCEPT ![t].admins = a] BY <3>2
      <4>2. PICK c : c = ic[t] OBVIOUS
      <4>3. t \in Target => Holds([c EXCEPT !.admins = a]) /\ [c EXCEPT !.admins = a].cycles = c.cycles
        BY <4>2 DEF SweptInv, Machines, Holds
      <4>4. ic' = [ic EXCEPT ![t] = [c EXCEPT !.admins = a]] BY <4>1, <4>2
      <4> QED BY <4>2, <4>3, <4>4 DEF SweptInv, Machines
    <3> QED BY <1>1, <3>1, <3>2
  <2>2. ASSUME NEW q \in Slots, doing[q].at \in Emptying PROVE Emptied(doing[q], ic'[Head(doing[q].ids)].cycles)
    <3>1. Head(doing[q].ids) \in Target BY <2>2 DEF SweptInv, Work
    <3> QED BY <2>1, <2>2, <3>1 DEF SweptInv, Doomed
  <2> QED BY <1>1, <2>1, <2>2 DEF SweptInv, Doomed, SweptBeforeDeleted
<1>2. ASSUME NEW q \in Slots, Start(q) PROVE SweptInv' BY <1>2, StartSwept
<1>3. CASE UNCHANGED committeeVars BY <1>1, <1>3 DEF committeeVars
<1>4. ASSUME NEW t \in Target, OthersSetControllers(t) PROVE SweptInv' BY <1>1, <1>4 DEF OthersSetControllers
<1>5. CASE PutInStore BY <1>1, <1>5 DEF PutInStore
<1> QED BY <1>2, <1>3, <1>4, <1>5, OtherSteps, EmptyingSteps, DeleteSwept, DepositSwept DEF CommitteeNext

\* No canister is deleted with more cycles than the last reserve, besides what came in
\* after its cycles were read: whatever other actions do to it meanwhile, whichever
\* calls fail or lose their reply, and whoever else deposits, is upgraded or destroyed.
THEOREM DeletedWhenSwept == CanisterSpec => []SweptBeforeDeleted
<1>1. CanisterInit => SweptInv
  <2>1. SUFFICES ASSUME CanisterInit PROVE SweptInv OBVIOUS
  <2>2. PICK w \in Builds, f \in Floors :
          ic = [t \in Target |-> [code |-> w, cycles |-> Funds, floor |-> f, frozen |-> TRUE, alive |-> TRUE,
                                  runs |-> TRUE, chunks |-> {}, admins |-> Admins]]
    BY <2>1 DEF CanisterInit, CommitteeInit
  <2>3. Machines BY <2>2, CyclesAssumption DEF Machines, Holds
  <2>4. doing = [q \in Slots |-> [at |-> "free"]] /\ burnt = [t \in Target |-> 0]
    BY <2>1 DEF CanisterInit, CommitteeInit
  <2>5. DOMAIN doing = Slots /\ \A q \in Slots : Work(doing[q]) /\ doing[q].at \notin Emptying
    BY <2>4 DEF Work, Emptying
  <2>6. Last(Ladder) \in Nat BY LastRung
  <2> QED BY <2>3, <2>4, <2>5, <2>6 DEF SweptInv, SweptBeforeDeleted
<1>2. SweptInv /\ [CanisterNext]_canisterVars => SweptInv'
  BY NextSwept DEF CanisterNext, canisterVars
<1>3. SweptInv => SweptBeforeDeleted BY DEF SweptInv
<1> QED BY <1>1, <1>2, <1>3, PTL DEF CanisterSpec
=============================================================================
