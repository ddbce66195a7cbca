---------------------------- MODULE ReleaseProofs ----------------------------
(***************************************************************************)
(* What a stand release does, for every stand, number of failures and, in  *)
(* the first half, of executors that die.                                  *)
(*                                                                         *)
(* The plan is a sequence of phases (Rank, PlanOrder): where the cursor    *)
(* stands tells which steps were made.  Inv says what holds whatever       *)
(* happens to an executor; with it, snapshots hold the old release.        *)
(*                                                                         *)
(* The second half is about a release whose executors live (MaxLosses =    *)
(* 0): a step that is lost half-way leaves changes that no record names,   *)
(* and what is proved there does not hold then.  Safe says that the record *)
(* notes what was changed, that the calls a rollback has left undo it, and *)
(* what the outcomes mean; with it, the release implements the atomic one. *)
(***************************************************************************)
EXTENDS StandRelease, DataLemmas

-----------------------------------------------------------------------------
(* Sequences of steps and calls *)

\* Steps asks op of every member of a sequence.
LEMMA StepsElements ==
  ASSUME NEW X, NEW s \in Seq(X), NEW op
  PROVE  /\ Steps(op, s) \in Seq([op : {op}, cid : X])
         /\ ToSet(Steps(op, s)) = {[op |-> op, cid |-> x] : x \in ToSet(s)}
         /\ Len(Steps(op, s)) = Len(s)
<1>1. Len(s) \in Nat /\ DOMAIN s = 1..Len(s) /\ \A i \in 1..Len(s) : s[i] \in X OBVIOUS
<1>2. DOMAIN Steps(op, s) = 1..Len(s) /\ \A i \in 1..Len(s) : Steps(op, s)[i] = [op |-> op, cid |-> s[i]]
  BY DEF Steps
<1>3. Steps(op, s) \in Seq([op : {op}, cid : X]) BY <1>1 DEF Steps
<1> QED BY <1>1, <1>2, <1>3 DEF ToSet, Steps
-----------------------------------------------------------------------------
(* The order of the plan *)

\* The phases of a release, in the order the plan goes through them.
Rank(op) ==
  CASE op = "preflight" -> 1
    [] op = "stage_release" -> 2
    [] op \in {"stage_maintenance", "copy_files", "stage_bundle"} -> 3
    [] op = "snapshot_frontend" -> 4
    [] op = "maintenance_on" -> 5
    [] op = "stop" -> 6
    [] op = "snapshot" -> 7
    [] op = "install" -> 8
    [] op = "start" -> 9
    [] op = "verify_backend" -> 10
    [] op \in {"restore", "install_frontend", "ship_bundle", "commit_bundle"} -> 11
    [] op = "verify_frontend" -> 12
    [] op = "bake" -> 13
    [] op = "cleanup" -> 14

\* The steps a plan is made of.
FrontOps == {"stage_maintenance", "copy_files", "stage_bundle", "snapshot_frontend", "maintenance_on", "restore",
             "install_frontend", "ship_bundle", "commit_bundle", "verify_frontend"}

\* A backend's steps,
BackOps == {"stop", "snapshot", "install", "start", "verify_backend"}

\* those of no member,
AloneOps == {"preflight", "bake", "cleanup"}

\* and every step of a plan with its member.
PlanSteps ==
  [op : AloneOps, cid : {None}] \cup [op : {"stage_release"}, cid : Member]
    \cup [op : FrontOps, cid : Fronts] \cup [op : BackOps, cid : Backs]

\* The steps of s are in order, of phases lo to hi.
Ordered(s, lo, hi) ==
  /\ s \in Seq(PlanSteps)
  /\ \A i \in DOMAIN s : lo <= Rank(s[i].op) /\ Rank(s[i].op) <= hi
  /\ \A i, j \in DOMAIN s : i <= j => Rank(s[i].op) <= Rank(s[j].op)

\* Every step has a phase.
LEMMA RankIsNatural == \A s \in PlanSteps : Rank(s.op) \in 1..14
<1> SUFFICES ASSUME NEW s \in PlanSteps PROVE Rank(s.op) \in 1..14 OBVIOUS
<1>1. s.op \in AloneOps \cup {"stage_release"} \cup FrontOps \cup BackOps BY DEF PlanSteps
<1> QED BY <1>1 DEF Rank, AloneOps, FrontOps, BackOps

\* Steps in order, followed by steps of later phases, are in order.
LEMMA OrderedConcat ==
  ASSUME NEW a \in Nat, NEW b \in Nat, NEW c \in Nat, NEW d \in Nat, a <= b, b <= c, c <= d,
         NEW s, NEW t, Ordered(s, a, b), Ordered(t, c, d)
  PROVE  Ordered(s \o t, a, d) /\ ToSet(s \o t) = ToSet(s) \cup ToSet(t)
<1> DEFINE q == s \o t
<1>1. /\ q \in Seq(PlanSteps) /\ Len(s) \in Nat /\ Len(t) \in Nat
      /\ DOMAIN s = 1..Len(s) /\ DOMAIN t = 1..Len(t) /\ DOMAIN q = 1..(Len(s) + Len(t))
      /\ \A i \in 1..Len(s) : q[i] = s[i]
      /\ \A i \in (Len(s) + 1)..(Len(s) + Len(t)) : q[i] = t[i - Len(s)]
  BY DEF Ordered
<1> HIDE DEF q
<1>2. \A i \in DOMAIN q : Rank(q[i].op) \in Nat
  <2>1. \A i \in DOMAIN q : q[i] \in PlanSteps BY <1>1
  <2> QED BY <2>1, RankIsNatural
<1>3. \A i \in 1..Len(s) : a <= Rank(q[i].op) /\ Rank(q[i].op) <= b BY <1>1 DEF Ordered
<1>4. \A i \in (Len(s) + 1)..(Len(s) + Len(t)) : c <= Rank(q[i].op) /\ Rank(q[i].op) <= d
  <2> SUFFICES ASSUME NEW i \in (Len(s) + 1)..(Len(s) + Len(t))
               PROVE  c <= Rank(q[i].op) /\ Rank(q[i].op) <= d
    OBVIOUS
  <2>1. i - Len(s) \in DOMAIN t /\ q[i] = t[i - Len(s)] BY <1>1
  <2> QED BY <2>1 DEF Ordered
<1>5. \A i \in DOMAIN q : a <= Rank(q[i].op) /\ Rank(q[i].op) <= d
  <2> SUFFICES ASSUME NEW i \in DOMAIN q PROVE a <= Rank(q[i].op) /\ Rank(q[i].op) <= d OBVIOUS
  <2>1. i \in 1..Len(s) \/ i \in (Len(s) + 1)..(Len(s) + Len(t)) BY <1>1
  <2> QED BY <1>2, <1>3, <1>4, <2>1
<1>6. ASSUME NEW i \in DOMAIN q, NEW j \in DOMAIN q, i <= j PROVE Rank(q[i].op) <= Rank(q[j].op)
  <2>1. CASE j \in 1..Len(s)
    <3>1. i \in 1..Len(s) BY <1>1, <1>6, <2>1
    <3> QED BY <1>1, <1>6, <2>1, <3>1 DEF Ordered
  <2>2. CASE i \in 1..Len(s) /\ j \in (Len(s) + 1)..(Len(s) + Len(t)) BY <1>2, <1>3, <1>4, <2>2
  <2>3. CASE i \in (Len(s) + 1)..(Len(s) + Len(t)) /\ j \in (Len(s) + 1)..(Len(s) + Len(t))
    <3>1. i - Len(s) \in DOMAIN t /\ j - Len(s) \in DOMAIN t /\ i - Len(s) <= j - Len(s)
          /\ q[i] = t[i - Len(s)] /\ q[j] = t[j - Len(s)]
      BY <1>1, <1>6, <2>3
    <3> QED BY <3>1 DEF Ordered
  <2>4. (i \in 1..Len(s) \/ i \in (Len(s) + 1)..(Len(s) + Len(t))) /\ (j \in 1..Len(s) \/ j \in (Len(s) + 1)..(Len(s) + Len(t)))
    BY <1>1
  <2>5. ~(i \in (Len(s) + 1)..(Len(s) + Len(t)) /\ j \in 1..Len(s)) BY <1>1, <1>6
  <2> QED BY <2>1, <2>2, <2>3, <2>4, <2>5
<1>7. ToSet(q) = ToSet(s) \cup ToSet(t) BY ToSetConcat DEF Ordered, q
<1> QED BY <1>1, <1>5, <1>6, <1>7 DEF Ordered, q

\* Steps of one phase are in order.
LEMMA OnePhase ==
  ASSUME NEW n \in Nat, NEW s \in Seq({x \in PlanSteps : Rank(x.op) = n})
  PROVE  Ordered(s, n, n)
<1>1. Len(s) \in Nat /\ DOMAIN s = 1..Len(s) /\ \A i \in 1..Len(s) : s[i] \in PlanSteps /\ Rank(s[i].op) = n OBVIOUS
<1>2. s \in Seq(PlanSteps) BY <1>1
<1> QED BY <1>1, <1>2 DEF Ordered

\* The steps of one phase.
Phase(n) == {x \in PlanSteps : Rank(x.op) = n}

\* The step of no member is one step.
LEMMA AloneOrdered ==
  ASSUME NEW op \in AloneOps
  PROVE  /\ Ordered(Alone(op), Rank(op), Rank(op)) /\ Alone(op) = <<[op |-> op, cid |-> None]>>
         /\ ToSet(Alone(op)) = {[op |-> op, cid |-> None]}
<1> DEFINE x == [op |-> op, cid |-> None]
<1>1. x \in PlanSteps /\ x.op = op BY DEF PlanSteps
<1>2. Rank(op) \in Nat BY <1>1, RankIsNatural
<1>3. Alone(op) = <<x>> /\ x \in Phase(Rank(op)) BY <1>1 DEF Alone, Phase
<1> HIDE DEF x
<1>4. <<x>> \in Seq(Phase(Rank(op))) /\ ToSet(<<x>>) = {x} BY <1>3 DEF ToSet
<1> QED BY <1>2, <1>3, <1>4, OnePhase DEF Phase, x

\* The members of M may be asked op.
Legal(op, M) == [op : {op}, cid : M] \subseteq Phase(Rank(op))

\* The same step of many members is one phase.
LEMMA StepsOrdered ==
  ASSUME NEW M, NEW s \in Seq(M), NEW op, Legal(op, M), Rank(op) \in Nat
  PROVE  /\ Ordered(Steps(op, s), Rank(op), Rank(op))
         /\ ToSet(Steps(op, s)) = {[op |-> op, cid |-> x] : x \in ToSet(s)}
<1> DEFINE X == [op : {op}, cid : M]
<1>1. Steps(op, s) \in Seq(X) /\ ToSet(Steps(op, s)) = {[op |-> op, cid |-> x] : x \in ToSet(s)}
  BY StepsElements
<1>2. X \subseteq Phase(Rank(op)) BY DEF Legal
<1> HIDE DEF X
<1>3. Steps(op, s) \in Seq(Phase(Rank(op))) BY <1>1, <1>2, SeqOfSubset
<1> QED BY <1>1, <1>3, OnePhase DEF Phase

\* The frontends' steps before and after the window opens.
LEMMA PerFrontOrdered ==
  /\ Ordered(PerFront(StageFront), 3, 3) /\ Ordered(PerFront(ApplyFront), 11, 11)
<1>1. \A op \in FrontOps : [op : {op}, cid : Fronts] \subseteq PlanSteps BY DEF PlanSteps
<1>2. Frontends \in Seq(Fronts) /\ Len(Frontends) \in Nat /\ \A i \in 1..Len(Frontends) : Frontends[i] \in Fronts
  BY MembersAssumption
<1>3. ASSUME NEW m \in Fronts, NEW op \in FrontOps, NEW n, Rank(op) = n PROVE Steps(op, <<m>>) \in Seq(Phase(n))
  <2>1. <<m>> \in Seq(Fronts) OBVIOUS
  <2>2. Steps(op, <<m>>) \in Seq([op : {op}, cid : Fronts]) BY <2>1, StepsElements
  <2>3. [op : {op}, cid : Fronts] \subseteq Phase(n) BY <1>1, <1>3 DEF Phase
  <2> QED BY <2>2, <2>3, SeqOfSubset
<1>4. ASSUME NEW m \in Fronts PROVE StageFront(m) \in Seq(Phase(3))
  <2>1. /\ Steps("stage_maintenance", <<m>>) \in Seq(Phase(3)) /\ Steps("copy_files", <<m>>) \in Seq(Phase(3))
        /\ Steps("stage_bundle", <<m>>) \in Seq(Phase(3))
    BY <1>3 DEF FrontOps, Rank
  <2>2. (IF m \in NewBundle \ NewWasm THEN Steps("stage_bundle", <<m>>) ELSE <<>>) \in Seq(Phase(3)) BY <2>1
  <2> QED BY <2>1, <2>2, ToSetConcat DEF StageFront
<1>5. ASSUME NEW m \in Fronts PROVE ApplyFront(m) \in Seq(Phase(11))
  <2>1. /\ Steps("restore", <<m>>) \in Seq(Phase(11)) /\ Steps("install_frontend", <<m>>) \in Seq(Phase(11))
        /\ Steps("ship_bundle", <<m>>) \in Seq(Phase(11)) /\ Steps("commit_bundle", <<m>>) \in Seq(Phase(11))
    BY <1>3 DEF FrontOps, Rank
  <2>2. /\ (IF m \in NewWasm THEN Steps("install_frontend", <<m>>) ELSE <<>>) \in Seq(Phase(11))
        /\ (IF m \in NewWasm \cap NewBundle THEN Steps("ship_bundle", <<m>>) ELSE <<>>) \in Seq(Phase(11))
        /\ (IF m \in NewBundle THEN Steps("commit_bundle", <<m>>) ELSE <<>>) \in Seq(Phase(11))
    BY <2>1
  <2> QED BY <2>1, <2>2, ToSetConcat DEF ApplyFront
<1>6. /\ [i \in 1..Len(Frontends) |-> StageFront(Frontends[i])] \in Seq(Seq(Phase(3)))
      /\ [i \in 1..Len(Frontends) |-> ApplyFront(Frontends[i])] \in Seq(Seq(Phase(11)))
  BY <1>2, <1>4, <1>5
<1>7. PerFront(StageFront) \in Seq(Phase(3)) BY <1>6, FlattenSeqElements DEF PerFront
<1>8. PerFront(ApplyFront) \in Seq(Phase(11)) BY <1>6, FlattenSeqElements DEF PerFront
<1> QED BY <1>7, <1>8, OnePhase DEF Phase

\* The step, or call, op of member m.
Of(op, m) == [op |-> op, cid |-> m]

\* The plan: its phases are in order, the first step is the preflight, the last the
\* cleanup; every frontend is snapshotted, put under maintenance and verified, every
\* backend stopped, snapshotted and verified.
LEMMA PlanOrder ==
  /\ Ordered(Plan, 1, 14) /\ Len(Plan) > 1
  /\ Plan[1].op = "preflight" /\ Plan[Len(Plan)].op = "cleanup"
  /\ \A f \in Fronts, op \in {"snapshot_frontend", "maintenance_on", "verify_frontend"} : Of(op, f) \in ToSet(Plan)
  /\ \A b \in Backs, op \in {"stop", "snapshot", "verify_backend"} : Of(op, b) \in ToSet(Plan)
<1>1. /\ Frontends \in Seq(Fronts) /\ Backends \in Seq(Backs) /\ Fronts \in SUBSET Member /\ Backs \in SUBSET Member
      /\ ToSet(Frontends) = Fronts /\ ToSet(Backends) = Backs /\ Member \in SUBSET Member
  BY MembersAssumption DEF Member, Fronts, Backs
<1>2. Having(Frontends \o Backends, NewWasm) \in Seq(Member) /\ Having(Backends, NewWasm) \in Seq(Backs)
  <2>1. Frontends \in Seq(Member) /\ Backends \in Seq(Member) BY <1>1
  <2>2. Frontends \o Backends \in Seq(Member) BY <2>1, ToSetConcat
  <2>3. Having(Frontends \o Backends, NewWasm) \in Seq(Member \cap NewWasm) BY <2>2, HavingElements
  <2>4. Having(Backends, NewWasm) \in Seq(Backs \cap NewWasm) BY <1>1, HavingElements
  <2> QED BY <2>3, <2>4
<1>3. /\ \A op \in FrontOps : Legal(op, Fronts)
      /\ \A op \in BackOps : Legal(op, Backs)
      /\ Legal("stage_release", Member)
  BY DEF PlanSteps, Phase, Legal
<1>4. /\ Rank("preflight") = 1 /\ Rank("stage_release") = 2 /\ Rank("snapshot_frontend") = 4 /\ Rank("maintenance_on") = 5
      /\ Rank("stop") = 6 /\ Rank("snapshot") = 7 /\ Rank("install") = 8 /\ Rank("start") = 9
      /\ Rank("verify_backend") = 10 /\ Rank("verify_frontend") = 12 /\ Rank("bake") = 13 /\ Rank("cleanup") = 14
  BY DEF Rank
<1> DEFINE s1 == Alone("preflight")
           s2 == Steps("stage_release", Having(Frontends \o Backends, NewWasm))
           s3 == PerFront(StageFront)
           s4 == Steps("snapshot_frontend", Frontends)
           s5 == Steps("maintenance_on", Frontends)
           s6 == Steps("stop", Backends)
           s7 == Steps("snapshot", Backends)
           s8 == Steps("install", Having(Backends, NewWasm))
           s9 == Steps("start", Backends)
           s10 == Steps("verify_backend", Backends)
           s11 == PerFront(ApplyFront)
           s12 == Steps("verify_frontend", Frontends)
           s13 == Alone("bake")
           s14 == Alone("cleanup")
           From(op, S) == {Of(op, m) : m \in S}
<1>5. Ordered(s1, 1, 1) /\ Ordered(s13, 13, 13) /\ Ordered(s14, 14, 14)
  BY <1>4, AloneOrdered DEF AloneOps
<1>6. Ordered(s3, 3, 3) /\ Ordered(s11, 11, 11) BY PerFrontOrdered
<1>7. Ordered(s2, 2, 2) /\ Ordered(s8, 8, 8)
  <2>1. Legal("install", Backs) BY <1>3 DEF BackOps
  <2>2. Ordered(s2, Rank("stage_release"), Rank("stage_release")) BY <1>2, <1>3, <1>4, StepsOrdered
  <2>3. Ordered(s8, Rank("install"), Rank("install")) BY <2>1, <1>2, <1>4, StepsOrdered, SMTT(30)
  <2> QED BY <2>2, <2>3, <1>4
<1>8. /\ Ordered(s4, 4, 4) /\ Ordered(s5, 5, 5) /\ Ordered(s12, 12, 12)
      /\ ToSet(s4) = From("snapshot_frontend", Fronts) /\ ToSet(s5) = From("maintenance_on", Fronts)
      /\ ToSet(s12) = From("verify_frontend", Fronts)
  <2>1. {"snapshot_frontend", "maintenance_on", "verify_frontend"} \subseteq FrontOps BY DEF FrontOps
  <2>2. ASSUME NEW op \in {"snapshot_frontend", "maintenance_on", "verify_frontend"}
        PROVE  /\ Ordered(Steps(op, Frontends), Rank(op), Rank(op))
               /\ ToSet(Steps(op, Frontends)) = {[op |-> op, cid |-> x] : x \in ToSet(Frontends)}
    <3>1. Legal(op, Fronts) /\ Rank(op) \in Nat BY <2>1, <1>3, <1>4
    <3> QED BY <3>1, <1>1, StepsOrdered
  <2> QED BY <2>2, <1>1, <1>4 DEF Of
<1>9. /\ Ordered(s6, 6, 6) /\ Ordered(s7, 7, 7) /\ Ordered(s9, 9, 9) /\ Ordered(s10, 10, 10)
      /\ ToSet(s6) = From("stop", Backs) /\ ToSet(s7) = From("snapshot", Backs)
      /\ ToSet(s10) = From("verify_backend", Backs)
  <2>1. {"stop", "snapshot", "start", "verify_backend"} \subseteq BackOps BY DEF BackOps
  <2>2. ASSUME NEW op \in {"stop", "snapshot", "start", "verify_backend"}
        PROVE  /\ Ordered(Steps(op, Backends), Rank(op), Rank(op))
               /\ ToSet(Steps(op, Backends)) = {[op |-> op, cid |-> x] : x \in ToSet(Backends)}
    <3>1. Legal(op, Backs) /\ Rank(op) \in Nat BY <2>1, <1>3, <1>4
    <3> QED BY <3>1, <1>1, StepsOrdered
  <2> QED BY <2>2, <1>1, <1>4 DEF Of
<1>10. s1 = <<[op |-> "preflight", cid |-> None]>> /\ s14 = <<[op |-> "cleanup", cid |-> None]>> BY DEF Alone
<1>11. Plan = s1 \o s2 \o s3 \o s4 \o s5 \o s6 \o s7 \o s8 \o s9 \o s10 \o s11 \o s12 \o s13 \o s14 BY DEF Plan
<1> HIDE DEF s1, s2, s3, s4, s5, s6, s7, s8, s9, s10, s11, s12, s13, s14
<1> DEFINE p2 == s1 \o s2
           p3 == p2 \o s3
           p4 == p3 \o s4
           p5 == p4 \o s5
           p6 == p5 \o s6
           p7 == p6 \o s7
           p8 == p7 \o s8
           p9 == p8 \o s9
           p10 == p9 \o s10
           p11 == p10 \o s11
           p12 == p11 \o s12
           p13 == p12 \o s13
<1>12. Plan = p13 \o s14 BY <1>11
<1> HIDE DEF p13
<1>13. Ordered(p2, 1, 2) /\ ToSet(p2) = ToSet(s1) \cup ToSet(s2) BY <1>5, <1>7, OrderedConcat
<1>a. Ordered(p3, 1, 3) /\ ToSet(p3) = ToSet(p2) \cup ToSet(s3)
  <2> HIDE DEF p2
  <2> QED BY <1>13, <1>6, OrderedConcat
<1>b. Ordered(p4, 1, 4) /\ ToSet(p4) = ToSet(p3) \cup ToSet(s4)
  <2> HIDE DEF p3
  <2> QED BY <1>a, <1>8, OrderedConcat
<1>c. Ordered(p5, 1, 5) /\ ToSet(p5) = ToSet(p4) \cup ToSet(s5)
  <2> HIDE DEF p4
  <2> QED BY <1>b, <1>8, OrderedConcat
<1>d. Ordered(p6, 1, 6) /\ ToSet(p6) = ToSet(p5) \cup ToSet(s6)
  <2> HIDE DEF p5
  <2> QED BY <1>c, <1>9, OrderedConcat
<1>e. Ordered(p7, 1, 7) /\ ToSet(p7) = ToSet(p6) \cup ToSet(s7)
  <2> HIDE DEF p6
  <2> QED BY <1>d, <1>9, OrderedConcat
<1>f. Ordered(p8, 1, 8) /\ ToSet(p8) = ToSet(p7) \cup ToSet(s8)
  <2> HIDE DEF p7
  <2> QED BY <1>e, <1>7, OrderedConcat
<1>g. Ordered(p9, 1, 9) /\ ToSet(p9) = ToSet(p8) \cup ToSet(s9)
  <2> HIDE DEF p8
  <2> QED BY <1>f, <1>9, OrderedConcat
<1>h. Ordered(p10, 1, 10) /\ ToSet(p10) = ToSet(p9) \cup ToSet(s10)
  <2> HIDE DEF p9
  <2> QED BY <1>g, <1>9, OrderedConcat
<1>i. Ordered(p11, 1, 11) /\ ToSet(p11) = ToSet(p10) \cup ToSet(s11)
  <2> HIDE DEF p10
  <2> QED BY <1>h, <1>6, OrderedConcat
<1>j. Ordered(p12, 1, 12) /\ ToSet(p12) = ToSet(p11) \cup ToSet(s12)
  <2> HIDE DEF p11
  <2> QED BY <1>i, <1>8, OrderedConcat
<1>k. Ordered(p13, 1, 13) /\ ToSet(p13) = ToSet(p12) \cup ToSet(s13)
  <2> HIDE DEF p12
  <2> QED BY <1>j, <1>5, OrderedConcat DEF p13
<1>l. Ordered(Plan, 1, 14) /\ ToSet(Plan) = ToSet(p13) \cup ToSet(s14) BY <1>12, <1>k, <1>5, OrderedConcat
<1>n. /\ ToSet(s4) \subseteq ToSet(Plan) /\ ToSet(s5) \subseteq ToSet(Plan) /\ ToSet(s6) \subseteq ToSet(Plan)
      /\ ToSet(s7) \subseteq ToSet(Plan) /\ ToSet(s10) \subseteq ToSet(Plan) /\ ToSet(s12) \subseteq ToSet(Plan)
  <2> HIDE DEF p2, p3, p4, p5, p6, p7, p8, p9, p10, p11, p12
  <2> QED BY <1>a, <1>b, <1>c, <1>d, <1>e, <1>f, <1>g, <1>h, <1>i, <1>j, <1>k, <1>l
<1>o. Len(Plan) > 1 /\ Plan[1].op = "preflight" /\ Plan[Len(Plan)].op = "cleanup"
  <2>1. s1[1] = Of("preflight", None) /\ s14[1] = Of("cleanup", None) /\ s1[1] \in ToSet(s1) /\ s14[1] \in ToSet(s14)
    BY <1>10 DEF Of, ToSet
  <2>2. ToSet(s1) \subseteq ToSet(Plan) /\ ToSet(s14) \subseteq ToSet(Plan)
    <3>1. ToSet(p2) = ToSet(s1) \cup ToSet(s2) BY <1>13
    <3> HIDE DEF p2, p3, p4, p5, p6, p7, p8, p9, p10, p11, p12
    <3> QED BY <3>1, <1>a, <1>b, <1>c, <1>d, <1>e, <1>f, <1>g, <1>h, <1>i, <1>j, <1>k, <1>l
  <2>3. PICK i \in DOMAIN Plan : Plan[i].op = "preflight" BY <2>1, <2>2 DEF ToSet, Of
  <2>4. PICK k \in DOMAIN Plan : Plan[k].op = "cleanup" BY <2>1, <2>2 DEF ToSet, Of
  <2>5. /\ Plan \in Seq(PlanSteps) /\ Len(Plan) \in Nat /\ DOMAIN Plan = 1..Len(Plan) BY <1>l DEF Ordered
  <2>6. i # k /\ 1 \in DOMAIN Plan /\ Len(Plan) \in DOMAIN Plan /\ 1 <= i /\ k <= Len(Plan) /\ Len(Plan) > 1
    BY <2>3, <2>4, <2>5
  <2>7. Rank(Plan[1].op) = 1 /\ Rank(Plan[Len(Plan)].op) = 14
    <3>1. Plan[1] \in PlanSteps /\ Plan[Len(Plan)] \in PlanSteps BY <2>5, <2>6
    <3>2. Rank(Plan[1].op) <= 1 /\ 14 <= Rank(Plan[Len(Plan)].op) BY <1>4, <1>l, <2>3, <2>4, <2>6 DEF Ordered
    <3> QED BY <3>1, <3>2, RankIsNatural, SMTT(30)
  <2>8. \A x \in PlanSteps : (Rank(x.op) = 1 => x.op = "preflight") /\ (Rank(x.op) = 14 => x.op = "cleanup")
    <3>1. \A x \in PlanSteps : x.op \in AloneOps \cup {"stage_release"} \cup FrontOps \cup BackOps BY DEF PlanSteps
    <3>2. ASSUME NEW op \in AloneOps \cup {"stage_release"} \cup FrontOps \cup BackOps
          PROVE  (Rank(op) = 1 => op = "preflight") /\ (Rank(op) = 14 => op = "cleanup")
      <4>1. CASE op \in AloneOps BY <1>4, <4>1 DEF AloneOps
      <4>2. CASE op = "stage_release" BY <1>4, <4>2
      <4>3. CASE op \in BackOps BY <1>4, <4>3 DEF BackOps
      <4>4. CASE op \in FrontOps
        <5>1. Rank(op) \in {3, 4, 5, 11, 12} BY <4>4 DEF FrontOps, Rank
        <5> QED BY <5>1
      <4> QED BY <3>2, <4>1, <4>2, <4>3, <4>4
    <3> QED BY <3>1, <3>2
  <2> QED BY <2>5, <2>6, <2>7, <2>8
<1> QED BY <1>l, <1>n, <1>o, <1>8, <1>9 DEF Of

\* The rank of every step.
LEMMA Ranks ==
  /\ Rank("preflight") = 1 /\ Rank("stage_release") = 2 /\ Rank("stage_maintenance") = 3 /\ Rank("copy_files") = 3
  /\ Rank("stage_bundle") = 3 /\ Rank("snapshot_frontend") = 4 /\ Rank("maintenance_on") = 5 /\ Rank("stop") = 6
  /\ Rank("snapshot") = 7 /\ Rank("install") = 8 /\ Rank("start") = 9 /\ Rank("verify_backend") = 10
  /\ Rank("restore") = 11 /\ Rank("install_frontend") = 11 /\ Rank("ship_bundle") = 11 /\ Rank("commit_bundle") = 11
  /\ Rank("verify_frontend") = 12 /\ Rank("bake") = 13 /\ Rank("cleanup") = 14
BY DEF Rank

\* The plan as the proofs use it: steps of a lower rank come before those of a higher.
LEMMA PlanIsSeq ==
  /\ Plan \in Seq(PlanSteps) /\ Len(Plan) \in Nat /\ Len(Plan) > 1 /\ DOMAIN Plan = 1..Len(Plan)
  /\ \A i \in 1..Len(Plan) : Plan[i] \in PlanSteps /\ Rank(Plan[i].op) \in 1..14
  /\ \A i, j \in 1..Len(Plan) : Rank(Plan[i].op) < Rank(Plan[j].op) => i < j
<1>1. Plan \in Seq(PlanSteps) /\ Len(Plan) \in Nat /\ Len(Plan) > 1 /\ DOMAIN Plan = 1..Len(Plan)
  BY PlanOrder DEF Ordered
<1>2. \A i \in 1..Len(Plan) : Plan[i] \in PlanSteps BY <1>1
<1>3. \A i \in 1..Len(Plan) : Rank(Plan[i].op) \in 1..14 BY <1>2, RankIsNatural
<1>4. \A i, j \in 1..Len(Plan) : i <= j => Rank(Plan[i].op) <= Rank(Plan[j].op) BY <1>1, PlanOrder DEF Ordered
<1>5. \A i, j \in 1..Len(Plan) : Rank(Plan[i].op) < Rank(Plan[j].op) => i < j
  <2> SUFFICES ASSUME NEW i \in 1..Len(Plan), NEW j \in 1..Len(Plan), ~(i < j)
               PROVE  ~(Rank(Plan[i].op) < Rank(Plan[j].op))
    OBVIOUS
  <2>1. j <= i BY <1>1
  <2>2. Rank(Plan[j].op) <= Rank(Plan[i].op) BY <1>4, <2>1
  <2>3. PICK m \in 1..14, n \in 1..14 : m = Rank(Plan[i].op) /\ n = Rank(Plan[j].op) BY <1>3
  <2>4. n <= m BY <2>2, <2>3
  <2>5. ~(m < n) BY <2>4
  <2> QED BY <2>3, <2>5
<1> QED BY <1>1, <1>2, <1>3, <1>5

\* The window is what lies between the snapshots of the frontends and the bake.
LEMMA WindowRanks ==
  ASSUME NEW x \in PlanSteps
  PROVE  x.op \in WindowOps <=> 5 <= Rank(x.op) /\ Rank(x.op) <= 12
<1>1. ASSUME NEW op \in AloneOps \cup {"stage_release"} \cup FrontOps \cup BackOps
      PROVE  op \in WindowOps <=> 5 <= Rank(op) /\ Rank(op) <= 12
  <2>1. CASE op \in AloneOps BY <2>1, Ranks DEF AloneOps, WindowOps
  <2>2. CASE op = "stage_release" BY <2>2, Ranks DEF WindowOps
  <2>3. CASE op \in BackOps BY <2>3, Ranks DEF BackOps, WindowOps
  <2>4. CASE op \in FrontOps BY <2>4, Ranks DEF FrontOps, WindowOps
  <2> QED BY <1>1, <2>1, <2>2, <2>3, <2>4
<1>2. x.op \in AloneOps \cup {"stage_release"} \cup FrontOps \cup BackOps BY DEF PlanSteps
<1> QED BY <1>1, <1>2

\* The window opens at the first step past the frontends' snapshots.
LEMMA WindowIs ==
  /\ WindowFrom \in 1..Len(Plan)
  /\ \A i \in 1..Len(Plan) : i < WindowFrom <=> Rank(Plan[i].op) <= 4
<1> DEFINE inside == {i \in 1..Len(Plan) : InWindow(i)}
<1>1. \A i \in 1..Len(Plan) : InWindow(i) <=> 5 <= Rank(Plan[i].op) /\ Rank(Plan[i].op) <= 12
  BY PlanIsSeq, WindowRanks DEF InWindow
<1>2. inside # {}
  <2>1. Fronts # {} \/ Backs # {} BY MembersAssumption DEF Member
  <2>2. CASE Fronts # {}
    <3>1. PICK f \in Fronts : TRUE BY <2>2
    <3>2. PICK i \in DOMAIN Plan : Plan[i] = Of("maintenance_on", f) BY PlanOrder DEF ToSet
    <3> QED BY <1>1, <3>2, PlanIsSeq, Ranks DEF Of
  <2>3. CASE Backs # {}
    <3>1. PICK b \in Backs : TRUE BY <2>3
    <3>2. PICK i \in DOMAIN Plan : Plan[i] = Of("stop", b) BY PlanOrder DEF ToSet
    <3> QED BY <1>1, <3>2, PlanIsSeq, Ranks DEF Of
  <2> QED BY <2>1, <2>2, <2>3
<1>3. PICK k \in inside : \A j \in inside : k <= j
  <2>1. inside \subseteq Nat OBVIOUS
  <2> HIDE DEF inside
  <2> QED BY <1>2, <2>1, LeastNatural
<1>4. k \in 1..Len(Plan) /\ InWindow(k) /\ \A j \in 1..(k - 1) : ~InWindow(j)
  <2>1. \A j \in 1..(k - 1) : j \in 1..Len(Plan) /\ ~(k <= j) BY PlanIsSeq
  <2> QED BY <1>3, <2>1
<1> DEFINE w == WindowFrom
<1>5. w \in 1..Len(Plan) /\ InWindow(w) /\ \A j \in 1..(w - 1) : ~InWindow(j)
  BY <1>4 DEF WindowFrom
<1> HIDE DEF w, inside
<1>6. ASSUME NEW i \in 1..Len(Plan), i < w PROVE Rank(Plan[i].op) <= 4
  <2>1. i \in 1..(w - 1) BY <1>5, <1>6, PlanIsSeq
  <2>2. ~InWindow(i) /\ InWindow(w) /\ ~(Rank(Plan[w].op) < Rank(Plan[i].op)) BY <1>5, <1>6, <2>1, PlanIsSeq
  <2>3. Rank(Plan[i].op) \in 1..14 /\ Rank(Plan[w].op) \in 1..14 BY <1>5, PlanIsSeq
  <2>4. Rank(Plan[i].op) <= Rank(Plan[w].op) /\ Rank(Plan[w].op) <= 12 BY <1>1, <1>5, <2>2, <2>3
  <2> QED BY <1>1, <2>2, <2>3, <2>4
<1>7. ASSUME NEW i \in 1..Len(Plan), Rank(Plan[i].op) <= 4 PROVE i < w
  <2>1. Rank(Plan[i].op) < Rank(Plan[w].op) BY <1>1, <1>5, <1>7, PlanIsSeq
  <2> QED BY <1>5, <2>1, PlanIsSeq
<1> QED BY <1>5, <1>6, <1>7 DEF w
-----------------------------------------------------------------------------
(* What an executor may still call *)

\* The calls of a rollback,
RollbackCall == [op : {"stop", "load", "start", "try_load", "delete_batch", "clear_chunks"}, cid : Member]

\* of a cleanup,
CleanupCall == [op : {"delete_batch", "clear_chunks", "delete"}, cid : Member]

\* of a frontend's restore.
RestoreCall(m) == [op : {"try_load", "stop", "load", "start"}, cid : {m}]

\* The step at the cursor,
Step == Plan[rec.cursor]

\* the phase it is of,
Reached == Rank(Step.op)

\* and whether the release goes on.
Open == rec.outcome = "OPEN"

\* The calls an executor of some mode makes; s is the step at the cursor.
Allowed(mode, s) ==
  IF mode = "step" THEN (IF s.op = "restore" THEN RestoreCall(s.cid) ELSE {s})
  ELSE IF mode = "rollback" THEN RollbackCall ELSE CleanupCall

\* The outcomes an executor of some mode may end with.
Ends1(mode) ==
  IF mode = "step" THEN {"OPEN"}
  ELSE IF mode = "abandon" THEN {"REJECTED_PREFLIGHT", "FAILED_STAGING", "ABORTED"} ELSE {"ROLLED_BACK"}

\* The executor works on the open record's cursor, makes the calls of its mode, and
\* only a rollback has problems.
CallsOK ==
  /\ Open => rec.cursor \in DOMAIN Plan
  /\ run # None =>
       /\ Open /\ run.mem.cursor = rec.cursor /\ run.mem.outcome = "OPEN"
       /\ run.todo \in Seq(Allowed(run.mode, Step))
       /\ run.mode = "step" => Step.op # "bake" /\ (Step.op # "restore" => run.todo \in {<<>>, <<Step>>})
       /\ run.end \in Ends1(run.mode)
       /\ run.problems => run.mode = "rollback"

\* A member carries something of the release only from its install or commit on.
UntouchedOld ==
  Open => /\ \A b \in Backs : applied[b] # {} => Reached >= 8
          /\ \A f \in Fronts : applied[f] # {} => Reached >= 11

\* The inductive invariant that holds however many executors die.
Inv == TypeOK /\ CallsOK /\ UntouchedOld /\ SnapshotsAreOld

\* The calls as the type invariant has them.
Call == [op : CallOps, cid : Member \cup {None}]

\* What a mode allows are steps, calls of the rollback or of the cleanup,
LEMMA AllowedAreCalls ==
  ASSUME NEW s \in PlanSteps, NEW mode
  PROVE  Allowed(mode, s) \subseteq PlanSteps \cup RollbackCall \cup CleanupCall
<1>1. s.op = "restore" => s.cid \in Member BY DEF PlanSteps, Member, BackOps, AloneOps
<1> QED BY <1>1 DEF Allowed, RestoreCall, RollbackCall

\* which are calls.
LEMMA CallsAreCalls == PlanSteps \cup RollbackCall \cup CleanupCall \subseteq Call
BY DEF PlanSteps, RollbackCall, CleanupCall, Call, CallOps, WindowOps, FrontOps, BackOps, AloneOps, Member

\* The members in the payload's order are members.
LEMMA MembersSeq ==
  /\ Frontends \in Seq(Member) /\ Backends \in Seq(Member) /\ Frontends \o Backends \in Seq(Member)
  /\ \A i \in 1..Len(Backends) : Backends[i] \in Backs
  /\ \A i \in 1..Len(Frontends) : Frontends[i] \in Fronts
  /\ Len(Backends) \in Nat /\ Len(Frontends) \in Nat
<1>1. Frontends \in Seq(Fronts) /\ Backends \in Seq(Backs) BY MembersAssumption
<1>2. Fronts \subseteq Member /\ Backs \subseteq Member BY DEF Member
<1>3. Frontends \in Seq(Member) /\ Backends \in Seq(Member) BY <1>1, <1>2, SeqOfSubset
<1> QED BY <1>1, <1>3, ToSetConcat

\* The calls that are made one after the other have the types of their mode.
LEMMA StepsAre ==
  ASSUME NEW op, NEW M, NEW s \in Seq(M), NEW X, [op : {op}, cid : M] \subseteq X
  PROVE  Steps(op, s) \in Seq(X)
<1> DEFINE Y == [op : {op}, cid : M]
<1>1. Steps(op, s) \in Seq(Y) BY StepsElements
<1>2. Y \subseteq X OBVIOUS
<1> HIDE DEF Y
<1> QED BY <1>1, <1>2, SeqOfSubset

\* What unstages a release may be called by the rollback and by the cleanup.
LEMMA UnstageCallsAre ==
  ASSUME NEW r \in Record
  PROVE  UnstageCalls(r) \in Seq(RollbackCall) /\ UnstageCalls(r) \in Seq(CleanupCall)
<1>1. Having(Frontends, r.batches) \in Seq(Member) BY MembersSeq, HavingAre
<1>2. \A op \in {"delete_batch", "clear_chunks"} : [op : {op}, cid : Member] \subseteq RollbackCall \cap CleanupCall
  BY DEF RollbackCall, CleanupCall
<1>3. /\ Steps("delete_batch", Having(Frontends, r.batches)) \in Seq(RollbackCall \cap CleanupCall)
      /\ Steps("clear_chunks", Frontends \o Backends) \in Seq(RollbackCall \cap CleanupCall)
  BY <1>1, <1>2, MembersSeq, StepsAre
<1>4. UnstageCalls(r) \in Seq(RollbackCall \cap CleanupCall) BY <1>3, ToSetConcat DEF UnstageCalls
<1> QED BY <1>4, SeqOfSubset

\* What deletes its snapshots, and what abandons it, is cleanup.
LEMMA CleanupCallsAre ==
  ASSUME NEW r \in Record
  PROVE  DeleteCalls(r) \in Seq(CleanupCall) /\ AbandonCalls(r) \in Seq(CleanupCall)
<1>1. Having(Frontends \o Backends, r.snapshots) \in Seq(Member) BY MembersSeq, HavingAre
<1>2. [op : {"delete"}, cid : Member] \subseteq CleanupCall BY DEF CleanupCall
<1>3. DeleteCalls(r) \in Seq(CleanupCall) BY <1>1, <1>2, StepsAre DEF DeleteCalls
<1> QED BY <1>3, UnstageCallsAre, ToSetConcat DEF AbandonCalls

\* What the rollback asks of one member are calls of the rollback.
LEMMA RollbackParts ==
  ASSUME NEW r \in Record, NEW m \in Member
  PROVE  /\ RollBackend(r, m) \in Seq(RollbackCall) /\ RollFrontend(r, m) \in Seq(RollbackCall)
         /\ StopLoadStart(m) \in Seq(RollbackCall) /\ StopLoadStart(m) \in Seq(RestoreCall(m))
<1>1. <<m>> \in Seq({m}) BY SeqOfOne
<1>2. \A op \in {"stop", "load", "start", "try_load"} : Steps(op, <<m>>) \in Seq(RollbackCall \cap RestoreCall(m))
  <2> SUFFICES ASSUME NEW op \in {"stop", "load", "start", "try_load"}
               PROVE  Steps(op, <<m>>) \in Seq(RollbackCall \cap RestoreCall(m))
    OBVIOUS
  <2>1. [op : {op}, cid : {m}] \subseteq RollbackCall \cap RestoreCall(m) BY DEF RollbackCall, RestoreCall
  <2> QED BY <1>1, <2>1, StepsAre
<1>3. <<>> \in Seq(RollbackCall \cap RestoreCall(m)) OBVIOUS
<1> DEFINE X == RollbackCall \cap RestoreCall(m)
<1>4. \A a, b \in Seq(X) : a \o b \in Seq(X) BY ToSetConcat
<1>5. RollBackend(r, m) \in Seq(X) /\ RollFrontend(r, m) \in Seq(X) /\ StopLoadStart(m) \in Seq(X)
  <2>1. /\ Steps("stop", <<m>>) \in Seq(X) /\ Steps("load", <<m>>) \in Seq(X) /\ Steps("start", <<m>>) \in Seq(X)
        /\ Steps("try_load", <<m>>) \in Seq(X) /\ <<>> \in Seq(X)
    BY <1>2, <1>3
  <2> HIDE DEF X
  <2> QED BY <1>4, <2>1 DEF RollBackend, RollFrontend, StopLoadStart
<1> QED BY <1>5, SeqOfSubset

\* So is all the rollback asks.
LEMMA RollbackCallsAre ==
  ASSUME NEW r \in Record
  PROVE  RollbackCalls(r) \in Seq(RollbackCall)
<1>1. /\ [i \in 1..Len(Backends) |-> RollBackend(r, Backends[i])] \in Seq(Seq(RollbackCall))
      /\ [i \in 1..Len(Frontends) |-> RollFrontend(r, Frontends[i])] \in Seq(Seq(RollbackCall))
  BY MembersSeq, RollbackParts DEF Member
<1>2. /\ FlattenSeq([i \in 1..Len(Backends) |-> RollBackend(r, Backends[i])]) \in Seq(RollbackCall)
      /\ FlattenSeq([i \in 1..Len(Frontends) |-> RollFrontend(r, Frontends[i])]) \in Seq(RollbackCall)
  BY <1>1, FlattenSeqElements
<1> QED BY <1>2, UnstageCallsAre, ToSetConcat DEF RollbackCalls
-----------------------------------------------------------------------------
(* Types, and what the snapshots hold *)

\* The types of what is on the chain.
ChainOK ==
  /\ applied \in [Member -> Content]
  /\ maint \subseteq Fronts /\ running \subseteq Member
  /\ staged \in [Member -> Staged]
  /\ icSnaps \in [Member -> Snapshot \cup {None}]

\* A call that is answered keeps them.
LEMMA EffectTypes ==
  ASSUME ChainOK, NEW c \in PlanSteps \cup RollbackCall \cup CleanupCall, ~Impossible(c), Effect(c)
  PROVE  ChainOK'
<1>1. LoadCall(c) => c.cid \in Member /\ icSnaps[c.cid] \in Snapshot
  <2> SUFFICES ASSUME LoadCall(c) PROVE c.cid \in Member /\ icSnaps[c.cid] \in Snapshot OBVIOUS
  <2>1. c.cid \in Member
    BY DEF LoadCall, PlanSteps, RollbackCall, CleanupCall, FrontOps, BackOps, AloneOps
  <2>2. icSnaps[c.cid] # None BY DEF Impossible, NoSnapshot, LoadCall
  <2> QED BY <2>1, <2>2 DEF ChainOK
<1>2. /\ c.op = "maintenance_on" => c.cid \in Fronts
      /\ c.op \in {"stop", "start"} => c.cid \in Member
  BY DEF PlanSteps, RollbackCall, CleanupCall, FrontOps, BackOps, AloneOps, Member
<1>3. SnapshotCall(c) => c.cid \in Member
  BY DEF PlanSteps, RollbackCall, CleanupCall, FrontOps, BackOps, AloneOps, Member, SnapshotCall
<1>4. applied' \in [Member -> Content]
  <2>1. {} \in Content /\ \A x \in Content : x \cup {"wasm"} \in Content /\ x \cup {"bundle"} \in Content BY DEF Content
  <2>2. LoadCall(c) => icSnaps[c.cid].applied \in Content BY <1>1 DEF Snapshot
  <2>3. applied \in [Member -> Content] BY DEF ChainOK
  <2>4. applied' = AppliedAfter(c) BY DEF Effect
  <2> QED BY <2>1, <2>2, <2>3, <2>4 DEF AppliedAfter
<1>5. maint' \subseteq Fronts /\ running' \subseteq Member
  BY <1>2 DEF Effect, MaintAfter, RunningAfter, ChainOK
<1>6. staged' \in [Member -> Staged]
  <2>1. LoadCall(c) => icSnaps[c.cid].staged \in Staged BY <1>1 DEF Snapshot
  <2>2. staged \in [Member -> Staged] /\ Cleaned \in [Member -> Staged] BY DEF ChainOK, Cleaned, Staged
  <2>3. \A x \in Staged : x \cup StagedWasm(c) \in Staged /\ x \cup {"batch"} \in Staged /\ x \ {"batch"} \in Staged
    BY DEF Staged, StagedWasm
  <2>4. c.cid \in Member => Cleaned[c.cid] \in Staged BY <2>2
  <2>5. staged' = StagedAfter(c) BY DEF Effect
  <2> QED BY <2>1, <2>2, <2>3, <2>4, <2>5 DEF StagedAfter
<1>7. icSnaps' \in [Member -> Snapshot \cup {None}]
  <2>1. SnapshotCall(c) => [applied |-> applied[c.cid], staged |-> staged[c.cid]] \in Snapshot
    BY <1>3 DEF Snapshot, ChainOK
  <2> QED BY <2>1 DEF Effect, SnapsAfter, ChainOK
<1> QED BY <1>4, <1>5, <1>6, <1>7 DEF ChainOK

\* What is noted in the copy leaves it a record, at the same cursor.
LEMMA NotedIs ==
  ASSUME NEW r \in Record, NEW c \in PlanSteps \cup RollbackCall \cup CleanupCall
  PROVE  /\ Noted(r, c) \in Record
         /\ Noted(r, c).cursor = r.cursor /\ Noted(r, c).outcome = r.outcome /\ Noted(r, c).touched = r.touched
<1>1. /\ SnapshotCall(c) => c.cid \in Member
      /\ BundleCall(c) => c.cid \in Fronts
  BY DEF PlanSteps, RollbackCall, CleanupCall, FrontOps, BackOps, AloneOps, Member, SnapshotCall, BundleCall
<1> QED BY <1>1 DEF Noted, Record

\* So does the entry of a step, which only adds to what was touched and stopped.
LEMMA EnteringIs ==
  ASSUME NEW r \in Record, r.cursor \in DOMAIN Plan
  PROVE  /\ Entering(r) \in Record
         /\ Entering(r).cursor = r.cursor /\ Entering(r).outcome = r.outcome
         /\ Entering(r).snapshots = r.snapshots /\ r.touched \subseteq Entering(r).touched
         /\ r.stopped \subseteq Entering(r).stopped
<1>1. Plan[r.cursor] \in PlanSteps BY PlanIsSeq
<1>2. /\ Plan[r.cursor].op = "maintenance_on" => Plan[r.cursor].cid \in Fronts
      /\ Plan[r.cursor].op = "stop" => Plan[r.cursor].cid \in Backs
  BY <1>1 DEF PlanSteps, FrontOps, BackOps, AloneOps
<1> QED BY <1>2 DEF Entering, Record

\* An executor with those calls left.
LEMMA ExecutorIs ==
  ASSUME NEW mode \in {"step", "abandon", "rollback", "discard"}, NEW end \in Terminal \cup {"OPEN"},
         NEW mem \in Record, NEW s \in PlanSteps, NEW todo \in Seq(Allowed(mode, s))
  PROVE  /\ Doing(mode, end, mem, todo) \in Executor /\ todo \in Seq(Call)
<1>1. Allowed(mode, s) \subseteq Call BY AllowedAreCalls, CallsAreCalls
<1>2. todo \in Seq(Call) BY <1>1, SeqOfSubset
<1> QED BY <1>2 DEF Doing, Executor, Call

\* What is known of an executor, and of its next call.
LEMMA Executing ==
  ASSUME Inv, run # None
  PROVE  /\ run \in Executor /\ run.mem \in Record /\ rec \in Record /\ Open
         /\ rec.cursor \in 1..Len(Plan) /\ Step \in PlanSteps /\ Reached \in 1..14
         /\ run.todo \in Seq(Allowed(run.mode, Step))
         /\ run.todo # <<>> =>
              /\ Head(run.todo) \in Allowed(run.mode, Step) /\ Tail(run.todo) \in Seq(Allowed(run.mode, Step))
              /\ Head(run.todo) \in PlanSteps \cup RollbackCall \cup CleanupCall
              /\ run.mode = "step" /\ Step.op # "restore" => Head(run.todo) = Step /\ Tail(run.todo) = <<>>
<1>1. run \in Executor /\ rec \in Record BY DEF Inv, TypeOK
<1>2. run.mem \in Record BY <1>1 DEF Executor
<1>3. Open /\ rec.cursor \in 1..Len(Plan) BY PlanIsSeq DEF Inv, CallsOK
<1>4. Step \in PlanSteps /\ Reached \in 1..14 BY <1>3, PlanIsSeq DEF Step, Reached
<1> DEFINE A == Allowed(run.mode, Step)
<1>5. run.todo \in Seq(A) BY DEF Inv, CallsOK
<1>6. A \subseteq PlanSteps \cup RollbackCall \cup CleanupCall BY <1>4, AllowedAreCalls
<1>7. run.mode = "step" /\ Step.op # "restore" => run.todo \in {<<>>, <<Step>>} BY DEF Inv, CallsOK
<1> HIDE DEF A
<1>8. run.todo # <<>> => Head(run.todo) \in A /\ Tail(run.todo) \in Seq(A) BY <1>5
<1>9. run.todo # <<>> /\ run.mode = "step" /\ Step.op # "restore" => Head(run.todo) = Step /\ Tail(run.todo) = <<>>
  <2>1. Head(<<Step>>) = Step /\ Tail(<<Step>>) = <<>> OBVIOUS
  <2> QED BY <1>7, <2>1
<1>10. run.todo # <<>> => Head(run.todo) \in PlanSteps \cup RollbackCall \cup CleanupCall BY <1>6, <1>8
<1> QED BY <1>1, <1>2, <1>3, <1>4, <1>5, <1>8, <1>9, <1>10 DEF A

\* A call is answered: only an install or a commit brings the release to a member, and
\* a snapshot is taken before that.
LEMMA CallSucceedsA == ASSUME Inv, CallSucceeds PROVE Inv'
<1> DEFINE c == Head(run.todo)
<1>1. /\ run # None /\ run.todo # <<>> /\ ~Impossible(c) /\ Effect(c)
      /\ run' = [run EXCEPT !.todo = Tail(@), !.mem = Noted(@, c)]
      /\ rec' = rec /\ failures' = failures /\ losses' = losses
  BY DEF CallSucceeds
<1>2. /\ run \in Executor /\ run.mem \in Record /\ rec \in Record /\ Open
      /\ rec.cursor \in 1..Len(Plan) /\ Step \in PlanSteps /\ Reached \in 1..14
      /\ c \in Allowed(run.mode, Step) /\ Tail(run.todo) \in Seq(Allowed(run.mode, Step))
      /\ c \in PlanSteps \cup RollbackCall \cup CleanupCall
      /\ run.mode = "step" /\ Step.op # "restore" => c = Step /\ Tail(run.todo) = <<>>
  BY <1>1, Executing
<1> HIDE DEF c
<1>3. ChainOK BY DEF Inv, TypeOK, ChainOK
<1>4. ChainOK' BY <1>1, <1>2, <1>3, EffectTypes
<1>5. /\ Noted(run.mem, c) \in Record /\ Noted(run.mem, c).cursor = run.mem.cursor
      /\ Noted(run.mem, c).outcome = run.mem.outcome
  BY <1>2, NotedIs
<1>6. Tail(run.todo) \in Seq(Call)
  <2>1. Allowed(run.mode, Step) \subseteq Call BY <1>2, AllowedAreCalls, CallsAreCalls
  <2> QED BY <1>2, <2>1, SeqOfSubset
<1>7. /\ run' \in Executor /\ run'.mode = run.mode /\ run'.end = run.end /\ run'.problems = run.problems
      /\ run'.todo = Tail(run.todo) /\ run'.mem = Noted(run.mem, c)
  BY <1>1, <1>2, <1>5, <1>6 DEF Executor, Call
<1>8. TypeOK' BY <1>1, <1>4, <1>7 DEF Inv, TypeOK, ChainOK
<1>9. Step' = Step /\ (Open <=> Open') BY <1>1 DEF Step, Open
<1>10. CallsOK' BY <1>1, <1>2, <1>5, <1>7, <1>9 DEF Inv, CallsOK
<1>11. ASSUME NEW m \in Member, applied'[m] # applied[m], applied'[m] # {}
       PROVE  c = Step /\ c.cid = m /\ c.op \in {"install", "install_frontend", "commit_bundle"}
  <2>1. applied' = AppliedAfter(c) BY <1>1 DEF Effect
  <2>2. ~LoadCall(c)
    <3> SUFFICES ASSUME LoadCall(c) PROVE FALSE OBVIOUS
    <3>1. c.op \in {"load", "try_load"} /\ c.cid \in Member
      BY <1>2 DEF LoadCall, PlanSteps, RollbackCall, CleanupCall, FrontOps, BackOps, AloneOps
    <3>2. icSnaps[c.cid] # None BY <1>1, <3>1 DEF Impossible, NoSnapshot
    <3>3. icSnaps[c.cid].applied = {} BY <3>1, <3>2 DEF Inv, SnapshotsAreOld
    <3>4. applied' = [applied EXCEPT ![c.cid] = {}] BY <2>1, <3>1, <3>3 DEF AppliedAfter, LoadCall, InstallCall
    <3> QED BY <1>3, <1>11, <3>4 DEF ChainOK
  <2>3. c.op \in {"install", "install_frontend", "commit_bundle"} /\ c.cid = m
    BY <1>3, <1>11, <2>1, <2>2 DEF AppliedAfter, ChainOK, InstallCall
  <2> QED BY <1>2, <2>3 DEF Allowed, RollbackCall, CleanupCall, RestoreCall
<1>12. UntouchedOld'
  <2> SUFFICES ASSUME Open' PROVE /\ \A b \in Backs : applied'[b] # {} => Reached' >= 8
                                  /\ \A f \in Fronts : applied'[f] # {} => Reached' >= 11
    BY DEF UntouchedOld
  <2>1. Reached' = Reached BY <1>9 DEF Reached
  <2>2. ASSUME NEW m \in Member, applied'[m] # {}, applied'[m] # applied[m]
        PROVE  Reached >= 8 /\ (m \in Fronts => Reached >= 11)
    <3>1. Step.cid = m /\ Step.op \in {"install", "install_frontend", "commit_bundle"} BY <1>11, <2>2
    <3>2. m \in Fronts => m \notin Backs BY MembersAssumption
    <3>3. m \in Fronts => Step.op # "install"
      BY <1>2, <3>1, <3>2 DEF PlanSteps, FrontOps, BackOps, AloneOps
    <3> QED BY <3>1, <3>3, Ranks DEF Reached
  <2>3. Fronts \subseteq Member /\ Backs \subseteq Member BY DEF Member
  <2>4. /\ \A b \in Backs : applied[b] # {} => Reached >= 8
        /\ \A f \in Fronts : applied[f] # {} => Reached >= 11
    BY <1>2 DEF Inv, UntouchedOld
  <2> QED BY <2>1, <2>2, <2>3, <2>4
<1>13. SnapshotsAreOld'
  <2> SUFFICES ASSUME NEW m \in Member, icSnaps'[m] # None PROVE icSnaps'[m].applied = {}
    BY DEF SnapshotsAreOld
  <2>1. icSnaps' = SnapsAfter(c) /\ icSnaps \in [Member -> Snapshot \cup {None}] BY <1>1, <1>3 DEF Effect, ChainOK
  <2>2. CASE SnapshotCall(c) /\ c.cid = m
    <3>1. icSnaps'[m] = [applied |-> applied[m], staged |-> staged[m]] BY <2>1, <2>2 DEF SnapsAfter
    <3>2. c = Step BY <1>2, <2>2 DEF SnapshotCall, Allowed, RollbackCall, CleanupCall, RestoreCall
    <3>3. CASE c.op = "snapshot"
      <4>1. m \in Backs /\ Reached = 7 BY <1>2, <2>2, <3>2, <3>3, Ranks DEF PlanSteps, FrontOps, BackOps, AloneOps, Reached
      <4> QED BY <1>2, <3>1, <4>1 DEF Inv, UntouchedOld
    <3>4. CASE c.op = "snapshot_frontend"
      <4>1. m \in Fronts /\ Reached = 4 BY <1>2, <2>2, <3>2, <3>4, Ranks DEF PlanSteps, FrontOps, BackOps, AloneOps, Reached
      <4> QED BY <1>2, <3>1, <4>1 DEF Inv, UntouchedOld
    <3> QED BY <2>2, <3>3, <3>4 DEF SnapshotCall
  <2>3. CASE ~(SnapshotCall(c) /\ c.cid = m)
    <3>1. icSnaps'[m] = icSnaps[m] \/ icSnaps'[m] = None BY <2>1, <2>3 DEF SnapsAfter
    <3> QED BY <3>1 DEF Inv, SnapshotsAreOld
  <2> QED BY <2>2, <2>3
<1> QED BY <1>8, <1>10, <1>12, <1>13 DEF Inv

\* The canisters stay, and the release is open or over.
LEMMA SameChain ==
  ASSUME Inv, UNCHANGED canisters, rec' \in Record, run' \in Executor \cup {None},
         failures' \in 0..MaxFailures, losses' \in 0..MaxLosses, CallsOK',
         Open' => Open /\ rec.cursor \in DOMAIN Plan /\ rec'.cursor \in DOMAIN Plan /\ rec.cursor <= rec'.cursor
  PROVE  Inv'
<1>1. /\ applied' = applied /\ maint' = maint /\ running' = running /\ staged' = staged /\ icSnaps' = icSnaps
  BY DEF canisters
<1>2. TypeOK' BY <1>1 DEF Inv, TypeOK
<1>3. SnapshotsAreOld' BY <1>1 DEF Inv, SnapshotsAreOld
<1>4. Open' => Reached <= Reached' /\ Reached \in 1..14 /\ Reached' \in 1..14
  <2> DEFINE i == rec.cursor
             j == rec'.cursor
  <2> SUFFICES ASSUME i \in DOMAIN Plan, j \in DOMAIN Plan, i <= j
               PROVE  Rank(Plan[i].op) <= Rank(Plan[j].op) /\ Rank(Plan[i].op) \in 1..14 /\ Rank(Plan[j].op) \in 1..14
    BY DEF Reached, Step
  <2> HIDE DEF i, j
  <2> QED BY PlanOrder, PlanIsSeq DEF Ordered
<1>5. UntouchedOld' BY <1>1, <1>4 DEF Inv, UntouchedOld
<1> QED BY <1>2, <1>3, <1>5 DEF Inv

\* How an executor may begin, or turn to.
LEMMA TurnsTo ==
  ASSUME Inv, Open, NEW mode \in {"step", "abandon", "rollback", "discard"}, NEW end \in Ends1(mode), NEW mem \in Record,
         mem.cursor = rec.cursor, mem.outcome = "OPEN", NEW todo \in Seq(Allowed(mode, Step)),
         mode = "step" => Step.op # "bake" /\ (Step.op # "restore" => todo \in {<<>>, <<Step>>}),
         run' = Doing(mode, end, mem, todo), UNCHANGED <<rec, canisters, losses>>, failures' \in 0..MaxFailures
  PROVE  Inv'
<1>1. rec.cursor \in DOMAIN Plan /\ rec \in Record BY DEF Inv, TypeOK, CallsOK
<1>2. Step \in PlanSteps BY <1>1, PlanIsSeq DEF Step
<1>3. end \in Terminal \cup {"OPEN"} BY DEF Ends1, Terminal
<1>4. run' \in Executor BY <1>2, <1>3, ExecutorIs
<1>5. /\ run'.mode = mode /\ run'.end = end /\ run'.mem = mem /\ run'.todo = todo /\ run'.problems = FALSE
      /\ rec' = rec /\ losses' = losses
  BY DEF Doing
<1>6. Step' = Step /\ Open' BY <1>5 DEF Step, Open
<1>7. CallsOK' BY <1>1, <1>5, <1>6 DEF CallsOK
<1>8. rec.cursor <= rec.cursor BY <1>1, PlanIsSeq
<1> QED BY <1>1, <1>4, <1>5, <1>7, <1>8, SameChain DEF Inv, TypeOK

\* The restore's calls.
LEMMA TryLoadIs ==
  ASSUME NEW m
  PROVE  Steps("try_load", <<m>>) \in Seq(RestoreCall(m)) /\ StopLoadStart(m) \in Seq(RestoreCall(m))
<1>1. \A op \in {"try_load", "stop", "load", "start"} : Steps(op, <<m>>) \in Seq(RestoreCall(m))
  <2> SUFFICES ASSUME NEW op \in {"try_load", "stop", "load", "start"} PROVE Steps(op, <<m>>) \in Seq(RestoreCall(m))
    OBVIOUS
  <2>1. [op : {op}, cid : {m}] \subseteq RestoreCall(m) BY DEF RestoreCall
  <2>2. <<m>> \in Seq({m}) BY SeqOfOne
  <2> QED BY <2>1, <2>2, StepsAre
<1> QED BY <1>1, ToSetConcat DEF StopLoadStart

\* A step is one call, or a restore's.
LEMMA StepCallsAre ==
  /\ StepCalls(rec) \in Seq(Allowed("step", Step)) /\ StepCalls(rec) # <<>>
  /\ Step.op # "restore" => StepCalls(rec) = <<Step>>
<1>1. CASE Step.op = "restore"
  <2>1. StepCalls(rec) = Steps("try_load", <<Step.cid>>) BY <1>1 DEF StepCalls, Step
  <2>2. StepCalls(rec) \in Seq(RestoreCall(Step.cid)) BY <2>1, TryLoadIs
  <2>3. Len(StepCalls(rec)) = 1 BY <2>1 DEF Steps
  <2> QED BY <1>1, <2>2, <2>3 DEF Allowed
<1>2. CASE Step.op # "restore"
  <2>1. StepCalls(rec) = <<Step>> BY <1>2 DEF StepCalls, Step
  <2> QED BY <1>2, <2>1, SeqOfOne DEF Allowed
<1> QED BY <1>1, <1>2

\* The executor begins,
LEMMA BeginStepA == ASSUME Inv, BeginStep PROVE Inv'
<1>1. /\ run = None /\ Open /\ Step.op # "bake" /\ run' = Doing("step", "OPEN", Entering(rec), StepCalls(rec))
      /\ UNCHANGED <<rec, canisters, failures, losses>>
  BY DEF BeginStep, Free, Open, Step
<1>2. rec.cursor \in DOMAIN Plan /\ rec \in Record BY <1>1 DEF Inv, TypeOK, CallsOK
<1>3. /\ Entering(rec) \in Record /\ Entering(rec).cursor = rec.cursor /\ Entering(rec).outcome = "OPEN"
  BY <1>1, <1>2, EnteringIs DEF Open
<1>4. StepCalls(rec) \in Seq(Allowed("step", Step)) /\ (Step.op # "restore" => StepCalls(rec) = <<Step>>)
  BY StepCallsAre
<1>5. failures' \in 0..MaxFailures BY <1>1 DEF Inv, TypeOK
<1>6. "OPEN" \in Ends1("step") BY DEF Ends1
<1> HIDE DEF Inv
<1> QED BY <1>1, <1>3, <1>4, <1>5, <1>6, TurnsTo

\* bakes,
LEMMA BakeA == ASSUME Inv, Bake PROVE Inv'
<1>1. /\ run = None /\ run' = None /\ Open /\ Step.op = "bake" /\ UNCHANGED <<canisters, failures, losses>>
  BY DEF Bake, Free, Open, Step
<1>2. rec.cursor \in 1..Len(Plan) /\ rec \in Record BY <1>1, PlanIsSeq DEF Inv, TypeOK, CallsOK
<1>3. rec.cursor # Len(Plan)
  <2>1. Plan[Len(Plan)].op = "cleanup" BY PlanOrder
  <2> QED BY <1>1, <2>1 DEF Step
<1>4. rec' \in Record /\ rec'.outcome = "OPEN" /\ rec'.cursor \in {rec.cursor, rec.cursor + 1}
  <2>1. rec.cursor + 1 \in 1..(Len(Plan) + 1) BY <1>2, PlanIsSeq
  <2>2. PICK over \in BOOLEAN : rec' = [rec EXCEPT !.windowEnded = TRUE, !.cursor = IF over THEN @ + 1 ELSE @]
    BY DEF Bake
  <2> QED BY <1>1, <1>2, <2>1, <2>2 DEF Record, Open
<1>5. rec'.cursor \in 1..Len(Plan) /\ rec.cursor <= rec'.cursor BY <1>2, <1>3, <1>4, PlanIsSeq
<1>6. CallsOK' BY <1>1, <1>4, <1>5, PlanIsSeq DEF CallsOK, Open
<1> QED BY <1>1, <1>2, <1>4, <1>5, <1>6, PlanIsSeq, SameChain DEF Inv, TypeOK

\* ends its step,
LEMMA EndStepA == ASSUME Inv, EndStep PROVE Inv'
<1>1. /\ run # None /\ run' = None /\ UNCHANGED <<canisters, failures, losses>>
      /\ rec' = [run.mem EXCEPT !.cursor = @ + 1, !.outcome = IF run.mem.cursor = Len(Plan) THEN "COMPLETE" ELSE @]
  BY DEF EndStep
<1>2. run.mem \in Record /\ rec.cursor \in 1..Len(Plan) /\ Open /\ run.mem.cursor = rec.cursor /\ run.mem.outcome = "OPEN"
  BY <1>1, Executing DEF Inv, CallsOK
<1>3. /\ rec' \in Record /\ rec'.cursor = rec.cursor + 1
      /\ rec'.outcome = "OPEN" <=> rec.cursor # Len(Plan)
  <2>1. rec.cursor + 1 \in 1..(Len(Plan) + 1) BY <1>2, PlanIsSeq
  <2>2. "COMPLETE" \in Terminal BY DEF Terminal
  <2> QED BY <1>1, <1>2, <2>1, <2>2 DEF Record
<1>4. Open' => rec'.cursor \in 1..Len(Plan) /\ rec.cursor <= rec'.cursor BY <1>2, <1>3, PlanIsSeq DEF Open
<1>5. CallsOK' BY <1>1, <1>4, PlanIsSeq DEF CallsOK
<1> QED BY <1>1, <1>2, <1>3, <1>4, <1>5, PlanIsSeq, SameChain DEF Inv, TypeOK

\* ends the release,
LEMMA EndReleaseA == ASSUME Inv, EndRelease PROVE Inv'
<1>1. /\ run # None /\ run' = None /\ UNCHANGED <<canisters, failures, losses>> /\ run.mode # "step"
      /\ rec' = [run.mem EXCEPT !.outcome = IF run.problems THEN "NEEDS_ATTENTION" ELSE run.end]
  BY DEF EndRelease
<1>2. /\ run.mem \in Record /\ run.end \in Ends1(run.mode) /\ run \in Executor
  BY <1>1, Executing DEF Inv, CallsOK
<1>3. run.end \in Terminal BY <1>1, <1>2 DEF Ends1, Terminal, Executor
<1>4. rec' \in Record /\ rec'.outcome # "OPEN"
  <2>1. "OPEN" \notin Terminal /\ "NEEDS_ATTENTION" \in Terminal BY DEF Terminal
  <2> QED BY <1>1, <1>2, <1>3, <2>1 DEF Record
<1>5. CallsOK' BY <1>1, <1>4 DEF CallsOK, Open
<1> QED BY <1>1, <1>4, <1>5, SameChain DEF Inv, TypeOK, Open

\* discards the snapshots;
LEMMA DiscardA == ASSUME Inv, DiscardSnapshots PROVE Inv'
<1>1. /\ run # None /\ run.mode = "rollback" /\ ~run.problems
      /\ run' = [run EXCEPT !.mode = "discard", !.todo = DeleteCalls(run.mem)]
      /\ UNCHANGED <<rec, canisters, failures, losses>>
  BY DEF DiscardSnapshots
<1>2. /\ run.mem \in Record /\ run.end \in Ends1(run.mode) /\ run \in Executor /\ Open
      /\ run.mem.cursor = rec.cursor /\ run.mem.outcome = "OPEN"
  BY <1>1, Executing DEF Inv, CallsOK
<1>3. run.problems = FALSE BY <1>1, <1>2 DEF Executor
<1>4. run' = Doing("discard", run.end, run.mem, DeleteCalls(run.mem)) BY <1>1, <1>2, <1>3 DEF Doing, Executor
<1>5. DeleteCalls(run.mem) \in Seq(Allowed("discard", Step)) BY <1>2, CleanupCallsAre DEF Allowed
<1>6. run.end \in Ends1("discard") BY <1>1, <1>2 DEF Ends1
<1>7. failures' \in 0..MaxFailures BY <1>1 DEF Inv, TypeOK
<1> QED BY <1>1, <1>2, <1>4, <1>5, <1>6, <1>7, TurnsTo

\* an operator aborts;
LEMMA AbortA == ASSUME Inv, AbortAction PROVE Inv'
<1>1. /\ run = None /\ Open /\ UNCHANGED <<rec, canisters, failures, losses>>
      /\ \/ run' = Doing("abandon", "ABORTED", rec, AbandonCalls(rec))
         \/ run' = Doing("rollback", "ROLLED_BACK", rec, RollbackCalls(rec))
  BY DEF AbortAction, Free, Open
<1>2. rec \in Record /\ failures' \in 0..MaxFailures BY <1>1 DEF Inv, TypeOK
<1>3. AbandonCalls(rec) \in Seq(Allowed("abandon", Step)) /\ RollbackCalls(rec) \in Seq(Allowed("rollback", Step))
  BY <1>2, CleanupCallsAre, RollbackCallsAre DEF Allowed
<1>4. "ABORTED" \in Ends1("abandon") /\ "ROLLED_BACK" \in Ends1("rollback") BY DEF Ends1
<1>5. CASE run' = Doing("abandon", "ABORTED", rec, AbandonCalls(rec))
  BY <1>1, <1>2, <1>3, <1>4, <1>5, TurnsTo DEF Open
<1>6. CASE run' = Doing("rollback", "ROLLED_BACK", rec, RollbackCalls(rec))
  BY <1>1, <1>2, <1>3, <1>4, <1>6, TurnsTo DEF Open
<1> QED BY <1>1, <1>5, <1>6

\* the executor dies.
LEMMA LoseA == ASSUME Inv, LoseExecutor PROVE Inv'
<1>1. run' = None /\ rec' = rec /\ failures' = failures /\ UNCHANGED canisters /\ losses' \in 0..MaxLosses
  BY BoundsAssumption DEF LoseExecutor, Inv, TypeOK
<1>2. CallsOK' BY <1>1 DEF Inv, CallsOK, Open
<1>3. Open => rec.cursor \in DOMAIN Plan /\ rec.cursor <= rec.cursor BY PlanIsSeq DEF Inv, CallsOK
<1>4. Open' => Open BY <1>1 DEF Open
<1> QED BY <1>1, <1>2, <1>3, <1>4, SameChain DEF Inv, TypeOK

\* An executor of the same mode with other calls left.
LEMMA GoesOn ==
  ASSUME Inv, run # None, NEW todo \in Seq(Allowed(run.mode, Step)), NEW problems \in BOOLEAN,
         problems => run.mode = "rollback", run.mode = "step" => Step.op = "restore",
         run' = [run EXCEPT !.todo = todo, !.problems = problems], UNCHANGED <<rec, canisters, losses>>,
         failures' \in 0..MaxFailures
  PROVE  Inv'
<1>1. run \in Executor /\ run.mem \in Record /\ rec \in Record /\ Open /\ Step \in PlanSteps
      /\ rec.cursor \in 1..Len(Plan) BY Executing
<1>2. todo \in Seq(Call)
  <2>1. Allowed(run.mode, Step) \subseteq Call BY <1>1, AllowedAreCalls, CallsAreCalls
  <2> QED BY <2>1, SeqOfSubset
<1>3. /\ run' \in Executor /\ run'.mode = run.mode /\ run'.end = run.end /\ run'.mem = run.mem /\ run'.todo = todo
      /\ run'.problems = problems /\ rec' = rec /\ losses' = losses
  BY <1>1, <1>2 DEF Executor, Call
<1>4. Step' = Step /\ Open' BY <1>1, <1>3 DEF Step, Open
<1>5. CallsOK' BY <1>3, <1>4 DEF Inv, CallsOK
<1>6. rec.cursor \in DOMAIN Plan /\ rec.cursor <= rec.cursor BY <1>1, PlanIsSeq
<1> QED BY <1>1, <1>3, <1>5, <1>6, SameChain DEF Inv, TypeOK

\* What Raises and Troubled make of the executor.
LEMMA RaisesA ==
  ASSUME Inv, run # None, NEW op, run' \in Raises(op), UNCHANGED <<rec, canisters, losses>>, failures' \in 0..MaxFailures
  PROVE  Inv'
<1>1. /\ run.mem \in Record /\ Open /\ run.mem.cursor = rec.cursor /\ run.mem.outcome = "OPEN"
  BY Executing DEF Inv, CallsOK
<1>2. /\ RollbackCalls(run.mem) \in Seq(Allowed("rollback", Step))
      /\ AbandonCalls(run.mem) \in Seq(Allowed("abandon", Step)) /\ <<>> \in Seq(Allowed("abandon", Step))
  BY <1>1, RollbackCallsAre, CleanupCallsAre DEF Allowed
<1>3. /\ "ROLLED_BACK" \in Ends1("rollback") /\ "FAILED_STAGING" \in Ends1("abandon")
      /\ "REJECTED_PREFLIGHT" \in Ends1("abandon")
  BY DEF Ends1
<1>4. \/ run' = Doing("rollback", "ROLLED_BACK", run.mem, RollbackCalls(run.mem))
      \/ run' = Doing("abandon", "FAILED_STAGING", run.mem, AbandonCalls(run.mem))
      \/ run' = Doing("abandon", "REJECTED_PREFLIGHT", run.mem, <<>>)
  BY DEF Raises
<1>5. CASE run' = Doing("rollback", "ROLLED_BACK", run.mem, RollbackCalls(run.mem))
  BY <1>1, <1>2, <1>3, <1>5, TurnsTo
<1>6. CASE run' = Doing("abandon", "FAILED_STAGING", run.mem, AbandonCalls(run.mem))
  BY <1>1, <1>2, <1>3, <1>6, TurnsTo
<1>7. CASE run' = Doing("abandon", "REJECTED_PREFLIGHT", run.mem, <<>>)
  BY <1>1, <1>2, <1>3, <1>7, TurnsTo
<1> QED BY <1>4, <1>5, <1>6, <1>7

\* x is the executor with other calls left, of those in X.
CallsLeft(x, X) == \E todo \in Seq(X), problems \in BOOLEAN : x = [run EXCEPT !.todo = todo, !.problems = problems]

\* A rollback in trouble goes on with fewer calls.
LEMMA TroubledIs ==
  ASSUME run \in Executor, NEW X, NEW c, NEW rest \in Seq(X)
  PROVE  CallsLeft(Troubled(c, rest), X)
<1> DEFINE kept == Having(rest, {d \in ToSet(rest) : d.cid # c.cid \/ d.op \notin {"load", "start"}})
<1>1. kept \in Seq(X) BY HavingAre
<1>2. run.problems \in BOOLEAN /\ run = [run EXCEPT !.problems = run.problems] BY DEF Executor
<1>3. CASE c.op \in {"delete_batch", "clear_chunks"}
  <2>1. Troubled(c, rest) = [run EXCEPT !.todo = rest, !.problems = run.problems] BY <1>2, <1>3 DEF Troubled, Executor
  <2> QED BY <1>2, <2>1 DEF CallsLeft
<1>4. CASE c.op \notin {"delete_batch", "clear_chunks"} /\ c.cid \in Backs
  <2>1. Troubled(c, rest) = [run EXCEPT !.todo = rest, !.problems = (run.problems \/ c.op # "stop")]
    BY <1>2, <1>4 DEF Troubled, Executor
  <2> QED BY <2>1 DEF CallsLeft
<1>5. CASE c.op \notin {"delete_batch", "clear_chunks"} /\ c.cid \notin Backs
  <2>1. Troubled(c, rest) = [run EXCEPT !.todo = kept, !.problems = TRUE] BY <1>5 DEF Troubled
  <2> QED BY <1>1, <2>1 DEF CallsLeft
<1> QED BY <1>3, <1>4, <1>5

\* A call fails.
LEMMA CallFailsA == ASSUME Inv, CallFails PROVE Inv'
<1> DEFINE c == Head(run.todo)
           rest == Tail(run.todo)
<1>0. failures' \in 0..MaxFailures
  <2>1. failures \in 0..MaxFailures BY DEF Inv, TypeOK
  <2> QED BY <2>1, BoundsAssumption DEF CallFails
<1>1. /\ run # None /\ run.todo # <<>> /\ UNCHANGED <<rec, canisters, losses>>
      /\ \/ c.op = "try_load" /\ run' = [run EXCEPT !.todo = StopLoadStart(c.cid) \o rest]
         \/ c.op # "try_load" /\ run.mode = "step" /\ run' \in Raises(c.op)
         \/ c.op # "try_load" /\ run.mode = "rollback" /\ run' = Troubled(c, rest)
         \/ run.mode \in {"abandon", "discard"} /\ run' = [run EXCEPT !.todo = rest]
  BY DEF CallFails
<1>2. /\ run \in Executor /\ Step \in PlanSteps
      /\ c \in Allowed(run.mode, Step) /\ rest \in Seq(Allowed(run.mode, Step))
      /\ c \in PlanSteps \cup RollbackCall \cup CleanupCall
      /\ run.mode = "step" /\ Step.op # "restore" => c = Step
  BY <1>1, Executing
<1>3. run.problems \in BOOLEAN /\ run.mode \in {"step", "abandon", "rollback", "discard"}
      /\ (run.problems => run.mode = "rollback")
  BY <1>1, <1>2 DEF Executor, Inv, CallsOK
<1> HIDE DEF c, rest
<1>4. CASE c.op = "try_load" /\ run' = [run EXCEPT !.todo = StopLoadStart(c.cid) \o rest]
  <2>1. run.mode = "step" => Step.op = "restore" /\ c.cid = Step.cid
    BY <1>2, <1>4 DEF Allowed, PlanSteps, RestoreCall, AloneOps, FrontOps, BackOps
  <2>2. run.mode \in {"step", "rollback"} BY <1>2, <1>3, <1>4 DEF Allowed, CleanupCall
  <2>3. StopLoadStart(c.cid) \in Seq(Allowed(run.mode, Step))
    <3>1. CASE run.mode = "step" BY <2>1, <3>1, TryLoadIs DEF Allowed
    <3>2. CASE run.mode = "rollback"
      <4>1. c.cid \in Member BY <1>2, <3>2 DEF Allowed, RollbackCall
      <4>2. rec \in Record BY DEF Inv, TypeOK
      <4> QED BY <3>2, <4>1, <4>2, RollbackParts DEF Allowed
    <3> QED BY <2>2, <3>1, <3>2
  <2> DEFINE todo == StopLoadStart(c.cid) \o rest
  <2>4. todo \in Seq(Allowed(run.mode, Step)) BY <1>2, <2>3, ToSetConcat
  <2>5. run' = [run EXCEPT !.todo = todo, !.problems = run.problems] BY <1>2, <1>4 DEF Executor
  <2> HIDE DEF todo
  <2> QED BY <1>0, <1>1, <1>3, <2>1, <2>4, <2>5, GoesOn
<1>5. CASE run.mode = "step" /\ run' \in Raises(c.op) BY <1>0, <1>1, <1>5, RaisesA
<1>6. CASE run.mode = "rollback" /\ run' = Troubled(c, rest)
  <2>1. PICK todo \in Seq(Allowed(run.mode, Step)), problems \in BOOLEAN :
          Troubled(c, rest) = [run EXCEPT !.todo = todo, !.problems = problems]
    <3>1. CallsLeft(Troubled(c, rest), Allowed(run.mode, Step)) BY <1>2, TroubledIs
    <3> QED BY <3>1 DEF CallsLeft
  <2> QED BY <1>0, <1>1, <1>6, <2>1, GoesOn
<1>7. CASE run.mode \in {"abandon", "discard"} /\ run' = [run EXCEPT !.todo = rest]
  <2>1. run' = [run EXCEPT !.todo = rest, !.problems = run.problems] BY <1>2, <1>7 DEF Executor
  <2> QED BY <1>0, <1>1, <1>2, <1>3, <1>7, <2>1, GoesOn
<1> QED BY <1>1, <1>4, <1>5, <1>6, <1>7

\* The release starts in the invariant,
LEMMA InitInv == Init => Inv
<1> SUFFICES ASSUME Init PROVE Inv OBVIOUS
<1>1. 1 \in 1..(Len(Plan) + 1) /\ 1 \in DOMAIN Plan BY PlanIsSeq
<1>2. TypeOK BY <1>1, BoundsAssumption DEF Init, TypeOK, Record, Content, Staged, Member
<1>3. CallsOK BY <1>1 DEF Init, CallsOK, Open
<1>4. UntouchedOld /\ SnapshotsAreOld BY DEF Init, UntouchedOld, SnapshotsAreOld, Member
<1> QED BY <1>2, <1>3, <1>4 DEF Inv

\* and every step keeps it.
LEMMA NextInv == Inv /\ [Next]_vars => Inv'
<1> SUFFICES ASSUME Inv, [Next]_vars PROVE Inv' OBVIOUS
<1>1. CASE UNCHANGED vars
  BY <1>1 DEF vars, canisters, Inv, TypeOK, CallsOK, Open, Step, UntouchedOld, Reached, SnapshotsAreOld
<1> QED BY <1>1, BeginStepA, BakeA, CallSucceedsA, CallFailsA, EndStepA, DiscardA, EndReleaseA, AbortA, LoseA DEF Next

\* The release is type correct.
THEOREM TypeCorrect == Spec => []TypeOK
<1>1. Inv => TypeOK BY DEF Inv
<1> QED BY <1>1, InitInv, NextInv, PTL DEF Spec

\* A snapshot the rollback would load holds the old release, for every stand, and
\* however often calls fail, executors die and their steps are run again.
THEOREM LoadsOldOnly == Spec => []SnapshotsAreOld
<1>1. Inv => SnapshotsAreOld BY DEF Inv
<1> QED BY <1>1, InitInv, NextInv, PTL DEF Spec
-----------------------------------------------------------------------------
(* No executor dies: what the record knows *)

\* The record as the executor knows it.
Copy == IF run = None THEN rec ELSE run.mem

\* The release moves forward: no rollback, no cleanup.
Forward == Open /\ (run = None \/ run.mode = "step")

\* Step i was begun,
Begun(i) == i < rec.cursor \/ (i = rec.cursor /\ run # None)

\* and made.
Done(i) == i < rec.cursor \/ (i = rec.cursor /\ run # None /\ run.todo = <<>>)

\* The steps that look at what a member runs and serves.
Verify(s) == s.op \in {"verify_backend", "verify_frontend"}

\* The steps that were made are noted, and what was verified still is so.
StepsNoted ==
  \A i \in DOMAIN Plan :
    /\ Done(i) /\ SnapshotCall(Plan[i]) => Plan[i].cid \in Copy.snapshots
    /\ Done(i) /\ Verify(Plan[i]) => IsNew(Plan[i].cid)
    /\ Done(i) /\ Plan[i].op = "verify_backend" => Plan[i].cid \in running
    /\ Begun(i) /\ Plan[i].op = "maintenance_on" => Plan[i].cid \in Copy.touched
    /\ i = rec.cursor /\ run # None /\ Plan[i].op = "stop" => Plan[i].cid \in Copy.stopped

\* What differs from before the release is in the record.
ChangesNoted ==
  /\ \A m \in Copy.snapshots : icSnaps[m] # None
  /\ Backs \ running \subseteq Copy.stopped /\ maint \subseteq Copy.touched
  /\ Copy.touched \cup Copy.stopped # {} => Reached >= 5

\* While the release moves forward, its record tells what to undo.
Noting == Forward => StepsNoted /\ ChangesNoted

\* A backend that is stopped is started later on.
Restarts(s) ==
  \A b \in Backs : \A i \in DOMAIN s : s[i] = Of("stop", b) => \E j \in DOMAIN s : j > i /\ s[j] = Of("start", b)

\* The calls of s undo what the release did.
Undoes(s) ==
  /\ \A m \in Member : ~IsOld(m) => Of("load", m) \in ToSet(s) \/ Of("try_load", m) \in ToSet(s)
  /\ \A b \in Backs \ running : Of("start", b) \in ToSet(s)
  /\ Restarts(s)

\* What differs from before the release has a snapshot.
Undoable == \A m \in Member : ~IsOld(m) => icSnaps[m] # None

\* A rollback without problems makes every call that is needed, and a cleanup works on
\* an old stand.
Undoing ==
  run # None =>
    /\ run.mode = "rollback" => Undoable /\ (run.problems \/ Undoes(run.todo)) /\ rec.cursor >= WindowFrom
    /\ run.mode \in {"abandon", "discard"} => AllOld

\* What the outcomes say of the stand.
Outcomes ==
  /\ rec.outcome = "COMPLETE" => AllNew /\ rec.cursor > WindowFrom
  /\ rec.outcome \in {"ABORTED", "ROLLED_BACK", "REJECTED_PREFLIGHT", "FAILED_STAGING"} => AllOld
  /\ rec.outcome = "NEEDS_ATTENTION" => Undoable /\ rec.cursor >= WindowFrom

\* Where an open release stands in its plan.
LEMMA OpenOnPlan ==
  ASSUME Inv, Open
  PROVE  /\ rec.cursor \in 1..Len(Plan) /\ DOMAIN Plan = 1..Len(Plan) /\ Step \in PlanSteps /\ Reached \in 1..14
         /\ \A i \in 1..Len(Plan) : Rank(Plan[i].op) < Reached => i < rec.cursor
         /\ \A i \in 1..Len(Plan) : i < rec.cursor => Rank(Plan[i].op) <= Reached
         /\ rec.cursor < WindowFrom <=> Reached <= 4
<1>1. rec.cursor \in 1..Len(Plan) /\ DOMAIN Plan = 1..Len(Plan) BY PlanIsSeq DEF Inv, CallsOK
<1>2. Step \in PlanSteps /\ Reached \in 1..14 BY <1>1, PlanIsSeq DEF Step, Reached
<1>3. \A i \in 1..Len(Plan) : Rank(Plan[i].op) < Reached => i < rec.cursor BY <1>1, PlanIsSeq DEF Step, Reached
<1>4. ASSUME NEW i \in 1..Len(Plan), i < rec.cursor PROVE Rank(Plan[i].op) <= Reached
  <2>1. i <= rec.cursor BY <1>1, <1>4
  <2> QED BY <1>1, <2>1, PlanOrder DEF Ordered, Step, Reached
<1>5. rec.cursor < WindowFrom <=> Reached <= 4 BY <1>1, WindowIs DEF Step, Reached
<1> QED BY <1>1, <1>2, <1>3, <1>4, <1>5

\* Before the window opens the stand is as it was.
LEMMA OldBeforeWindow ==
  ASSUME Inv, Noting, Forward, Reached <= 4
  PROVE  AllOld
<1>1. Reached \in 1..14 BY OpenOnPlan DEF Forward
<1>2. Copy.touched = {} /\ Copy.stopped = {} BY <1>1 DEF Noting, ChangesNoted
<1>3. maint = {} /\ Backs \subseteq running BY <1>2 DEF Noting, ChangesNoted
<1>4. \A m \in Member : applied[m] = {} BY <1>1 DEF Inv, UntouchedOld, Forward, Member
<1> QED BY <1>3, <1>4 DEF AllOld, IsOld

\* What differs has a snapshot, and the record names it.
LEMMA ChangedIsNoted ==
  ASSUME Inv, Noting, Forward
  PROVE  \A m \in Member : ~IsOld(m) => m \in Copy.snapshots /\ (m \in Fronts => m \in Copy.touched)
<1> SUFFICES ASSUME NEW m \in Member, ~IsOld(m)
             PROVE  m \in Copy.snapshots /\ (m \in Fronts => m \in Copy.touched)
  OBVIOUS
<1>1. Open /\ StepsNoted /\ ChangesNoted BY DEF Noting, Forward
<1>2. /\ Reached \in 1..14 /\ DOMAIN Plan = 1..Len(Plan)
      /\ \A i \in 1..Len(Plan) : Rank(Plan[i].op) < Reached => i < rec.cursor
  BY <1>1, OpenOnPlan
<1>3. maint \subseteq Fronts BY DEF Inv, TypeOK
<1>4. CASE m \in Backs
  <2>1. applied[m] # {} /\ m \notin Fronts BY <1>3, <1>4, MembersAssumption DEF IsOld
  <2>2. Reached >= 8 BY <1>1, <1>4, <2>1 DEF Inv, UntouchedOld
  <2>3. PICK i \in 1..Len(Plan) : Plan[i] = Of("snapshot", m) BY <1>2, <1>4, PlanOrder DEF ToSet
  <2>4. i < rec.cursor BY <1>2, <2>2, <2>3, Ranks DEF Of
  <2> QED BY <1>1, <1>2, <2>1, <2>3, <2>4 DEF StepsNoted, Done, SnapshotCall, Of
<1>5. CASE m \in Fronts
  <2>1. Reached >= 5 /\ m \in Copy.touched
    <3>1. CASE m \in maint BY <1>1, <3>1 DEF ChangesNoted
    <3>2. CASE applied[m] # {}
      <4>1. Reached >= 11 BY <1>1, <1>5, <3>2 DEF Inv, UntouchedOld
      <4>2. PICK i \in 1..Len(Plan) : Plan[i] = Of("maintenance_on", m) BY <1>2, <1>5, PlanOrder DEF ToSet
      <4>3. i < rec.cursor BY <1>2, <4>1, <4>2, Ranks DEF Of
      <4> QED BY <1>1, <1>2, <4>1, <4>2, <4>3 DEF StepsNoted, Begun, Of
    <3> QED BY <3>1, <3>2 DEF IsOld
  <2>2. PICK i \in 1..Len(Plan) : Plan[i] = Of("snapshot_frontend", m) BY <1>2, <1>5, PlanOrder DEF ToSet
  <2>3. i < rec.cursor BY <1>2, <2>1, <2>2, Ranks DEF Of
  <2> QED BY <1>1, <1>2, <2>1, <2>2, <2>3 DEF StepsNoted, Done, SnapshotCall, Of
<1> QED BY <1>4, <1>5 DEF Member

\* While the release moves forward it can be undone.
LEMMA ForwardUndoable ==
  ASSUME Inv, Noting, Forward
  PROVE  Undoable
BY ChangedIsNoted DEF Undoable, Noting, ChangesNoted
-----------------------------------------------------------------------------
(* The rollback *)

\* Calls of the rollback that start what they stop.
Restarting == {s \in Seq(RollbackCall) : Restarts(s)}

\* One such sequence after the other is another.
LEMMA RestartsConcat == ASSUME NEW s \in Restarting, NEW t \in Restarting PROVE s \o t \in Restarting
<1> DEFINE q == s \o t
<1>1. /\ q \in Seq(RollbackCall) /\ Len(s) \in Nat /\ Len(t) \in Nat
      /\ DOMAIN s = 1..Len(s) /\ DOMAIN t = 1..Len(t) /\ DOMAIN q = 1..(Len(s) + Len(t))
      /\ \A i \in 1..Len(s) : q[i] = s[i]
      /\ \A i \in (Len(s) + 1)..(Len(s) + Len(t)) : q[i] = t[i - Len(s)]
  BY DEF Restarting
<1> HIDE DEF q
<1>2. ASSUME NEW b \in Backs, NEW i \in DOMAIN q, q[i] = Of("stop", b)
      PROVE  \E j \in DOMAIN q : j > i /\ q[j] = Of("start", b)
  <2>1. CASE i \in 1..Len(s)
    <3>1. PICK j \in 1..Len(s) : j > i /\ s[j] = Of("start", b) BY <1>1, <1>2, <2>1 DEF Restarting, Restarts
    <3>2. j \in DOMAIN q /\ q[j] = Of("start", b) BY <1>1, <3>1
    <3> QED BY <3>1, <3>2
  <2>2. CASE i \in (Len(s) + 1)..(Len(s) + Len(t))
    <3>1. i - Len(s) \in DOMAIN t /\ t[i - Len(s)] = Of("stop", b) BY <1>1, <1>2, <2>2
    <3>2. PICK k \in 1..Len(t) : k > i - Len(s) /\ t[k] = Of("start", b) BY <1>1, <3>1 DEF Restarting, Restarts
    <3> DEFINE j == Len(s) + k
    <3>3. j \in (Len(s) + 1)..(Len(s) + Len(t)) /\ j \in DOMAIN q /\ j > i /\ j - Len(s) = k BY <1>1, <2>2, <3>2
    <3> HIDE DEF j
    <3>4. q[j] = Of("start", b) BY <1>1, <3>2, <3>3
    <3> QED BY <3>3, <3>4
  <2> QED BY <1>1, <1>2, <2>1, <2>2
<1> QED BY <1>1, <1>2 DEF Restarting, Restarts, q

\* Calls without a stop.
LEMMA NoStop ==
  ASSUME NEW s \in Seq(RollbackCall), \A x \in ToSet(s) : x.op # "stop"
  PROVE  s \in Restarting
<1>1. \A i \in DOMAIN s : s[i].op # "stop" BY DEF ToSet
<1>2. \A b : Of("stop", b).op = "stop" BY DEF Of
<1> QED BY <1>1, <1>2 DEF Restarting, Restarts

\* One member is asked once.
LEMMA StepsOfOne == ASSUME NEW op, NEW m PROVE Steps(op, <<m>>) = <<Of(op, m)>>
<1>1. Len(<<m>>) = 1 /\ <<m>>[1] = m OBVIOUS
<1> QED BY <1>1 DEF Steps, Of

\* q is s with x at its end.
Appended(q, s, x) == Len(q) = Len(s) + 1 /\ q[Len(s) + 1] = x /\ \A i \in 1..Len(s) : q[i] = s[i]

\* That is what concatenation makes of it.
LEMMA ConcatOne ==
  ASSUME NEW S, NEW s \in Seq(S), NEW x \in S
  PROVE  s \o <<x>> \in Seq(S) /\ Appended(s \o <<x>>, s, x)
<1> DEFINE t == <<x>>
           q == s \o t
<1>1. t \in Seq(S) /\ Len(t) = 1 /\ t[1] = x OBVIOUS
<1> HIDE DEF t
<1>2. t \in Seq(S) BY <1>1
<1>3. /\ q \in Seq(S) /\ Len(q) = Len(s) + Len(t) /\ Len(s) \in Nat /\ Len(t) \in Nat
      /\ \A i \in 1..Len(s) : q[i] = s[i]
      /\ \A i \in (Len(s) + 1)..(Len(s) + Len(t)) : q[i] = t[i - Len(s)]
  BY <1>2
<1> HIDE DEF q
<1>4. Len(q) = Len(s) + 1 /\ q[Len(s) + 1] = x
  <2>1. Len(s) + 1 \in (Len(s) + 1)..(Len(s) + Len(t)) /\ (Len(s) + 1) - Len(s) = 1 BY <1>1, <1>3
  <2> QED BY <1>1, <1>3, <2>1
<1> QED BY <1>3, <1>4 DEF t, q, Appended

\* A load that stops first starts again.
LEMMA ThreeCalls ==
  ASSUME NEW m \in Member
  PROVE  /\ StopLoadStart(m) = <<Of("stop", m), Of("load", m), Of("start", m)>>
         /\ StopLoadStart(m) \in Restarting
         /\ ToSet(StopLoadStart(m)) = {Of("stop", m), Of("load", m), Of("start", m)}
<1>1. \A op : Steps(op, <<m>>) = <<Of(op, m)>> BY StepsOfOne
<1> DEFINE s == <<Of("stop", m), Of("load", m), Of("start", m)>>
<1>3. \A op \in {"stop", "load", "start"} : Of(op, m) \in RollbackCall BY DEF RollbackCall, Of
<1>2. StopLoadStart(m) = s
  <2>1. ASSUME NEW a \in RollbackCall, NEW b \in RollbackCall, NEW c \in RollbackCall
        PROVE  <<a>> \o <<b>> \o <<c>> = <<a, b, c>>
    <3> DEFINE x == <<a>> \o <<b>>
               y == x \o <<c>>
    <3>1. <<a>> \in Seq(RollbackCall) /\ Len(<<a>>) = 1 /\ <<a>>[1] = a OBVIOUS
    <3>2. x \in Seq(RollbackCall) /\ Len(x) = 2 /\ x[1] = a /\ x[2] = b
      <4>1. x \in Seq(RollbackCall) /\ Appended(x, <<a>>, b) BY <3>1, ConcatOne
      <4> HIDE DEF x
      <4> QED BY <3>1, <4>1 DEF Appended
    <3> HIDE DEF x
    <3>3. y \in Seq(RollbackCall) /\ Len(y) = 3 /\ y[1] = a /\ y[2] = b /\ y[3] = c
      <4>1. y \in Seq(RollbackCall) /\ Appended(y, x, c) BY <3>2, ConcatOne
      <4> HIDE DEF y
      <4> QED BY <3>2, <4>1 DEF Appended
    <3> HIDE DEF y
    <3>4. y = <<a, b, c>> BY <3>3
    <3> QED BY <3>4 DEF x, y
  <2>2. /\ Of("stop", m) \in RollbackCall /\ Of("load", m) \in RollbackCall /\ Of("start", m) \in RollbackCall
        /\ StopLoadStart(m) = <<Of("stop", m)>> \o <<Of("load", m)>> \o <<Of("start", m)>>
    <3>1. /\ Steps("stop", <<m>>) = <<Of("stop", m)>> /\ Steps("load", <<m>>) = <<Of("load", m)>>
          /\ Steps("start", <<m>>) = <<Of("start", m)>>
      BY StepsOfOne
    <3> QED BY <1>3, <3>1 DEF StopLoadStart
  <2> QED BY <2>1, <2>2
<1>4. s \in Seq(RollbackCall) /\ DOMAIN s = 1..3 BY <1>3
<1>5. s[1] = Of("stop", m) /\ s[2] = Of("load", m) /\ s[3] = Of("start", m) OBVIOUS
<1> HIDE DEF s
<1>6. ToSet(s) = {Of("stop", m), Of("load", m), Of("start", m)} BY <1>4, <1>5 DEF ToSet
<1>7. Restarts(s)
  <2> SUFFICES ASSUME NEW b \in Backs, NEW i \in 1..3, s[i] = Of("stop", b)
               PROVE  \E j \in 1..3 : j > i /\ s[j] = Of("start", b)
    BY <1>4 DEF Restarts
  <2>1. i = 1 /\ b = m BY <1>5 DEF Of
  <2> QED BY <1>5, <2>1
<1> QED BY <1>2, <1>4, <1>6, <1>7 DEF Restarting, s

\* What the rollback asks of one member restarts it.
LEMMA RollBackendIs ==
  ASSUME NEW r \in Record, NEW b \in Backs
  PROVE  /\ RollBackend(r, b) \in Restarting
         /\ b \in r.snapshots => Of("load", b) \in ToSet(RollBackend(r, b))
         /\ b \in r.snapshots \cup r.stopped => Of("start", b) \in ToSet(RollBackend(r, b))
<1>1. b \in Member BY DEF Member
<1>2. CASE b \in r.snapshots
  <2>1. RollBackend(r, b) = StopLoadStart(b) BY <1>2 DEF RollBackend, StopLoadStart
  <2> QED BY <1>1, <2>1, ThreeCalls
<1>3. CASE b \notin r.snapshots
  <2> DEFINE one == Steps("start", <<b>>)
  <2>1. one \in Seq(RollbackCall) /\ ToSet(one) = {Of("start", b)}
    <3>1. <<b>> \in Seq({b}) /\ ToSet(<<b>>) = {b} BY SeqOfOne
    <3>2. [op : {"start"}, cid : {b}] \subseteq RollbackCall BY <1>1 DEF RollbackCall
    <3>3. one \in Seq(RollbackCall) BY <3>1, <3>2, StepsAre
    <3>4. one = <<Of("start", b)>> /\ Of("start", b) \in RollbackCall BY <1>1, StepsOfOne DEF RollbackCall, Of
    <3> QED BY <3>3, <3>4, SeqOfOne
  <2>2. one \in Restarting BY <2>1, NoStop DEF Of
  <2>3. <<>> \in Restarting BY DEF Restarting, Restarts
  <2>4. RollBackend(r, b) = IF b \in r.stopped THEN one ELSE <<>>
    <3>1. RollBackend(r, b) = <<>> \o (IF b \in r.stopped THEN one ELSE <<>>) BY <1>3 DEF RollBackend
    <3>2. (IF b \in r.stopped THEN one ELSE <<>>) \in Seq(RollbackCall) BY <2>1
    <3> HIDE DEF one
    <3> QED BY <3>1, <3>2
  <2> HIDE DEF one
  <2> QED BY <1>3, <2>1, <2>2, <2>3, <2>4
<1> QED BY <1>2, <1>3

\* A frontend that was touched is loaded.
LEMMA RollFrontendIs ==
  ASSUME NEW r \in Record, NEW f \in Fronts
  PROVE  /\ RollFrontend(r, f) \in Restarting
         /\ f \in r.touched \cap r.snapshots => Of("try_load", f) \in ToSet(RollFrontend(r, f))
<1>1. f \in Member BY DEF Member
<1> DEFINE one == Steps("try_load", <<f>>)
<1>2. one \in Seq(RollbackCall) /\ ToSet(one) = {Of("try_load", f)}
  <2>1. <<f>> \in Seq({f}) /\ ToSet(<<f>>) = {f} BY SeqOfOne
  <2>2. [op : {"try_load"}, cid : {f}] \subseteq RollbackCall BY <1>1 DEF RollbackCall
  <2>3. one \in Seq(RollbackCall) BY <2>1, <2>2, StepsAre
  <2>4. one = <<Of("try_load", f)>> /\ Of("try_load", f) \in RollbackCall BY <1>1, StepsOfOne DEF RollbackCall, Of
  <2> QED BY <2>3, <2>4, SeqOfOne
<1>3. one \in Restarting BY <1>2, NoStop DEF Of
<1>4. <<>> \in Restarting BY DEF Restarting, Restarts
<1> QED BY <1>2, <1>3, <1>4 DEF RollFrontend

\* The calls of the rollback undo what is noted in the record.
LEMMA RollbackUndoes ==
  ASSUME NEW r \in Record, Backs \ running \subseteq r.stopped,
         \A m \in Member : ~IsOld(m) => m \in r.snapshots /\ (m \in Fronts => m \in r.touched)
  PROVE  Undoes(RollbackCalls(r))
<1> DEFINE bp == [i \in 1..Len(Backends) |-> RollBackend(r, Backends[i])]
           fp == [i \in 1..Len(Frontends) |-> RollFrontend(r, Frontends[i])]
           X == FlattenSeq(bp)
           Y == FlattenSeq(fp)
           U == UnstageCalls(r)
<1>1. /\ \A i \in 1..Len(Backends) : Backends[i] \in Backs
      /\ \A i \in 1..Len(Frontends) : Frontends[i] \in Fronts
      /\ Len(Backends) \in Nat /\ Len(Frontends) \in Nat
  BY MembersSeq
<1>2. bp \in Seq(Restarting) /\ fp \in Seq(Restarting) BY <1>1, RollBackendIs, RollFrontendIs
<1>3. Restarting \in SUBSET Seq(RollbackCall) /\ <<>> \in Restarting BY DEF Restarting, Restarts
<1>4. bp \in Seq(Seq(RollbackCall)) /\ fp \in Seq(Seq(RollbackCall)) BY <1>2, <1>3, SeqOfSubset
<1>5. /\ \A b \in Backs : \E i \in DOMAIN bp : bp[i] = RollBackend(r, b)
      /\ \A f \in Fronts : \E i \in DOMAIN fp : fp[i] = RollFrontend(r, f)
  <2>1. /\ \A b \in Backs : \E i \in DOMAIN Backends : Backends[i] = b
        /\ \A f \in Fronts : \E i \in DOMAIN Frontends : Frontends[i] = f
    BY DEF Backs, Fronts, ToSet
  <2>2. DOMAIN Backends = 1..Len(Backends) /\ DOMAIN Frontends = 1..Len(Frontends) BY MembersAssumption
  <2> QED BY <2>1, <2>2
<1> HIDE DEF bp, fp
<1>6. X \in Restarting /\ Y \in Restarting BY <1>2, <1>3, RestartsConcat, FlattenSeqClosed
<1>7. ToSet(X) = UNION {ToSet(bp[i]) : i \in DOMAIN bp} /\ ToSet(Y) = UNION {ToSet(fp[i]) : i \in DOMAIN fp}
  BY <1>4, FlattenSeqElements
<1>8. U \in Restarting
  <2>1. U \in Seq(RollbackCall) /\ U \in Seq(CleanupCall) BY UnstageCallsAre
  <2>2. \A x \in CleanupCall : x.op # "stop" BY DEF CleanupCall
  <2> HIDE DEF U
  <2>3. \A x \in ToSet(U) : x.op # "stop" BY <2>1, <2>2 DEF ToSet
  <2> QED BY <2>1, <2>3, NoStop
<1>9. RollbackCalls(r) = X \o Y \o U BY DEF RollbackCalls, bp, fp
<1> HIDE DEF X, Y, U
<1>10. RollbackCalls(r) \in Restarting /\ ToSet(RollbackCalls(r)) = ToSet(X) \cup ToSet(Y) \cup ToSet(U)
  <2>1. X \o Y \in Restarting /\ (X \o Y) \o U \in Restarting BY <1>6, <1>8, RestartsConcat
  <2>2. ToSet(X \o Y) = ToSet(X) \cup ToSet(Y) BY <1>6, ToSetConcat DEF Restarting
  <2>3. ToSet((X \o Y) \o U) = ToSet(X \o Y) \cup ToSet(U)
    <3>1. PICK Z : Z = X \o Y OBVIOUS
    <3>2. Z \in Seq(RollbackCall) /\ U \in Seq(RollbackCall) BY <2>1, <1>8, <3>1 DEF Restarting
    <3>3. ToSet(Z \o U) = ToSet(Z) \cup ToSet(U) BY <3>2, ToSetConcat
    <3> QED BY <3>1, <3>3
  <2> QED BY <1>9, <2>1, <2>2, <2>3
<1>11. ASSUME NEW b \in Backs
       PROVE  /\ b \in r.snapshots => Of("load", b) \in ToSet(X)
              /\ b \in r.snapshots \cup r.stopped => Of("start", b) \in ToSet(X)
  <2>1. ToSet(RollBackend(r, b)) \subseteq ToSet(X) BY <1>5, <1>7
  <2> QED BY <2>1, RollBackendIs
<1>12. ASSUME NEW f \in Fronts, f \in r.touched \cap r.snapshots PROVE Of("try_load", f) \in ToSet(Y)
  <2>1. ToSet(RollFrontend(r, f)) \subseteq ToSet(Y) BY <1>5, <1>7
  <2> QED BY <1>12, <2>1, RollFrontendIs
<1>13. ASSUME NEW m \in Member, ~IsOld(m)
       PROVE  Of("load", m) \in ToSet(RollbackCalls(r)) \/ Of("try_load", m) \in ToSet(RollbackCalls(r))
  BY <1>10, <1>11, <1>12, <1>13 DEF Member
<1>14. \A b \in Backs \ running : Of("start", b) \in ToSet(RollbackCalls(r)) BY <1>10, <1>11
<1> QED BY <1>10, <1>13, <1>14 DEF Undoes, Restarting
-----------------------------------------------------------------------------
(* No executor dies: what every action preserves *)

\* With Inv, the inductive invariant as long as no executor dies.
Safe == Noting /\ Undoing /\ Outcomes

\* A rollback that begins has all it needs in the record.
LEMMA RollsBackB ==
  ASSUME Inv, Noting, Forward, rec.cursor >= WindowFrom, NEW end \in Ends1("rollback"),
         run' = Doing("rollback", end, Copy, RollbackCalls(Copy)), UNCHANGED <<rec, canisters>>
  PROVE  Safe'
<1>1. Copy \in Record /\ Open /\ Step \in PlanSteps
  <2>1. rec \in Record /\ (run # None => run.mem \in Record) BY Executing DEF Inv, TypeOK
  <2> QED BY <2>1, OpenOnPlan DEF Copy, Forward
<1>2. Undoes(RollbackCalls(Copy)) /\ Undoable
  BY <1>1, RollbackUndoes, ChangedIsNoted, ForwardUndoable DEF Noting, ChangesNoted
<1>3. run'.mode = "rollback" /\ run'.todo = RollbackCalls(Copy) BY DEF Doing
<1>4. run' # None
  <2>1. RollbackCalls(Copy) \in Seq(Allowed("rollback", Step)) BY <1>1, RollbackCallsAre DEF Allowed
  <2>2. "ROLLED_BACK" \in Terminal BY DEF Terminal
  <2>3. run' \in Executor BY <1>1, <2>1, <2>2, ExecutorIs DEF Ends1
  <2> QED BY <2>3, NoneAssumption
<1>5. applied' = applied /\ maint' = maint /\ running' = running /\ icSnaps' = icSnaps /\ rec' = rec BY DEF canisters
<1>6. ~Forward' BY <1>3, <1>4 DEF Forward
<1>7. Undoes(run.todo)' /\ Undoable' BY <1>2, <1>3, <1>5 DEF Undoes, Undoable, IsOld, Restarts
<1>8. Outcomes' BY <1>1, <1>5 DEF Outcomes, Open
<1> QED BY <1>3, <1>5, <1>6, <1>7, <1>8 DEF Safe, Noting, Undoing

\* A cleanup begins only on an old stand.
LEMMA AbandonsB ==
  ASSUME Open, AllOld, run' # None, run'.mode \in {"abandon", "discard"}, UNCHANGED <<rec, canisters>>
  PROVE  Safe'
<1>1. applied' = applied /\ maint' = maint /\ running' = running /\ rec' = rec BY DEF canisters
<1>2. ~Forward' BY DEF Forward
<1>3. AllOld' BY <1>1 DEF AllOld, IsOld
<1>4. Outcomes' BY <1>1 DEF Outcomes, Open
<1> QED BY <1>2, <1>3, <1>4 DEF Safe, Noting, Undoing

\* A step begins: the record notes what it touches before the first call.
LEMMA BeginStepB == ASSUME Inv, Safe, BeginStep, Inv' PROVE Safe'
<1>1. /\ run = None /\ Open /\ run' = Doing("step", "OPEN", Entering(rec), StepCalls(rec))
      /\ rec' = rec /\ applied' = applied /\ maint' = maint /\ running' = running /\ icSnaps' = icSnaps
  BY DEF BeginStep, Free, Open, canisters
<1>2. rec \in Record /\ rec.cursor \in DOMAIN Plan /\ rec.cursor \in 1..Len(Plan) /\ DOMAIN Plan = 1..Len(Plan)
      /\ Step \in PlanSteps
  BY <1>1, OpenOnPlan DEF Inv, TypeOK
<1>3. Forward /\ Copy = rec /\ StepsNoted /\ ChangesNoted BY <1>1 DEF Forward, Copy, Safe, Noting
<1>4. run'.mode = "step" /\ run'.mem = Entering(rec) /\ run'.todo = StepCalls(rec) /\ run'.todo # <<>>
  BY <1>1, StepCallsAre DEF Doing
<1>5. run' # None
  <2>1. Entering(rec) \in Record BY <1>2, EnteringIs
  <2>2. run' \in Executor BY <1>1, <1>2, <2>1, StepCallsAre, ExecutorIs
  <2> QED BY <2>2, NoneAssumption
<1>6. Safe'
  <2>1. Copy' = Entering(rec) BY <1>4, <1>5 DEF Copy
  <2>2. /\ Entering(rec).snapshots = rec.snapshots /\ rec.touched \subseteq Entering(rec).touched
        /\ rec.stopped \subseteq Entering(rec).stopped
    BY <1>2, EnteringIs
  <2>3. /\ Step.op = "maintenance_on" => Step.cid \in Entering(rec).touched
        /\ Step.op = "stop" => Step.cid \in Entering(rec).stopped
        /\ Step.op \notin {"maintenance_on", "stop"} => Entering(rec) = rec
    BY <1>2 DEF Entering, Step, Record
  <2>4. StepsNoted'
    <3> SUFFICES ASSUME NEW i \in DOMAIN Plan
                 PROVE  /\ Done(i)' /\ SnapshotCall(Plan[i]) => Plan[i].cid \in Copy'.snapshots
                        /\ Done(i)' /\ Verify(Plan[i]) => IsNew(Plan[i].cid)'
                        /\ Done(i)' /\ Plan[i].op = "verify_backend" => Plan[i].cid \in running'
                        /\ Begun(i)' /\ Plan[i].op = "maintenance_on" => Plan[i].cid \in Copy'.touched
                        /\ i = rec'.cursor /\ run' # None /\ Plan[i].op = "stop" => Plan[i].cid \in Copy'.stopped
      BY DEF StepsNoted
    <3>1. Done(i)' => Done(i) BY <1>1, <1>4 DEF Done
    <3>2. Begun(i)' => Begun(i) \/ Plan[i] = Step BY <1>1 DEF Begun, Step
    <3>3. IsNew(Plan[i].cid) => IsNew(Plan[i].cid)' BY <1>1 DEF IsNew
    <3> QED BY <1>1, <1>3, <2>1, <2>2, <2>3, <3>1, <3>2, <3>3 DEF StepsNoted, Step
  <2>5. ChangesNoted'
    <3>1. Reached' = Reached BY <1>1 DEF Reached, Step
    <3>2. Step.op \in {"maintenance_on", "stop"} => Reached >= 5 BY Ranks DEF Reached
    <3> QED BY <1>1, <1>3, <2>1, <2>2, <2>3, <3>1, <3>2 DEF ChangesNoted
  <2>6. Undoing' BY <1>4 DEF Undoing
  <2>7. Outcomes' BY <1>1 DEF Outcomes, Open
  <2> QED BY <2>4, <2>5, <2>6, <2>7 DEF Safe, Noting
<1> QED BY <1>6

\* The step at the cursor is done: the cursor moves on.
LEMMA MovesOn ==
  ASSUME Inv, Safe, Forward, Inv', run' = None, UNCHANGED canisters,
         rec'.snapshots = Copy.snapshots, rec'.touched = Copy.touched, rec'.stopped = Copy.stopped,
         \/ rec'.cursor = rec.cursor
         \/ rec'.cursor = rec.cursor + 1 /\ (Done(rec.cursor) \/ Step.op = "bake")
  PROVE  Noting' /\ Undoing'
<1>1. Open /\ StepsNoted /\ ChangesNoted BY DEF Forward, Safe, Noting
<1>2. Undoing' BY DEF Undoing
<1>3. ASSUME Open' PROVE StepsNoted' /\ ChangesNoted'
  <2>1. applied' = applied /\ maint' = maint /\ running' = running /\ icSnaps' = icSnaps BY DEF canisters
  <2>2. Copy' = rec' BY DEF Copy
  <2>3. rec.cursor \in 1..Len(Plan) /\ Len(Plan) \in Nat /\ DOMAIN Plan = 1..Len(Plan) BY <1>1, OpenOnPlan, PlanIsSeq
  <2>4. StepsNoted'
    <3> SUFFICES ASSUME NEW i \in DOMAIN Plan
                 PROVE  /\ Done(i)' /\ SnapshotCall(Plan[i]) => Plan[i].cid \in Copy'.snapshots
                        /\ Done(i)' /\ Verify(Plan[i]) => IsNew(Plan[i].cid)'
                        /\ Done(i)' /\ Plan[i].op = "verify_backend" => Plan[i].cid \in running'
                        /\ Begun(i)' /\ Plan[i].op = "maintenance_on" => Plan[i].cid \in Copy'.touched
                        /\ i = rec'.cursor /\ run' # None /\ Plan[i].op = "stop" => Plan[i].cid \in Copy'.stopped
      BY DEF StepsNoted
    <3>1. Done(i)' => Done(i) \/ Plan[i].op = "bake"
      <4>1. Done(i)' => i < rec'.cursor BY DEF Done
      <4>2. i < rec'.cursor => i < rec.cursor \/ (i = rec.cursor /\ (Done(rec.cursor) \/ Step.op = "bake"))
        BY <2>3
      <4> QED BY <4>1, <4>2 DEF Done, Step
    <3>2. Begun(i)' => Begun(i) \/ Plan[i].op = "bake"
      <4>1. Begun(i)' => Done(i)' BY DEF Begun, Done
      <4>2. Done(i) => Begun(i) BY DEF Begun, Done
      <4> QED BY <3>1, <4>1, <4>2
    <3>3. IsNew(Plan[i].cid) => IsNew(Plan[i].cid)' BY <2>1 DEF IsNew
    <3>4. Plan[i].op = "bake" => ~SnapshotCall(Plan[i]) /\ ~Verify(Plan[i]) BY DEF SnapshotCall, Verify
    <3> QED BY <1>1, <2>1, <2>2, <3>1, <3>2, <3>3, <3>4 DEF StepsNoted
  <2>5. Reached \in 1..14 /\ Reached' \in 1..14 /\ Reached <= Reached'
    <3>2. rec'.cursor \in 1..Len(Plan) BY <1>3, PlanIsSeq DEF Inv, CallsOK
    <3>1. Reached \in 1..14 /\ Reached' \in 1..14 BY <2>3, <3>2, PlanIsSeq DEF Reached, Step
    <3>3. rec.cursor <= rec'.cursor BY <2>3
    <3>4. Rank(Plan[rec.cursor].op) <= Rank(Plan[rec'.cursor].op) BY <2>3, <3>2, <3>3, PlanOrder DEF Ordered
    <3> QED BY <3>1, <3>4 DEF Reached, Step
  <2>6. ChangesNoted' BY <1>1, <2>1, <2>2, <2>5 DEF ChangesNoted
  <2> QED BY <2>4, <2>6
<1>4. Forward' => Open' BY DEF Forward
<1> QED BY <1>2, <1>3, <1>4 DEF Noting

\* The release bakes,
LEMMA BakeB == ASSUME Inv, Safe, Bake, Inv' PROVE Safe'
<1>1. /\ run = None /\ run' = None /\ Open /\ Step.op = "bake" /\ UNCHANGED canisters /\ rec \in Record
  BY DEF Bake, Free, Open, Step, Inv, TypeOK
<1>2. PICK over \in BOOLEAN : rec' = [rec EXCEPT !.windowEnded = TRUE, !.cursor = IF over THEN @ + 1 ELSE @]
  BY DEF Bake
<1>3. /\ rec'.snapshots = rec.snapshots /\ rec'.touched = rec.touched /\ rec'.stopped = rec.stopped
      /\ rec'.outcome = "OPEN" /\ rec'.cursor \in {rec.cursor, rec.cursor + 1}
  BY <1>1, <1>2 DEF Record, Open
<1>4. Forward /\ Copy = rec BY <1>1 DEF Forward, Copy
<1>5. Noting' /\ Undoing' BY <1>1, <1>3, <1>4, MovesOn
<1>6. Outcomes' BY <1>3 DEF Outcomes
<1> QED BY <1>5, <1>6 DEF Safe

\* a step ends: the last one only when every member was verified;
LEMMA EndStepB == ASSUME Inv, Safe, EndStep, Inv' PROVE Safe'
<1>1. /\ run # None /\ run' = None /\ UNCHANGED canisters /\ run.mode = "step" /\ run.todo = <<>>
      /\ rec' = [run.mem EXCEPT !.cursor = @ + 1, !.outcome = IF run.mem.cursor = Len(Plan) THEN "COMPLETE" ELSE @]
  BY DEF EndStep
<1>2. /\ run.mem \in Record /\ rec.cursor \in 1..Len(Plan) /\ Open
      /\ run.mem.cursor = rec.cursor /\ run.mem.outcome = "OPEN"
  BY <1>1, Executing DEF Inv, CallsOK
<1>3. /\ rec'.snapshots = run.mem.snapshots /\ rec'.touched = run.mem.touched /\ rec'.stopped = run.mem.stopped
      /\ rec'.cursor = rec.cursor + 1 /\ rec'.outcome = IF rec.cursor = Len(Plan) THEN "COMPLETE" ELSE "OPEN"
  BY <1>1, <1>2 DEF Record
<1>4. Forward /\ Copy = run.mem /\ Done(rec.cursor) BY <1>1, <1>2 DEF Forward, Copy, Done
<1>5. Noting' /\ Undoing' BY <1>1, <1>3, <1>4, MovesOn
<1>6. ASSUME rec.cursor = Len(Plan) PROVE AllNew' /\ rec'.cursor > WindowFrom
  <2>1. applied' = applied /\ maint' = maint /\ running' = running BY <1>1 DEF canisters
  <2>2. StepsNoted /\ maint \subseteq Fronts BY <1>4 DEF Safe, Noting, Inv, TypeOK
  <2>3. Reached = 14 BY <1>6, PlanOrder, Ranks DEF Reached, Step
  <2>4. \A i \in 1..Len(Plan) : Rank(Plan[i].op) < 14 => i < rec.cursor BY <1>2, <2>3, OpenOnPlan
  <2>5. DOMAIN Plan = 1..Len(Plan) BY PlanIsSeq
  <2>6. ASSUME NEW f \in Fronts PROVE IsNew(f)
    <3>1. PICK i \in 1..Len(Plan) : Plan[i] = Of("verify_frontend", f) BY <2>5, PlanOrder DEF ToSet
    <3>2. i < rec.cursor BY <2>4, <3>1, Ranks DEF Of
    <3> QED BY <2>2, <2>5, <3>1, <3>2 DEF StepsNoted, Done, Verify, Of
  <2>7. ASSUME NEW b \in Backs PROVE IsNew(b) /\ b \in running
    <3>1. PICK i \in 1..Len(Plan) : Plan[i] = Of("verify_backend", b) BY <2>5, PlanOrder DEF ToSet
    <3>2. i < rec.cursor BY <2>4, <3>1, Ranks DEF Of
    <3> QED BY <2>2, <2>5, <3>1, <3>2 DEF StepsNoted, Done, Verify, Of
  <2>8. AllNew' BY <2>1, <2>6, <2>7 DEF AllNew, IsNew, Member
  <2> QED BY <1>3, <1>6, <2>8, WindowIs, PlanIsSeq
<1>7. Outcomes' BY <1>3, <1>6 DEF Outcomes
<1> QED BY <1>5, <1>7 DEF Safe

\* a rollback that had no problems has nothing left to undo;
LEMMA DiscardB == ASSUME Inv, Safe, DiscardSnapshots, Inv' PROVE Safe'
<1>1. /\ run # None /\ run.mode = "rollback" /\ ~run.problems /\ run.todo = <<>> /\ UNCHANGED <<rec, canisters>>
      /\ run' = [run EXCEPT !.mode = "discard", !.todo = DeleteCalls(run.mem)]
  BY DEF DiscardSnapshots
<1>2. run \in Executor /\ Open BY <1>1, Executing
<1>3. run'.mode = "discard" BY <1>1, <1>2 DEF Executor
<1>4. AllOld
  <2>1. Undoes(<<>>) BY <1>1 DEF Safe, Undoing
  <2>2. ToSet(<<>>) = {} BY DEF ToSet
  <2> QED BY <2>1, <2>2 DEF Undoes, AllOld
<1>5. run' # None
  <2>1. DeleteCalls(run.mem) \in Seq(Call)
    <3>1. run.mem \in Record BY <1>1, Executing
    <3>2. CleanupCall \subseteq Call BY CallsAreCalls
    <3> QED BY <3>1, <3>2, CleanupCallsAre, SeqOfSubset
  <2>2. run' \in Executor BY <1>1, <1>2, <2>1 DEF Executor, Call
  <2> QED BY <2>2, NoneAssumption
<1> QED BY <1>1, <1>2, <1>3, <1>4, <1>5, AbandonsB

\* the release ends;
LEMMA EndReleaseB == ASSUME Inv, Safe, EndRelease, Inv' PROVE Safe'
<1>1. /\ run # None /\ run' = None /\ UNCHANGED canisters
      /\ run.mode \in {"abandon", "discard"} \/ (run.mode = "rollback" /\ run.problems)
      /\ rec' = [run.mem EXCEPT !.outcome = IF run.problems THEN "NEEDS_ATTENTION" ELSE run.end]
  BY DEF EndRelease
<1>2. /\ run.mem \in Record /\ run.end \in Ends1(run.mode) /\ run \in Executor /\ run.mem.cursor = rec.cursor
      /\ (run.problems => run.mode = "rollback")
  BY <1>1, Executing DEF Inv, CallsOK
<1>3. applied' = applied /\ maint' = maint /\ running' = running /\ icSnaps' = icSnaps BY <1>1 DEF canisters
<1>4. rec'.cursor = rec.cursor /\ rec'.outcome = IF run.problems THEN "NEEDS_ATTENTION" ELSE run.end
  BY <1>1, <1>2 DEF Record
<1>5. CASE run.mode \in {"abandon", "discard"}
  <2>1. AllOld /\ ~run.problems BY <1>1, <1>2, <1>5 DEF Safe, Undoing
  <2>2. AllOld' BY <1>3, <2>1 DEF AllOld, IsOld
  <2>3. rec'.outcome \in {"REJECTED_PREFLIGHT", "FAILED_STAGING", "ABORTED", "ROLLED_BACK"}
    BY <1>2, <1>4, <1>5, <2>1 DEF Ends1
  <2>4. ~Forward' /\ Undoing' BY <1>1, <2>3 DEF Forward, Open, Undoing
  <2> QED BY <2>2, <2>3, <2>4 DEF Safe, Noting, Outcomes
<1>6. CASE run.mode = "rollback" /\ run.problems
  <2>1. Undoable /\ rec.cursor >= WindowFrom BY <1>1, <1>6 DEF Safe, Undoing
  <2>2. Undoable' BY <1>3, <2>1 DEF Undoable, IsOld
  <2>3. rec'.outcome = "NEEDS_ATTENTION" BY <1>4, <1>6
  <2>4. ~Forward' /\ Undoing' BY <1>1, <2>3 DEF Forward, Open, Undoing
  <2> QED BY <1>4, <2>1, <2>2, <2>3, <2>4 DEF Safe, Noting, Outcomes
<1> QED BY <1>1, <1>5, <1>6

\* an operator aborts.
LEMMA AbortB == ASSUME Inv, Safe, AbortAction, Inv' PROVE Safe'
<1>1. /\ run = None /\ Open /\ UNCHANGED <<rec, canisters>>
      /\ run' = IF rec.cursor < WindowFrom /\ rec.touched = {} /\ rec.stopped = {}
                THEN Doing("abandon", "ABORTED", rec, AbandonCalls(rec))
                ELSE Doing("rollback", "ROLLED_BACK", rec, RollbackCalls(rec))
  BY DEF AbortAction, Free, Open
<1>2. Forward /\ Copy = rec /\ Noting BY <1>1 DEF Forward, Copy, Safe
<1>3. /\ rec \in Record /\ Reached \in 1..14 /\ (rec.cursor < WindowFrom <=> Reached <= 4) /\ Step \in PlanSteps
      /\ rec.cursor \in 1..Len(Plan)
  BY <1>1, OpenOnPlan DEF Inv, TypeOK
<1>4. CASE rec.cursor < WindowFrom /\ rec.touched = {} /\ rec.stopped = {}
  <2>1. AllOld BY <1>2, <1>3, <1>4, OldBeforeWindow
  <2>2. run' = Doing("abandon", "ABORTED", rec, AbandonCalls(rec)) BY <1>1, <1>4
  <2>3. run' # None
    <3>1. AbandonCalls(rec) \in Seq(Allowed("abandon", Step)) BY <1>3, CleanupCallsAre DEF Allowed
    <3>2. "ABORTED" \in Terminal BY DEF Terminal
    <3>3. run' \in Executor BY <1>3, <2>2, <3>1, <3>2, ExecutorIs
    <3> QED BY <3>3, NoneAssumption
  <2>4. run'.mode = "abandon" BY <2>2 DEF Doing
  <2> QED BY <1>1, <2>1, <2>3, <2>4, AbandonsB
<1>5. CASE ~(rec.cursor < WindowFrom /\ rec.touched = {} /\ rec.stopped = {})
  <2>1. rec.cursor >= WindowFrom
    <3>1. rec.touched \cup rec.stopped # {} => Reached >= 5 BY <1>2 DEF Noting, ChangesNoted
    <3> QED BY <1>3, <1>5, <3>1, WindowIs
  <2>2. "ROLLED_BACK" \in Ends1("rollback") BY DEF Ends1
  <2> QED BY <1>1, <1>2, <1>5, <2>1, <2>2, RollsBackB
<1> QED BY <1>4, <1>5

\* What is left once the first call was made.
LEMMA TailRestarts ==
  ASSUME NEW s \in Seq(RollbackCall), s # <<>>, Restarts(s)
  PROVE  /\ ToSet(s) \subseteq ToSet(Tail(s)) \cup {Head(s)} /\ Restarts(Tail(s))
         /\ \A b \in Backs : Head(s) = Of("stop", b) => Of("start", b) \in ToSet(Tail(s))
<1> DEFINE c == Head(s)
           t == Tail(s)
<1>1. /\ DOMAIN s = 1..Len(s) /\ DOMAIN t = 1..(Len(s) - 1) /\ Len(s) \in Nat /\ s[1] = c /\ 1 \in 1..Len(s)
      /\ \A i \in 1..(Len(s) - 1) : t[i] = s[i + 1]
  OBVIOUS
<1>2. ToSet(s) \subseteq ToSet(t) \cup {c}
  <2> SUFFICES ASSUME NEW i \in 1..Len(s) PROVE s[i] \in ToSet(t) \cup {c} BY <1>1 DEF ToSet
  <2>1. CASE i = 1 BY <1>1, <2>1
  <2>2. CASE i # 1
    <3>1. i - 1 \in 1..(Len(s) - 1) /\ t[i - 1] = s[i] BY <1>1, <2>2
    <3> HIDE DEF t
    <3> QED BY <1>1, <3>1 DEF ToSet
  <2> QED BY <2>1, <2>2
<1>3. Restarts(t)
  <2> HIDE DEF t, c
  <2> SUFFICES ASSUME NEW b \in Backs, NEW i \in DOMAIN t, t[i] = Of("stop", b)
               PROVE  \E j \in DOMAIN t : j > i /\ t[j] = Of("start", b)
    BY DEF Restarts
  <2>0. i \in 1..(Len(s) - 1) /\ s[i + 1] = Of("stop", b) BY <1>1
  <2>1. i + 1 \in 1..Len(s) BY <1>1, <2>0
  <2>2. PICK k \in 1..Len(s) : k > i + 1 /\ s[k] = Of("start", b) BY <1>1, <2>0, <2>1 DEF Restarts
  <2>3. k - 1 \in 1..(Len(s) - 1) /\ k - 1 > i /\ (k - 1) + 1 = k BY <1>1, <2>0, <2>2
  <2> QED BY <1>1, <2>2, <2>3
<1>4. ASSUME NEW b \in Backs, c = Of("stop", b) PROVE Of("start", b) \in ToSet(t)
  <2> HIDE DEF c
  <2>1. PICK k \in 1..Len(s) : k > 1 /\ s[k] = Of("start", b) BY <1>1, <1>4 DEF Restarts
  <2>2. k - 1 \in 1..(Len(s) - 1) /\ t[k - 1] = s[k] BY <1>1, <2>1
  <2> HIDE DEF t
  <2> QED BY <1>1, <2>1, <2>2 DEF ToSet
<1> QED BY <1>2, <1>3, <1>4

\* A call of the rollback or the cleanup changes nothing of the stand that was not
\* changed before.
LEMMA CallsUndo ==
  ASSUME Inv, NEW c \in RollbackCall \cup CleanupCall, ~Impossible(c), Effect(c), NEW m \in Member, ~IsOld(m)'
  PROVE  ~IsOld(m)
<1>1. applied' = AppliedAfter(c) /\ maint' = MaintAfter(c) /\ applied \in [Member -> Content] /\ c.cid \in Member
      /\ c.op \notin {"maintenance_on", "commit_bundle"} /\ ~InstallCall(c)
  BY DEF Effect, Inv, TypeOK, InstallCall, RollbackCall, CleanupCall
<1>2. CASE LoadCall(c)
  <2>1. applied' = [applied EXCEPT ![c.cid] = icSnaps[c.cid].applied] /\ maint' = maint \ {c.cid}
    BY <1>1, <1>2 DEF AppliedAfter, MaintAfter
  <2>2. icSnaps[c.cid] # None BY <1>2 DEF Impossible, NoSnapshot, LoadCall
  <2>3. icSnaps[c.cid].applied = {} BY <1>1, <2>2 DEF Inv, SnapshotsAreOld
  <2> QED BY <1>1, <2>1, <2>3 DEF IsOld
<1>3. CASE ~LoadCall(c) BY <1>1, <1>3 DEF AppliedAfter, MaintAfter, IsOld
<1> QED BY <1>2, <1>3

\* A call of the rollback that is answered.
LEMMA RollsOn ==
  ASSUME Inv, Undoable, NEW s \in Seq(RollbackCall), s # <<>>, Undoes(s), ~Impossible(Head(s)), Effect(Head(s))
  PROVE  Undoes(Tail(s))'
<1> DEFINE c == Head(s)
           t == Tail(s)
<1>1. c \in RollbackCall /\ ~Impossible(c) /\ Effect(c) /\ TypeOK BY DEF Inv
<1>2. ToSet(s) \subseteq ToSet(t) \cup {c} /\ Restarts(t)
      /\ (c.op = "stop" /\ c.cid \in Backs /\ c = Of("stop", c.cid) => Of("start", c.cid) \in ToSet(t))
  BY TailRestarts DEF Undoes
<1> HIDE DEF c, t
<1>5. ASSUME c.op = "stop", c.cid \in Backs PROVE Of("start", c.cid) \in ToSet(t)
  <2>1. c = Of("stop", c.cid) BY <1>1, <1>5 DEF RollbackCall, Of
  <2> QED BY <1>2, <1>5, <2>1
<1>6. ASSUME NEW m \in Member, ~IsOld(m)' PROVE ~IsOld(m) /\ ~(LoadCall(c) /\ c.cid = m)
  <2>1. ~IsOld(m) BY <1>1, <1>6, CallsUndo
  <2>2. ASSUME LoadCall(c), c.cid = m PROVE FALSE
    <3>1. c.op \notin {"maintenance_on", "commit_bundle"} /\ ~InstallCall(c) BY <1>1 DEF RollbackCall, InstallCall
    <3>2. applied' = [applied EXCEPT ![m] = icSnaps[m].applied] /\ maint' = maint \ {m}
      BY <1>1, <2>2, <3>1 DEF Effect, AppliedAfter, MaintAfter
    <3>3. icSnaps[m] # None BY <1>1, <2>2 DEF Impossible, NoSnapshot, LoadCall
    <3> QED BY <1>1, <1>6, <3>2, <3>3 DEF Inv, SnapshotsAreOld, IsOld, TypeOK
  <2> QED BY <2>1, <2>2
<1>7. ASSUME NEW m \in Member, ~IsOld(m)' PROVE Of("load", m) \in ToSet(t) \/ Of("try_load", m) \in ToSet(t)
  <2>1. Of("load", m) \in ToSet(s) \/ Of("try_load", m) \in ToSet(s) BY <1>6, <1>7 DEF Undoes
  <2>2. c # Of("load", m) /\ c # Of("try_load", m) BY <1>6, <1>7 DEF LoadCall, Of
  <2> QED BY <1>2, <2>1, <2>2
<1>8. ASSUME NEW b \in Backs \ running' PROVE Of("start", b) \in ToSet(t)
  <2>1. running' = RunningAfter(c) BY <1>1 DEF Effect
  <2>2. c # Of("start", b) BY <2>1 DEF RunningAfter, Of
  <2>3. CASE b \in running
    <3>1. c.op = "stop" /\ c.cid = b BY <2>1, <2>3 DEF RunningAfter
    <3> QED BY <1>5, <3>1
  <2>4. CASE b \notin running
    <3>1. Of("start", b) \in ToSet(s) BY <2>4 DEF Undoes
    <3> QED BY <1>2, <2>2, <3>1
  <2> QED BY <2>3, <2>4
<1>9. Undoes(t)' = ( /\ \A m \in Member : ~IsOld(m)' => Of("load", m) \in ToSet(t) \/ Of("try_load", m) \in ToSet(t)
                     /\ \A b \in Backs \ running' : Of("start", b) \in ToSet(t)
                     /\ Restarts(t) )
  BY DEF Undoes, t
<1> QED BY <1>2, <1>7, <1>8, <1>9 DEF t

\* A call of the step at the cursor is answered.
LEMMA StepSucceeds ==
  ASSUME Inv, Safe, Inv', CallSucceeds, run.mode = "step"
  PROVE  StepsNoted' /\ ChangesNoted'
<1> DEFINE c == Head(run.todo)
<1>1. /\ run # None /\ run.todo # <<>> /\ ~Impossible(c) /\ Effect(c) /\ rec' = rec
      /\ run' = [run EXCEPT !.todo = Tail(@), !.mem = Noted(@, c)]
  BY DEF CallSucceeds
<1>2. /\ run \in Executor /\ run.mem \in Record /\ Open /\ rec.cursor \in 1..Len(Plan)
      /\ Step \in PlanSteps /\ Reached \in 1..14
      /\ c \in Allowed("step", Step) /\ (Step.op # "restore" => c = Step /\ Tail(run.todo) = <<>>)
  BY <1>1, Executing
<1> HIDE DEF c
<1>3. Forward /\ Copy = run.mem /\ StepsNoted /\ ChangesNoted BY <1>1, <1>2 DEF Forward, Copy, Safe, Noting
<1>4. Copy' = Noted(run.mem, c) \/ run' = None
  BY <1>1, <1>2 DEF Executor, Copy
<1>5. run' # None /\ run'.todo = Tail(run.todo)
  <2>1. run'.mem = Noted(run.mem, c) /\ run'.todo = Tail(run.todo) BY <1>1, <1>2 DEF Executor
  <2>2. Tail(run.todo) \in Seq(Call)
    <3>1. Allowed("step", Step) \subseteq Call BY <1>2, AllowedAreCalls, CallsAreCalls
    <3>2. Tail(run.todo) \in Seq(Allowed("step", Step)) BY <1>1, Executing
    <3> QED BY <3>1, <3>2, SeqOfSubset
  <2>3. Noted(run.mem, c) \in Record
    <3>1. c \in PlanSteps \cup RollbackCall \cup CleanupCall BY <1>2, AllowedAreCalls
    <3> QED BY <1>2, <3>1, NotedIs
  <2>4. run' \in Executor BY <1>1, <1>2, <2>2, <2>3 DEF Executor, Call
  <2> QED BY <2>1, <2>4, NoneAssumption
<1>6. Copy' = Noted(run.mem, c) BY <1>4, <1>5
<1>7. Step.op = "restore" => c.op \in {"try_load", "stop", "load", "start"} /\ c.cid = Step.cid /\ c.cid \in Fronts
  <2> SUFFICES ASSUME Step.op = "restore"
               PROVE  c.op \in {"try_load", "stop", "load", "start"} /\ c.cid = Step.cid /\ c.cid \in Fronts
    OBVIOUS
  <2>1. c \in RestoreCall(Step.cid) BY <1>2 DEF Allowed
  <2>2. Step.cid \in Fronts BY <1>2 DEF PlanSteps, BackOps, AloneOps
  <2> QED BY <2>1, <2>2 DEF RestoreCall
<1>8. /\ c.op \in FrontOps \cup {"try_load", "load"} => c.cid \in Fronts
      /\ c.op \in {"install", "snapshot", "verify_backend"} => c.cid \in Backs
      /\ c.op # "delete" /\ (c.op \in {"try_load", "load"} => Reached = 11)
  <2>1. CASE Step.op = "restore"
    <3>1. Reached = 11 BY <2>1, Ranks DEF Reached
    <3> QED BY <1>7, <2>1, <3>1
  <2>2. CASE Step.op # "restore"
    <3>1. c \in PlanSteps BY <1>2, <2>2
    <3> QED BY <3>1 DEF PlanSteps, FrontOps, BackOps, AloneOps
  <2> QED BY <2>1, <2>2
<1>9. /\ run.mem.snapshots \subseteq Copy'.snapshots /\ Copy'.touched = run.mem.touched
      /\ SnapshotCall(c) => c.cid \in Copy'.snapshots
      /\ \A m \in Copy'.snapshots : m \in run.mem.snapshots \/ (SnapshotCall(c) /\ m = c.cid)
      /\ Copy'.stopped = IF c.op = "start" THEN run.mem.stopped \ {c.cid} ELSE run.mem.stopped
  <2>1. c.op = "start" => ~SnapshotCall(c) /\ ~BundleCall(c) BY DEF SnapshotCall, BundleCall
  <2>2. run.mode = "step" OBVIOUS
  <2>3. c.op # "delete" BY <1>8
  <2>4. CASE SnapshotCall(c)
    <3>1. Copy' = [run.mem EXCEPT !.snapshots = @ \cup {c.cid}] BY <1>6, <2>4 DEF Noted, SnapshotCall, BundleCall
    <3> QED BY <1>2, <2>1, <2>4, <3>1 DEF Record
  <2>5. CASE ~SnapshotCall(c) /\ BundleCall(c)
    <3>1. Copy' = [run.mem EXCEPT !.batches = @ \cup {c.cid}] BY <1>6, <2>3, <2>5 DEF Noted, SnapshotCall, BundleCall
    <3> QED BY <1>2, <2>1, <2>5, <3>1 DEF Record
  <2>6. CASE c.op = "start"
    <3>1. Copy' = [run.mem EXCEPT !.stopped = @ \ {c.cid}] BY <1>6, <2>1, <2>2, <2>6 DEF Noted
    <3> QED BY <1>2, <2>1, <2>6, <3>1 DEF Record
  <2>7. CASE ~SnapshotCall(c) /\ ~BundleCall(c) /\ c.op # "start"
    <3>1. Copy' = run.mem BY <1>6, <2>3, <2>7 DEF Noted
    <3> QED BY <2>7, <3>1
  <2> QED BY <2>4, <2>5, <2>6, <2>7
<1>10. /\ applied' = AppliedAfter(c) /\ maint' = MaintAfter(c) /\ running' = RunningAfter(c) /\ icSnaps' = SnapsAfter(c)
       /\ applied \in [Member -> Content] /\ maint \subseteq Fronts /\ icSnaps \in [Member -> Snapshot \cup {None}]
       /\ Fronts \cap Backs = {} /\ None \notin Member
  BY <1>1, MembersAssumption DEF Effect, Inv, TypeOK
<1>11. ASSUME NEW b \in Backs, Reached >= 10 PROVE (IsNew(b) => IsNew(b)') /\ (b \in running => b \in running')
  <2>1. c.op \notin {"maintenance_on", "install"} /\ (c.op \in {"stop", "start"} => c.cid \in Fronts)
    <3>1. CASE Step.op = "restore" BY <1>7, <3>1
    <3>2. CASE Step.op # "restore"
      <4>1. c.op \notin {"maintenance_on", "install", "stop", "start"} BY <1>2, <1>11, <3>2, Ranks DEF Reached
      <4> QED BY <4>1
    <3> QED BY <3>1, <3>2
  <2>2. applied'[b] = applied[b]
    <3>1. c.op \in {"install_frontend", "commit_bundle", "try_load", "load"} => c.cid \in Fronts BY <1>8 DEF FrontOps
    <3>2. b \in Member /\ b \notin Fronts BY <1>10 DEF Member
    <3> QED BY <1>10, <2>1, <3>1, <3>2 DEF AppliedAfter, InstallCall, LoadCall
  <2>3. b \notin maint /\ b \notin maint' BY <1>10, <2>1 DEF MaintAfter
  <2>4. b \in running => b \in running' BY <1>10, <2>1 DEF RunningAfter
  <2> QED BY <2>2, <2>3, <2>4 DEF IsNew
<1>12. ASSUME Reached >= 12 PROVE applied' = applied /\ maint' = maint
  <2>1. Step.op # "restore" /\ c = Step BY <1>2, <1>12, Ranks DEF Reached
  <2>2. c.op \notin {"maintenance_on", "install", "install_frontend", "commit_bundle", "try_load", "load"}
    BY <1>8, <1>12, <2>1, Ranks DEF Reached
  <2> QED BY <1>10, <2>2 DEF AppliedAfter, MaintAfter, InstallCall, LoadCall
<1>13. StepsNoted'
  <2> SUFFICES ASSUME NEW i \in DOMAIN Plan
               PROVE  /\ Done(i)' /\ SnapshotCall(Plan[i]) => Plan[i].cid \in Copy'.snapshots
                      /\ Done(i)' /\ Verify(Plan[i]) => IsNew(Plan[i].cid)'
                      /\ Done(i)' /\ Plan[i].op = "verify_backend" => Plan[i].cid \in running'
                      /\ Begun(i)' /\ Plan[i].op = "maintenance_on" => Plan[i].cid \in Copy'.touched
                      /\ i = rec'.cursor /\ run' # None /\ Plan[i].op = "stop" => Plan[i].cid \in Copy'.stopped
    BY DEF StepsNoted
  <2>1. Done(i)' => i < rec.cursor \/ (i = rec.cursor /\ Plan[i] = Step) BY <1>1 DEF Done, Step
  <2>2. /\ i < rec.cursor /\ SnapshotCall(Plan[i]) => Plan[i].cid \in run.mem.snapshots
        /\ i < rec.cursor /\ Verify(Plan[i]) => IsNew(Plan[i].cid)
        /\ i < rec.cursor /\ Plan[i].op = "verify_backend" => Plan[i].cid \in running
        /\ Begun(i) /\ Plan[i].op = "maintenance_on" => Plan[i].cid \in run.mem.touched
        /\ i = rec.cursor /\ Plan[i].op = "stop" => Plan[i].cid \in run.mem.stopped
    BY <1>1, <1>3 DEF StepsNoted, Done
  <2>3. i \in 1..Len(Plan) /\ (i < rec.cursor => Rank(Plan[i].op) <= Reached) /\ Plan[i] \in PlanSteps
    BY <1>2, OpenOnPlan, PlanIsSeq
  <2>4. Done(i)' /\ SnapshotCall(Plan[i]) => Plan[i].cid \in Copy'.snapshots
    <3>1. i = rec.cursor /\ SnapshotCall(Step) => c = Step BY <1>2 DEF SnapshotCall
    <3> QED BY <1>9, <2>1, <2>2, <3>1
  <2>5. /\ Done(i)' /\ Verify(Plan[i]) => IsNew(Plan[i].cid)'
        /\ Done(i)' /\ Plan[i].op = "verify_backend" => Plan[i].cid \in running'
    <3>1. CASE i < rec.cursor /\ Plan[i].op = "verify_backend"
      <4>1. Plan[i].cid \in Backs BY <2>3, <3>1 DEF PlanSteps, FrontOps, AloneOps
      <4>2. Reached >= 10 BY <1>2, <2>3, <3>1, Ranks
      <4> QED BY <1>11, <2>2, <3>1, <4>1, <4>2 DEF Verify
    <3>2. CASE i < rec.cursor /\ Plan[i].op = "verify_frontend"
      <4>1. Reached >= 12 BY <1>2, <2>3, <3>2, Ranks
      <4> QED BY <1>12, <2>2, <3>2, <4>1 DEF Verify, IsNew
    <3>3. CASE i = rec.cursor /\ Plan[i] = Step /\ Verify(Step)
      <4>1. c = Step BY <1>2, <3>3 DEF Verify
      <4>2. applied[c.cid] = Parts(c.cid) /\ (c.op = "verify_frontend" => c.cid \notin maint) /\ c.cid \in running
        BY <1>1, <3>3, <4>1 DEF Verify, Impossible, Deviates, Asked
      <4>3. c.op = "verify_backend" => c.cid \notin maint BY <1>8, <1>10
      <4>4. applied' = applied /\ maint' = maint /\ running' = running
        BY <1>10, <3>3, <4>1 DEF Verify, AppliedAfter, MaintAfter, RunningAfter, InstallCall, LoadCall
      <4> QED BY <3>3, <4>1, <4>2, <4>3, <4>4 DEF Verify, IsNew
    <3> QED BY <2>1, <3>1, <3>2, <3>3 DEF Verify
  <2>6. Begun(i)' => Begun(i) BY <1>1 DEF Begun
  <2>7. i = rec.cursor /\ Plan[i].op = "stop" => Plan[i].cid \in Copy'.stopped
    <3>1. i = rec.cursor /\ Plan[i].op = "stop" => c.op = "stop" BY <1>2 DEF Step
    <3> QED BY <1>9, <2>2, <3>1
  <2> QED BY <1>1, <1>9, <2>2, <2>4, <2>5, <2>6, <2>7
<1>14. ChangesNoted'
  <2>1. \A m \in Copy'.snapshots : icSnaps'[m] # None
    <3> SUFFICES ASSUME NEW m \in Copy'.snapshots PROVE icSnaps'[m] # None OBVIOUS
    <3>1. CASE SnapshotCall(c) /\ m = c.cid
      <4>1. c.cid \in Member BY <1>8, <3>1 DEF SnapshotCall, FrontOps, Member
      <4>2. icSnaps'[m] = [applied |-> applied[c.cid], staged |-> staged[c.cid]]
        <5>1. icSnaps' = [icSnaps EXCEPT ![c.cid] = [applied |-> applied[c.cid], staged |-> staged[c.cid]]]
          BY <1>10, <3>1 DEF SnapsAfter, SnapshotCall
        <5> QED BY <1>10, <3>1, <4>1, <5>1
      <4>3. icSnaps'[m] \in Snapshot
        <5>1. applied[c.cid] \in Content /\ staged[c.cid] \in Staged BY <4>1 DEF Inv, TypeOK
        <5> QED BY <4>2, <5>1 DEF Snapshot
      <4> QED BY <4>3, NoneAssumption
    <3>2. CASE m \in run.mem.snapshots /\ ~(SnapshotCall(c) /\ m = c.cid)
      <4>1. icSnaps[m] # None BY <1>3, <3>2 DEF ChangesNoted
      <4>2. icSnaps'[m] = icSnaps[m] BY <1>8, <1>10, <3>2 DEF SnapsAfter
      <4> QED BY <4>1, <4>2
    <3> QED BY <1>9, <3>1, <3>2
  <2>2. Backs \ running' \subseteq Copy'.stopped
    <3> SUFFICES ASSUME NEW b \in Backs, b \notin running' PROVE b \in Copy'.stopped OBVIOUS
    <3>1. CASE c.op = "stop" /\ c.cid = b
      <4>1. Step.op # "restore" BY <1>7, <1>10, <3>1
      <4>2. c = Step BY <1>2, <4>1
      <4>3. b \in run.mem.stopped BY <1>1, <1>2, <1>3, <3>1, <4>2, PlanIsSeq DEF StepsNoted, Step
      <4> QED BY <1>9, <3>1, <4>3
    <3>2. CASE ~(c.op = "stop" /\ c.cid = b)
      <4>1. b \notin running /\ ~(c.op = "start" /\ c.cid = b) BY <1>10, <3>2 DEF RunningAfter
      <4>2. b \in run.mem.stopped BY <1>3, <4>1 DEF ChangesNoted
      <4> QED BY <1>9, <4>1, <4>2
    <3> QED BY <3>1, <3>2
  <2>3. maint' \subseteq Copy'.touched
    <3>1. c.op = "maintenance_on" => c.cid \in run.mem.touched
      <4> SUFFICES ASSUME c.op = "maintenance_on" PROVE c.cid \in run.mem.touched OBVIOUS
      <4>1. c = Step BY <1>2, <1>7
      <4>2. Begun(rec.cursor) BY <1>1 DEF Begun
      <4> QED BY <1>2, <1>3, <4>1, <4>2, PlanIsSeq DEF StepsNoted, Step
    <3>2. maint' \subseteq maint \cup (IF c.op = "maintenance_on" THEN {c.cid} ELSE {}) BY <1>10 DEF MaintAfter
    <3> QED BY <1>3, <1>9, <3>1, <3>2 DEF ChangesNoted
  <2>4. Reached' = Reached BY <1>1 DEF Reached, Step
  <2> QED BY <1>3, <1>9, <2>1, <2>2, <2>3, <2>4 DEF ChangesNoted
<1> QED BY <1>13, <1>14

\* A call is answered, going forward, back or cleaning up.
LEMMA CallSucceedsB == ASSUME Inv, Safe, CallSucceeds, Inv' PROVE Safe'
<1> DEFINE c == Head(run.todo)
<1>1. /\ run # None /\ run.todo # <<>> /\ ~Impossible(c) /\ Effect(c) /\ rec' = rec
      /\ run' = [run EXCEPT !.todo = Tail(@), !.mem = Noted(@, c)]
  BY DEF CallSucceeds
<1>2. /\ run \in Executor /\ Open /\ c \in Allowed(run.mode, Step)
      /\ run.todo \in Seq(Allowed(run.mode, Step))
  BY <1>1, Executing
<1> HIDE DEF c
<1>3. /\ run'.mode = run.mode /\ run'.todo = Tail(run.todo) /\ run'.problems = run.problems
  BY <1>1, <1>2 DEF Executor
<1>4. Outcomes' BY <1>1, <1>2 DEF Outcomes, Open
<1>5. CASE run.mode = "step"
  <2>1. StepsNoted' /\ ChangesNoted' BY <1>5, StepSucceeds
  <2>2. Undoing' BY <1>3, <1>5 DEF Undoing
  <2> QED BY <1>4, <2>1, <2>2 DEF Safe, Noting
<1>6. CASE run.mode # "step"
  <2>1. c \in RollbackCall \cup CleanupCall BY <1>2, <1>6 DEF Allowed
  <2>2. \A m \in Member : ~IsOld(m)' => ~IsOld(m) BY <1>1, <2>1, CallsUndo
  <2>3. ~Forward' \/ run' = None BY <1>3, <1>6 DEF Forward
  <2>4. run' # None
    <3>1. c \in PlanSteps \cup RollbackCall \cup CleanupCall BY <2>1
    <3>2. Noted(run.mem, c) \in Record BY <1>1, <3>1, Executing, NotedIs
    <3>3. Tail(run.todo) \in Seq(Call)
      <4>1. Tail(run.todo) \in Seq(Allowed(run.mode, Step)) /\ Step \in PlanSteps BY <1>1, Executing
      <4>2. Allowed(run.mode, Step) \subseteq Call BY <4>1, AllowedAreCalls, CallsAreCalls
      <4> QED BY <4>1, <4>2, SeqOfSubset
    <3>4. run' \in Executor BY <1>1, <1>2, <3>2, <3>3 DEF Executor, Call
    <3> QED BY <3>4, NoneAssumption
  <2>5. ASSUME run.mode = "rollback"
        PROVE  Undoable' /\ (run'.problems \/ Undoes(run.todo)') /\ rec'.cursor >= WindowFrom
    <3>1. Undoable /\ (run.problems \/ Undoes(run.todo)) /\ rec.cursor >= WindowFrom
      BY <1>1, <2>5 DEF Safe, Undoing
    <3>2. icSnaps' = icSnaps
      <4>1. c.op \notin {"delete", "snapshot", "snapshot_frontend"} BY <1>2, <2>5 DEF Allowed, RollbackCall
      <4> QED BY <1>1, <4>1 DEF Effect, SnapsAfter, SnapshotCall
    <3>3. Undoable' BY <2>2, <3>1, <3>2 DEF Undoable
    <3>4. ASSUME ~run.problems PROVE Undoes(run.todo)'
      <4>0. PICK s : s = run.todo OBVIOUS
      <4>1. s \in Seq(RollbackCall) /\ s # <<>> /\ Undoes(s) /\ ~Impossible(Head(s)) /\ Effect(Head(s))
        BY <1>1, <1>2, <2>5, <3>1, <3>4, <4>0 DEF Allowed, c
      <4>2. Undoes(Tail(s))' BY <3>1, <4>1, RollsOn
      <4>3. run'.todo = Tail(s) BY <1>3, <4>0
      <4>4. Undoes(run.todo)' <=> Undoes(Tail(s))' BY <4>3 DEF Undoes, Restarts
      <4> QED BY <4>2, <4>4
    <3> QED BY <1>1, <1>3, <3>1, <3>3, <3>4
  <2>6. ASSUME run.mode \in {"abandon", "discard"} PROVE AllOld'
    <3>1. AllOld BY <1>1, <2>6 DEF Safe, Undoing
    <3>2. running' = running
      <4>1. c.op \notin {"stop", "start"} BY <1>2, <2>6 DEF Allowed, CleanupCall
      <4> QED BY <1>1, <4>1 DEF Effect, RunningAfter
    <3> QED BY <2>2, <3>1, <3>2 DEF AllOld
  <2>7. Undoing' BY <1>3, <2>5, <2>6 DEF Undoing
  <2> QED BY <1>4, <2>3, <2>4, <2>7 DEF Safe, Noting
<1> QED BY <1>5, <1>6

\* A call of the rollback fails, but what is left still undoes the release.
LEMMA RestIsEnough ==
  ASSUME NEW s \in Seq(RollbackCall), s # <<>>, Undoes(s), NEW q \in Seq(RollbackCall), ToSet(Tail(s)) \subseteq ToSet(q),
         Restarts(Tail(s)) => Restarts(q),
         \/ Head(s).op \in {"delete_batch", "clear_chunks", "stop"}
         \/ Head(s).op = "try_load" /\ Of("load", Head(s).cid) \in ToSet(q)
  PROVE  Undoes(q)
<1> DEFINE c == Head(s)
           t == Tail(s)
<1>2. ToSet(s) \subseteq ToSet(t) \cup {c} /\ Restarts(t) BY TailRestarts DEF Undoes
<1> HIDE DEF c, t
<1>5. c.op \in {"delete_batch", "clear_chunks", "stop"} \/ (c.op = "try_load" /\ Of("load", c.cid) \in ToSet(q))
  BY DEF c
<1>6. ToSet(t) \subseteq ToSet(q) /\ Restarts(q) BY <1>2 DEF t
<1>7. ASSUME NEW m \in Member, ~IsOld(m) PROVE Of("load", m) \in ToSet(q) \/ Of("try_load", m) \in ToSet(q)
  <2>1. Of("load", m) \in ToSet(s) \/ Of("try_load", m) \in ToSet(s) BY <1>7 DEF Undoes
  <2>2. c # Of("load", m) /\ (c = Of("try_load", m) => Of("load", m) \in ToSet(q)) BY <1>5 DEF Of
  <2> QED BY <1>2, <1>6, <2>1, <2>2
<1>8. ASSUME NEW b \in Backs \ running PROVE Of("start", b) \in ToSet(q)
  <2>1. Of("start", b) \in ToSet(s) /\ c # Of("start", b) BY <1>5 DEF Undoes, Of
  <2> QED BY <1>2, <1>6, <2>1
<1> QED BY <1>6, <1>7, <1>8 DEF Undoes

\* A call fails: the release turns around, or the rollback has problems.
LEMMA CallFailsB == ASSUME Inv, Safe, CallFails, Inv' PROVE Safe'
<1> DEFINE c == Head(run.todo)
           rest == Tail(run.todo)
<1>1. /\ run # None /\ run.todo # <<>> /\ UNCHANGED <<rec, canisters>>
      /\ \/ c.op = "try_load" /\ run' = [run EXCEPT !.todo = StopLoadStart(c.cid) \o rest]
         \/ c.op # "try_load" /\ run.mode = "step" /\ run' \in Raises(c.op)
         \/ c.op # "try_load" /\ run.mode = "rollback" /\ run' = Troubled(c, rest)
         \/ run.mode \in {"abandon", "discard"} /\ run' = [run EXCEPT !.todo = rest]
  BY DEF CallFails
<1>2. /\ run \in Executor /\ run.mem \in Record /\ Open /\ Step \in PlanSteps
      /\ run.todo \in Seq(Allowed(run.mode, Step))
      /\ c \in Allowed(run.mode, Step) /\ rest \in Seq(Allowed(run.mode, Step))
      /\ run.mem.cursor = rec.cursor
  BY <1>1, Executing DEF Inv, CallsOK
<1> HIDE DEF c, rest
<1>3. run.problems \in BOOLEAN /\ run.mode \in {"step", "abandon", "rollback", "discard"}
  BY <1>2 DEF Executor
<1>4. applied' = applied /\ maint' = maint /\ running' = running /\ icSnaps' = icSnaps /\ rec' = rec
  BY <1>1 DEF canisters
<1>5. Outcomes' BY <1>2, <1>4 DEF Outcomes, Open
<1>6. CASE run.mode = "step" /\ c.op = "try_load"
  <2> DEFINE todo == StopLoadStart(c.cid) \o rest
  <2>1. run' = [run EXCEPT !.todo = todo] BY <1>1, <1>6
  <2>2. Step.op = "restore" /\ c.cid \in Member
    BY <1>2, <1>6 DEF Allowed, RestoreCall, PlanSteps, FrontOps, BackOps, AloneOps, Member
  <2>3. todo # <<>> /\ todo \in Seq(Call)
    <3>1. StopLoadStart(c.cid) \in Seq(Call)
      <4>1. StopLoadStart(c.cid) \in Seq(RollbackCall) BY <2>2, ThreeCalls DEF Restarting
      <4>2. RollbackCall \subseteq Call BY CallsAreCalls
      <4> QED BY <4>1, <4>2, SeqOfSubset
    <3>2. rest \in Seq(Call)
      <4>1. Allowed(run.mode, Step) \subseteq Call BY <1>2, AllowedAreCalls, CallsAreCalls
      <4> QED BY <1>2, <4>1, SeqOfSubset
    <3>3. todo \in Seq(Call) /\ ToSet(todo) = ToSet(StopLoadStart(c.cid)) \cup ToSet(rest) BY <3>1, <3>2, ToSetConcat
    <3>4. ToSet(todo) # {} BY <2>2, <3>3, ThreeCalls
    <3>5. ToSet(<<>>) = {} BY DEF ToSet
    <3> HIDE DEF todo
    <3> QED BY <3>3, <3>4, <3>5
  <2> HIDE DEF todo
  <2>4. run'.mode = "step" /\ run'.todo = todo /\ run'.mem = run.mem /\ run' \in Executor
    BY <1>2, <1>6, <2>1, <2>3 DEF Executor, Call
  <2>5. run' # None BY <2>4, NoneAssumption
  <2>6. Forward /\ StepsNoted /\ ChangesNoted BY <1>2, <1>6 DEF Forward, Safe, Noting
  <2>7. Copy' = Copy /\ Reached' = Reached BY <1>1, <1>4, <2>4, <2>5 DEF Copy, Reached, Step
  <2>8. StepsNoted'
    <3>1. \A i \in DOMAIN Plan : (Done(i)' => Done(i)) /\ (Begun(i)' => Begun(i))
      BY <1>1, <1>4, <2>3, <2>4 DEF Done, Begun
    <3> QED BY <1>1, <1>4, <2>6, <2>7, <3>1 DEF StepsNoted, IsNew
  <2>9. ChangesNoted' BY <1>4, <2>6, <2>7 DEF ChangesNoted
  <2>10. Undoing' BY <2>4 DEF Undoing
  <2> QED BY <1>5, <2>8, <2>9, <2>10 DEF Safe, Noting
<1>7. CASE run.mode = "step" /\ c.op # "try_load"
  <2>1. Forward /\ Copy = run.mem /\ Noting BY <1>1, <1>2, <1>7 DEF Forward, Copy, Safe
  <2>2. /\ Reached \in 1..14 /\ (rec.cursor < WindowFrom <=> Reached <= 4) /\ rec.cursor \in 1..Len(Plan)
        /\ run' \in Raises(c.op)
    BY <1>1, <1>2, <1>7, OpenOnPlan
  <2>3. CASE run.mem.cursor >= WindowFrom
    <3>1. run' = Doing("rollback", "ROLLED_BACK", Copy, RollbackCalls(Copy)) BY <2>1, <2>2, <2>3 DEF Raises
    <3>2. "ROLLED_BACK" \in Ends1("rollback") BY DEF Ends1
    <3> QED BY <1>1, <1>2, <2>1, <2>3, <3>1, <3>2, RollsBackB
  <2>4. CASE ~(run.mem.cursor >= WindowFrom)
    <3>1. AllOld BY <1>2, <2>1, <2>2, <2>4, OldBeforeWindow, WindowIs
    <3>2. PICK end \in {"FAILED_STAGING", "REJECTED_PREFLIGHT"}, todo \in {AbandonCalls(run.mem), <<>>} :
            run' = Doing("abandon", end, run.mem, todo)
      BY <2>2, <2>4 DEF Raises
    <3>3. todo \in Seq(Allowed("abandon", Step))
      <4>1. AbandonCalls(run.mem) \in Seq(Allowed("abandon", Step)) BY <1>2, CleanupCallsAre DEF Allowed
      <4>2. <<>> \in Seq(Allowed("abandon", Step)) OBVIOUS
      <4> QED BY <4>1, <4>2
    <3>4. run' \in Executor
      <4>1. end \in Terminal BY DEF Terminal
      <4> QED BY <1>2, <3>2, <3>3, <4>1, ExecutorIs
    <3>5. run' # None /\ run'.mode = "abandon" BY <3>2, <3>4, NoneAssumption DEF Doing
    <3> QED BY <1>1, <1>2, <3>1, <3>5, AbandonsB
  <2> QED BY <2>3, <2>4
<1>8. CASE run.mode \in {"abandon", "discard"}
  <2>1. run' = [run EXCEPT !.todo = rest]
    <3>1. c.op # "try_load" BY <1>2, <1>8 DEF Allowed, CleanupCall
    <3> QED BY <1>1, <1>8, <3>1
  <2>2. AllOld BY <1>1, <1>8 DEF Safe, Undoing
  <2>3. run'.mode = run.mode /\ run' # None
    <3>1. rest \in Seq(Call)
      <4>1. Allowed(run.mode, Step) \subseteq Call BY <1>2, AllowedAreCalls, CallsAreCalls
      <4> QED BY <1>2, <4>1, SeqOfSubset
    <3>2. run'.mode = run.mode /\ run' \in Executor BY <1>2, <2>1, <3>1 DEF Executor, Call
    <3> QED BY <3>2, NoneAssumption
  <2> QED BY <1>1, <1>2, <1>8, <2>2, <2>3, AbandonsB
<1>9. CASE run.mode = "rollback"
  <2>1. Undoable /\ (run.problems \/ Undoes(run.todo)) /\ rec.cursor >= WindowFrom BY <1>1, <1>9 DEF Safe, Undoing
  <2>2. Undoable' BY <1>4, <2>1 DEF Undoable, IsOld
  <2>3. c \in RollbackCall /\ rest \in Seq(RollbackCall) /\ run.todo \in Seq(RollbackCall) BY <1>2, <1>9 DEF Allowed
  <2>4. CASE c.op = "try_load"
    <3> DEFINE q == StopLoadStart(c.cid) \o rest
    <3>1. c.cid \in Member BY <2>3 DEF RollbackCall
    <3>2. /\ q \in Seq(RollbackCall) /\ ToSet(q) = ToSet(StopLoadStart(c.cid)) \cup ToSet(rest)
          /\ Of("load", c.cid) \in ToSet(q)
      <4>1. StopLoadStart(c.cid) \in Seq(RollbackCall) /\ Of("load", c.cid) \in ToSet(StopLoadStart(c.cid))
        BY <3>1, ThreeCalls DEF Restarting
      <4>2. q \in Seq(RollbackCall) /\ ToSet(q) = ToSet(StopLoadStart(c.cid)) \cup ToSet(rest)
        BY <2>3, <4>1, ToSetConcat
      <4> QED BY <4>1, <4>2
    <3>3. Restarts(rest) => Restarts(q)
      <4> SUFFICES ASSUME Restarts(rest) PROVE Restarts(q) OBVIOUS
      <4>1. rest \in Restarting /\ StopLoadStart(c.cid) \in Restarting BY <2>3, <3>1, ThreeCalls DEF Restarting
      <4>2. q \in Restarting BY <4>1, RestartsConcat
      <4> QED BY <4>2 DEF Restarting
    <3> HIDE DEF q
    <3>4. ASSUME ~run.problems PROVE Undoes(q)
      BY <1>1, <2>1, <2>3, <2>4, <3>2, <3>3, <3>4, RestIsEnough DEF c, rest
    <3>5. run' = [run EXCEPT !.todo = q] BY <1>1, <1>9, <2>4 DEF q
    <3>6. /\ run'.mode = "rollback" /\ run'.todo = q /\ run'.problems = run.problems /\ run' \in Executor
      <4>1. q \in Seq(Call)
        <5>1. RollbackCall \subseteq Call BY CallsAreCalls
        <5> QED BY <3>2, <5>1, SeqOfSubset
      <4> QED BY <1>2, <1>9, <3>5, <4>1 DEF Executor, Call
    <3>7. ~Forward' BY <3>6, NoneAssumption DEF Forward
    <3>8. ~run.problems => Undoes(run.todo)' BY <1>4, <3>4, <3>6 DEF Undoes, IsOld, Restarts
    <3>9. Undoing' BY <1>4, <2>1, <2>2, <3>6, <3>8 DEF Undoing
    <3> QED BY <1>5, <3>7, <3>9 DEF Safe, Noting
  <2>5. CASE c.op # "try_load"
    <3>1. run' = Troubled(c, rest) BY <1>1, <1>9, <2>5
    <3>2. CallsLeft(run', RollbackCall) BY <1>2, <2>3, <3>1, TroubledIs
    <3>3. PICK todo \in Seq(RollbackCall), problems \in BOOLEAN : run' = [run EXCEPT !.todo = todo, !.problems = problems]
      BY <3>2 DEF CallsLeft
    <3>4. /\ run'.mode = "rollback" /\ run'.todo = todo /\ run'.problems = problems /\ run' \in Executor
      <4>1. todo \in Seq(Call)
        <5>1. RollbackCall \subseteq Call BY CallsAreCalls
        <5> QED BY <5>1, SeqOfSubset
      <4> QED BY <1>2, <1>9, <3>3, <4>1 DEF Executor, Call
    <3>5. ASSUME ~problems PROVE Undoes(todo)
      <4>1. ~run.problems /\ todo = rest /\ c.op \in {"delete_batch", "clear_chunks", "stop"}
        BY <1>2, <3>1, <3>4, <3>5 DEF Troubled, Executor
      <4>2. Undoes(run.todo) BY <2>1, <4>1
      <4>3. ToSet(rest) \subseteq ToSet(rest) OBVIOUS
      <4> QED BY <1>1, <2>3, <4>1, <4>2, <4>3, RestIsEnough DEF c, rest
    <3>6. ~Forward' BY <3>4, NoneAssumption DEF Forward
    <3>7. ~problems => Undoes(run.todo)' BY <1>4, <3>4, <3>5 DEF Undoes, IsOld, Restarts
    <3>8. Undoing' BY <1>4, <2>1, <2>2, <3>4, <3>7 DEF Undoing
    <3> QED BY <1>5, <3>6, <3>8 DEF Safe, Noting
  <2> QED BY <2>4, <2>5
<1> QED BY <1>3, <1>6, <1>7, <1>8, <1>9

\* The release starts in the invariant,
LEMMA SafeInit == Init => Safe
<1> SUFFICES ASSUME Init PROVE Safe OBVIOUS
<1>1. \A i \in DOMAIN Plan : ~Done(i) /\ ~Begun(i)
  <2> SUFFICES ASSUME NEW i \in 1..Len(Plan) PROVE ~(i < 1) BY PlanIsSeq DEF Done, Begun, Init
  <2> QED BY PlanIsSeq
<1>2. StepsNoted BY <1>1 DEF StepsNoted, Init
<1>3. ChangesNoted BY DEF ChangesNoted, Init, Copy, Member
<1> QED BY <1>2, <1>3 DEF Init, Safe, Noting, Undoing, Outcomes

\* and every step keeps it when no executor dies.
LEMMA SafeNext == ASSUME MaxLosses = 0, Inv, Safe, [Next]_vars PROVE Inv' /\ Safe'
<1>1. Inv' BY NextInv
<1>2. CASE UNCHANGED vars
  <2>1. /\ rec' = rec /\ run' = run /\ applied' = applied /\ maint' = maint /\ running' = running /\ icSnaps' = icSnaps
    BY <1>2 DEF vars, canisters
  <2>2. Forward' = Forward /\ Copy' = Copy /\ Reached' = Reached BY <2>1 DEF Forward, Open, Copy, Reached, Step
  <2>3. \A m : (IsOld(m)' <=> IsOld(m)) /\ (IsNew(m)' <=> IsNew(m)) BY <2>1 DEF IsOld, IsNew
  <2>4. \A i : (Done(i)' <=> Done(i)) /\ (Begun(i)' <=> Begun(i)) BY <2>1 DEF Done, Begun
  <2>5. StepsNoted => StepsNoted' BY <2>1, <2>2, <2>3, <2>4 DEF StepsNoted
  <2>6. ChangesNoted => ChangesNoted' BY <2>1, <2>2 DEF ChangesNoted
  <2>7. (AllOld => AllOld') /\ (AllNew => AllNew') /\ (Undoable => Undoable')
    BY <2>1, <2>3 DEF AllOld, AllNew, Undoable
  <2>8. Undoes(run.todo) => Undoes(run.todo)' BY <2>1, <2>3 DEF Undoes, Restarts
  <2>9. Noting' /\ Outcomes' BY <2>1, <2>2, <2>5, <2>6, <2>7 DEF Safe, Noting, Outcomes
  <2>10. Undoing' BY <2>1, <2>7, <2>8 DEF Safe, Undoing
  <2> QED BY <1>1, <2>9, <2>10 DEF Safe
<1>3. ~LoseExecutor BY DEF LoseExecutor, Inv, TypeOK
<1> QED BY <1>1, <1>2, <1>3, BeginStepB, BakeB, CallSucceedsB, CallFailsB, EndStepB, DiscardB, EndReleaseB, AbortB DEF Next

\* As long as no executor dies, whatever an open release changed on a member, and whatever
\* one that wants attention left changed, can be undone from the member's snapshot.
THEOREM WhatIsChangedIsUndoable == MaxLosses = 0 => (Spec => []ChangesAreUndoable)
<1> SUFFICES ASSUME MaxLosses = 0 PROVE Spec => []ChangesAreUndoable OBVIOUS
<1>1. Inv /\ Safe => ChangesAreUndoable
  <2> SUFFICES ASSUME Inv, Safe, rec.outcome \in {"OPEN", "NEEDS_ATTENTION"} PROVE Undoable
    BY DEF ChangesAreUndoable, Undoable
  <2>1. CASE rec.outcome = "NEEDS_ATTENTION" BY <2>1 DEF Safe, Outcomes
  <2>2. CASE Forward BY <2>2, ForwardUndoable DEF Safe
  <2>3. CASE rec.outcome = "OPEN" /\ ~Forward
    <3>1. run # None /\ run.mode \in {"abandon", "discard", "rollback"}
      <4>1. run # None /\ run.mode # "step" BY <2>3 DEF Forward, Open
      <4> QED BY <4>1, Executing DEF Executor
    <3> QED BY <3>1 DEF Safe, Undoing, AllOld, Undoable
  <2> QED BY <2>1, <2>2, <2>3
<1>2. Init => Inv /\ Safe BY InitInv, SafeInit
<1>3. Inv /\ Safe /\ [Next]_vars => (Inv /\ Safe)' BY SafeNext
<1> QED BY <1>1, <1>2, <1>3, PTL DEF Spec

\* As long as no executor dies, no frontend shows new content before every backend runs
\* its new code.
THEOREM NewFrontsWait == MaxLosses = 0 => (Spec => []NewFrontOnNewBacks)
<1> SUFFICES ASSUME MaxLosses = 0 PROVE Spec => []NewFrontOnNewBacks OBVIOUS
<1>1. Inv /\ Safe => NewFrontOnNewBacks
  <2> SUFFICES ASSUME Inv, Safe, run # None, run.mode = "step", NEW f \in Fronts, applied[f] # {}, NEW b \in Backs
               PROVE  IsNew(b) /\ b \in running
    BY DEF NewFrontOnNewBacks
  <2>1. Open /\ Reached \in 1..14 BY Executing
  <2>2. Reached >= 11 BY <2>1 DEF Inv, UntouchedOld
  <2>3. DOMAIN Plan = 1..Len(Plan) BY PlanIsSeq
  <2>4. PICK i \in 1..Len(Plan) : Plan[i] = Of("verify_backend", b) BY <2>3, PlanOrder DEF ToSet
  <2>5. Rank(Plan[i].op) < Reached BY <2>1, <2>2, <2>4, Ranks DEF Of
  <2>6. i < rec.cursor BY <2>1, <2>5, OpenOnPlan
  <2>7. StepsNoted BY <2>1 DEF Safe, Noting, Forward
  <2> QED BY <2>3, <2>4, <2>6, <2>7 DEF StepsNoted, Done, Verify, Of
<1>2. Init => Inv /\ Safe BY InitInv, SafeInit
<1>3. Inv /\ Safe /\ [Next]_vars => (Inv /\ Safe)' BY SafeNext
<1> QED BY <1>1, <1>2, <1>3, PTL DEF Spec
-----------------------------------------------------------------------------
(* The release implements the atomic one *)

\* The stand,
StandNow == IF AllOld THEN "old" ELSE IF AllNew THEN "new" ELSE "between"

\* the window
WindowNow == rec.cursor >= WindowFrom

\* and the outcome the atomic release sees.
OutcomeNow ==
  CASE rec.outcome = "OPEN" -> "open"
    [] rec.outcome = "COMPLETE" -> "moved"
    [] rec.outcome = "NEEDS_ATTENTION" -> "attention"
    [] OTHER -> "kept"

\* The old stand is not the new one: a release carries something.
LEMMA OldIsNotNew == ~(AllOld /\ AllNew)
<1>1. PICK m \in Member : m \in NewWasm \cup NewBundle BY MembersAssumption DEF Member
<1>2. Parts(m) # {} BY <1>1 DEF Parts
<1> QED BY <1>2 DEF AllOld, AllNew, IsOld, IsNew

\* The stand is what its members carry, show and run.
LEMMA StandStays ==
  ASSUME UNCHANGED <<applied, maint, running>>
  PROVE  StandNow' = StandNow /\ (AllOld' <=> AllOld) /\ (AllNew' <=> AllNew)
<1>1. \A m : (IsOld(m)' <=> IsOld(m)) /\ (IsNew(m)' <=> IsNew(m)) BY DEF IsOld, IsNew
<1>2. (AllOld' <=> AllOld) /\ (AllNew' <=> AllNew) BY <1>1 DEF AllOld, AllNew
<1> QED BY <1>2 DEF StandNow

\* A stutter, the window that opens, a change in the window, an end.
AtomicStep ==
  \/ StandNow' = StandNow /\ WindowNow' = WindowNow /\ OutcomeNow' = OutcomeNow
  \/ StandNow' = StandNow /\ ~WindowNow /\ WindowNow' /\ OutcomeNow = "open" /\ OutcomeNow' = "open"
  \/ WindowNow /\ WindowNow' /\ OutcomeNow = "open" /\ OutcomeNow' = "open"
  \/ /\ StandNow' = StandNow /\ WindowNow' = WindowNow /\ OutcomeNow = "open"
     /\ \/ StandNow = "new" /\ OutcomeNow' = "moved"
        \/ StandNow = "old" /\ OutcomeNow' = "kept"
        \/ WindowNow /\ OutcomeNow' = "attention"

\* These are the atomic release's steps,
LEMMA AtomicSteps == AtomicStep => [Atomic!Next]_(Atomic!vars)
<1>1. WindowNow \in BOOLEAN /\ WindowNow' \in BOOLEAN BY DEF WindowNow
<1>2. StandNow' \in {"old", "new", "between"} BY DEF StandNow
<1> QED BY <1>1, <1>2 DEF AtomicStep, Atomic!Next, Atomic!vars, Atomic!OpenWindow, Atomic!Work, Atomic!End,
                          StandNow, WindowNow, OutcomeNow

\* and every step of the release is one of them.
LEMMA AtomicNext == ASSUME MaxLosses = 0, Inv, Safe, Inv', Safe', [Next]_vars PROVE AtomicStep
<1>1. CASE UNCHANGED <<rec, applied, maint, running>>
  BY <1>1, StandStays DEF AtomicStep, WindowNow, OutcomeNow
<1>2. CASE BeginStep \/ CallFails \/ DiscardSnapshots \/ AbortAction \/ UNCHANGED vars
  BY <1>1, <1>2 DEF BeginStep, CallFails, DiscardSnapshots, AbortAction, vars, canisters
<1>3. CASE Bake
  <2>1. UNCHANGED <<applied, maint, running>> /\ Open /\ Step.op = "bake" BY <1>3 DEF Bake, canisters, Free, Open, Step
  <2>2. PICK over \in BOOLEAN : rec' = [rec EXCEPT !.windowEnded = TRUE, !.cursor = IF over THEN @ + 1 ELSE @]
    BY <1>3 DEF Bake
  <2>3. rec'.outcome = rec.outcome /\ rec'.cursor \in {rec.cursor, rec.cursor + 1}
    BY <2>2 DEF Inv, TypeOK, Record
  <2>4. Reached = 13 /\ rec.cursor \in 1..Len(Plan) /\ rec.cursor >= WindowFrom
    <3>1. Reached = 13 BY <2>1, Ranks DEF Reached
    <3> QED BY <2>1, <3>1, OpenOnPlan, PlanIsSeq, WindowIs
  <2>5. rec'.cursor >= WindowFrom BY <2>3, <2>4, WindowIs
  <2> QED BY <2>1, <2>3, <2>4, <2>5, StandStays DEF AtomicStep, WindowNow, OutcomeNow
<1>4. CASE EndStep
  <2>1. /\ UNCHANGED <<applied, maint, running>> /\ run # None
        /\ rec' = [run.mem EXCEPT !.cursor = @ + 1, !.outcome = IF run.mem.cursor = Len(Plan) THEN "COMPLETE" ELSE @]
    BY <1>4 DEF EndStep, canisters
  <2>2. /\ run.mem \in Record /\ rec.cursor \in 1..Len(Plan) /\ Open
        /\ run.mem.cursor = rec.cursor /\ run.mem.outcome = "OPEN"
    BY <2>1, Executing DEF Inv, CallsOK
  <2>3. rec'.cursor = rec.cursor + 1 /\ rec'.outcome = IF rec.cursor = Len(Plan) THEN "COMPLETE" ELSE "OPEN"
    BY <2>1, <2>2 DEF Record
  <2>4. WindowNow => WindowNow' BY <2>2, <2>3, WindowIs DEF WindowNow
  <2>5. OutcomeNow = "open" BY <2>2 DEF OutcomeNow, Open
  <2>6. CASE rec.cursor # Len(Plan)
    <3>1. OutcomeNow' = "open" BY <2>3, <2>6 DEF OutcomeNow
    <3>2. StandNow' = StandNow BY <2>1, StandStays
    <3> QED BY <2>4, <2>5, <3>1, <3>2 DEF AtomicStep, WindowNow
  <2>7. CASE rec.cursor = Len(Plan)
    <3>1. OutcomeNow' = "moved" /\ rec'.outcome = "COMPLETE" BY <2>3, <2>7 DEF OutcomeNow
    <3>2. AllNew' BY <3>1 DEF Safe, Outcomes
    <3>3. StandNow' = StandNow /\ StandNow = "new" BY <2>1, <3>2, StandStays, OldIsNotNew DEF StandNow
    <3>4. WindowNow BY <2>2, <2>7, WindowIs, PlanIsSeq DEF WindowNow
    <3> QED BY <2>4, <2>5, <3>1, <3>3, <3>4 DEF AtomicStep, WindowNow
  <2> QED BY <2>6, <2>7
<1>5. CASE EndRelease
  <2>1. /\ UNCHANGED <<applied, maint, running>> /\ run # None /\ run.mode # "step"
        /\ rec' = [run.mem EXCEPT !.outcome = IF run.problems THEN "NEEDS_ATTENTION" ELSE run.end]
    BY <1>5 DEF EndRelease, canisters
  <2>2. /\ run.mem \in Record /\ Open /\ run.mem.cursor = rec.cursor /\ run.end \in Ends1(run.mode) /\ run \in Executor
    BY <2>1, Executing DEF Inv, CallsOK
  <2>3. rec'.cursor = rec.cursor /\ rec'.outcome = IF run.problems THEN "NEEDS_ATTENTION" ELSE run.end
    BY <2>1, <2>2 DEF Record
  <2>4. WindowNow' = WindowNow /\ StandNow' = StandNow /\ OutcomeNow = "open"
    BY <2>1, <2>2, <2>3, StandStays DEF WindowNow, OutcomeNow, Open
  <2>5. CASE run.problems
    <3>1. rec'.outcome = "NEEDS_ATTENTION" BY <2>3, <2>5
    <3>2. rec'.cursor >= WindowFrom BY <3>1 DEF Safe, Outcomes
    <3> QED BY <2>3, <2>4, <3>1, <3>2 DEF AtomicStep, WindowNow, OutcomeNow
  <2>6. CASE ~run.problems
    <3>1. rec'.outcome \in {"REJECTED_PREFLIGHT", "FAILED_STAGING", "ABORTED", "ROLLED_BACK"}
      BY <2>1, <2>2, <2>3, <2>6 DEF Ends1
    <3>2. AllOld' BY <3>1 DEF Safe, Outcomes
    <3>3. StandNow = "old" BY <2>1, <3>2, StandStays DEF StandNow
    <3>4. OutcomeNow' = "kept" BY <3>1 DEF OutcomeNow
    <3> QED BY <2>4, <3>3, <3>4 DEF AtomicStep
  <2> QED BY <2>5, <2>6
<1>6. CASE CallSucceeds
  <2> DEFINE c == Head(run.todo)
  <2>1. /\ run # None /\ run.todo # <<>> /\ Effect(c) /\ rec' = rec
    BY <1>6 DEF CallSucceeds
  <2>2. /\ run \in Executor /\ Open /\ c \in Allowed(run.mode, Step) /\ Step \in PlanSteps
        /\ (run.mode = "step" /\ Step.op # "restore" => c = Step)
    BY <2>1, Executing
  <2> HIDE DEF c
  <2>3. OutcomeNow = "open" /\ OutcomeNow' = "open" /\ WindowNow' = WindowNow
    BY <2>1, <2>2 DEF OutcomeNow, WindowNow, Open
  <2>4. CASE WindowNow BY <2>3, <2>4 DEF AtomicStep
  <2>5. CASE ~WindowNow
    <3>1. rec.cursor < WindowFrom /\ Reached <= 4 /\ Reached \in 1..14
      BY <2>2, <2>5, OpenOnPlan, WindowIs, PlanIsSeq DEF WindowNow
    <3>2. run.mode # "rollback" BY <2>1, <2>5 DEF Safe, Undoing, WindowNow
    <3>3. c.op \notin {"maintenance_on", "install", "install_frontend", "commit_bundle", "try_load", "load", "stop", "start"}
      <4>1. CASE run.mode = "step"
        <5>1. Step.op # "restore" /\ c = Step BY <2>2, <3>1, <4>1, Ranks DEF Reached
        <5>2. c.op \notin {"try_load", "load"} BY <2>2, <5>1 DEF PlanSteps, FrontOps, BackOps, AloneOps
        <5> QED BY <3>1, <5>1, <5>2, Ranks DEF Reached
      <4>2. CASE run.mode # "step" BY <2>2, <3>2, <4>2 DEF Allowed, CleanupCall
      <4> QED BY <4>1, <4>2
    <3>4. UNCHANGED <<applied, maint, running>>
      BY <2>1, <3>3 DEF Effect, AppliedAfter, MaintAfter, RunningAfter, InstallCall, LoadCall
    <3> QED BY <1>1, <2>1, <3>4
  <2> QED BY <2>4, <2>5
<1>7. ~LoseExecutor BY DEF LoseExecutor, Inv, TypeOK
<1> QED BY <1>2, <1>3, <1>4, <1>5, <1>6, <1>7 DEF Next

\* The release starts as the atomic one does.
LEMMA AtomicInit == Init => Atomic!Init
<1> SUFFICES ASSUME Init PROVE Atomic!Init OBVIOUS
<1>1. AllOld BY DEF Init, AllOld, IsOld, Member
<1>2. ~WindowNow
  <2>1. 1 \in 1..Len(Plan) /\ Rank(Plan[1].op) <= 4 BY PlanIsSeq, PlanOrder, Ranks
  <2>2. 1 < WindowFrom BY <2>1, WindowIs
  <2> QED BY <2>2, WindowIs DEF Init, WindowNow
<1> QED BY <1>1, <1>2 DEF Init, Atomic!Init, WindowNow

\* As long as no executor dies the release implements the atomic one: the stand is left
\* alone until the window opens, and it ends moved as a whole, as it was, or in need of
\* attention.
THEOREM ReleaseIsAtomic == MaxLosses = 0 => (Spec => ImplementsAtomicRelease)
<1> SUFFICES ASSUME MaxLosses = 0 PROVE Spec => ImplementsAtomicRelease OBVIOUS
<1>1. Init => Inv /\ Safe BY InitInv, SafeInit
<1>2. Inv /\ Safe /\ [Next]_vars => (Inv /\ Safe)' BY SafeNext
<1>3. Inv /\ Safe /\ (Inv /\ Safe)' /\ [Next]_vars => [Atomic!Next]_(Atomic!vars)
  BY AtomicNext, AtomicSteps
<1> QED BY <1>1, <1>2, <1>3, AtomicInit, PTL DEF Spec, ImplementsAtomicRelease, Atomic!Spec

\* A COMPLETE release has moved the whole stand, one that ended otherwise without asking
\* for attention has left it as it was, as long as no executor dies.
THEOREM OutcomesAreTrue == MaxLosses = 0 => (Spec => [](CompleteIsNew /\ EndedIsOld))
<1> SUFFICES ASSUME MaxLosses = 0 PROVE Spec => [](CompleteIsNew /\ EndedIsOld) OBVIOUS
<1>1. Inv /\ Safe => CompleteIsNew /\ EndedIsOld BY DEF Safe, Outcomes, CompleteIsNew, EndedIsOld
<1>2. Init => Inv /\ Safe BY InitInv, SafeInit
<1>3. Inv /\ Safe /\ [Next]_vars => (Inv /\ Safe)' BY SafeNext
<1> QED BY <1>1, <1>2, <1>3, PTL DEF Spec
=============================================================================
