---------------------------- MODULE StandProofs -----------------------------
(***************************************************************************)
(* Proofs about what the conductor does to its stands: that it builds them *)
(* (StandBuilds), and that it takes what was built to another module, and  *)
(* back (CanisterUpgrades).                                                *)
(*                                                                         *)
(* Of builds: rounds do not overlap, no stand is left pending with nobody  *)
(* to build it, and one that shows as built is whole.                      *)
(*                                                                         *)
(* The invariant of the rounds (RoundsInv) stands by itself.  That of the  *)
(* builds (IInv) adds what a round is for and where it waits (RoundFits),  *)
(* that there is an `up` only once somebody called it (UpIsCalled), and    *)
(* that what is unbuilt while the last part of `up` waits is in the queue  *)
(* (ShareWaits): that is the one round that ends `up`.                     *)
(*                                                                         *)
(* A step of a round is first shown to be one of six moves (AdvanceMoves), *)
(* a move to wait or to return (MoveKinds), and then a return, like every  *)
(* update call and timer, to be a kick (KickCovers).                       *)
(*                                                                         *)
(* What is built (WholeInv): that the status of a row is so on the IC, how *)
(* far the place where the running round waits says that its stand is, and *)
(* that a round began by giving every member a row.                        *)
(*                                                                         *)
(* Of upgrades, snapshots and restores (GovernedInv): what a request can   *)
(* still go back to, and how far each canister, with its row, is along the *)
(* operation about it.                                                     *)
(***************************************************************************)
EXTENDS StandBuilds, CanisterUpgrades, DataLemmas

-----------------------------------------------------------------------------
(* Rounds *)

\* The rounds r are rounds, and one that is alive or counts as running is for a job.
RoundsOK(r) == r \in [Slots -> Round] /\ \A s \in Slots : r[s].alive \/ r[s].running => r[s].job \in Jobs

\* One round counts as running; a live one that does not was overdue.
Orderly(r) ==
  /\ \A s, t \in Slots : r[s].running /\ r[t].running => s = t
  /\ \A s \in Slots : r[s].alive /\ ~r[s].running => r[s].overdue

\* There is a free slot, or one that the running round's end makes free.
HasRoom(r) ==
  \E s \in Slots : \/ ~r[s].alive /\ ~r[s].running
                   \/ r[s].running /\ (~r[s].overdue \/ ~r[s].alive)

\* A queue names each job once (`if job not in queue`).
QueueOK(q) == q \in Seq(Jobs) /\ IsInjective(q)

\* The inductive invariant of the queue and its rounds (src/rounds.py).
RoundsInv ==
  /\ QueueOK(queue) /\ armed \in {"no", "set", "stale"} /\ ticks \in Nat
  /\ RoundsOK(round) /\ Orderly(round) /\ HasRoom(round)
  /\ faults \in 0..MaxFaults

\* It says what the type invariant of the rounds says ...
LEMMA RoundsTypes == RoundsInv => RoundsTypeOK
BY DEF RoundsInv, RoundsTypeOK, QueueOK, RoundsOK, Vacant

\* ... and that rounds do not overlap.
LEMMA RoundsAreOne == RoundsInv => OneRoundAtATime
BY DEF RoundsInv, Orderly, OneRoundAtATime, Running, Alive

\* schedule queues a job once and forgets none.
LEMMA QueuedOK ==
  ASSUME NEW q, QueueOK(q), NEW j \in Jobs
  PROVE  /\ QueueOK(Queued(q, j))
         /\ \E i \in DOMAIN Queued(q, j) : Queued(q, j)[i] = j
         /\ \A i \in DOMAIN q : \E k \in DOMAIN Queued(q, j) : Queued(q, j)[k] = q[i]
<1> USE DEF QueueOK
<1>1. CASE \E i \in DOMAIN q : q[i] = j BY <1>1 DEF Queued
<1>2. CASE ~\E i \in DOMAIN q : q[i] = j
  <2>1. Queued(q, j) = Append(q, j) BY <1>2 DEF Queued
  <2>2. /\ Append(q, j) \in Seq(Jobs) /\ DOMAIN Append(q, j) = 1..(Len(q) + 1) /\ DOMAIN q = 1..Len(q) /\ Len(q) \in Nat
        /\ \A i \in DOMAIN q : Append(q, j)[i] = q[i]
        /\ Append(q, j)[Len(q) + 1] = j
    OBVIOUS
  <2>3. IsInjective(Append(q, j))
    <3> SUFFICES ASSUME NEW a \in DOMAIN Append(q, j), NEW b \in DOMAIN Append(q, j), Append(q, j)[a] = Append(q, j)[b]
                 PROVE  a = b
      BY DEF IsInjective
    <3>1. a \in 1..Len(q) \/ a = Len(q) + 1 BY <2>2
    <3>2. b \in 1..Len(q) \/ b = Len(q) + 1 BY <2>2
    <3> QED BY <1>2, <2>2, <3>1, <3>2 DEF IsInjective
  <2>4. Len(q) + 1 \in DOMAIN Append(q, j) /\ \A i \in DOMAIN q : i \in DOMAIN Append(q, j) BY <2>2
  <2> QED BY <2>1, <2>2, <2>3, <2>4
<1> QED BY <1>1, <1>2

\* tick takes the head off the queue and forgets no other job.
LEMMA TailOK ==
  ASSUME NEW q, QueueOK(q), q # <<>>
  PROVE  /\ QueueOK(Tail(q)) /\ Head(q) \in Jobs
         /\ \A i \in DOMAIN q : q[i] = Head(q) \/ \E k \in DOMAIN Tail(q) : Tail(q)[k] = q[i]
<1> USE DEF QueueOK
<1>1. /\ Tail(q) \in Seq(Jobs) /\ Head(q) \in Jobs /\ Head(q) = q[1]
      /\ Len(q) \in Nat /\ Len(q) > 0 /\ DOMAIN q = 1..Len(q) /\ DOMAIN Tail(q) = 1..(Len(q) - 1)
      /\ \A i \in 1..(Len(q) - 1) : Tail(q)[i] = q[i + 1]
  OBVIOUS
<1>2. IsInjective(Tail(q))
  <2> SUFFICES ASSUME NEW a \in DOMAIN Tail(q), NEW b \in DOMAIN Tail(q), Tail(q)[a] = Tail(q)[b]
               PROVE  a = b
    BY DEF IsInjective
  <2>1. a \in Nat /\ b \in Nat /\ a + 1 \in DOMAIN q /\ b + 1 \in DOMAIN q /\ q[a + 1] = q[b + 1] BY <1>1
  <2>2. a + 1 = b + 1 BY <2>1 DEF IsInjective
  <2> QED BY <2>1, <2>2
<1>3. ASSUME NEW i \in DOMAIN q, i # 1 PROVE \E k \in DOMAIN Tail(q) : Tail(q)[k] = q[i]
  <2>1. i - 1 \in 1..(Len(q) - 1) /\ (i - 1) + 1 = i BY <1>1, <1>3
  <2> QED BY <1>1, <2>1
<1> QED BY <1>1, <1>2, <1>3

\* What a kick makes of the rounds r.
LEMMA KickRounds ==
  ASSUME NEW q, NEW a, NEW t, NEW r, RoundsOK(r), Kick(q, a, t, r)
  PROVE  /\ round' \in [Slots -> Round]
         /\ \A s \in Slots :
              /\ round'[s].job = r[s].job /\ round'[s].alive = r[s].alive /\ round'[s].overdue = r[s].overdue
              /\ round'[s].running <=> r[s].running /\ ~r[s].overdue
BY DEF Kick, RoundsOK, Round

\* kick keeps the invariant, whatever orderly rounds it starts from.
LEMMA KickOK ==
  ASSUME NEW q, QueueOK(q), NEW a \in {"no", "set", "stale"}, NEW t \in Nat,
         NEW r, RoundsOK(r), Orderly(r), HasRoom(r), faults' \in 0..MaxFaults, Kick(q, a, t, r)
  PROVE  RoundsInv'
<1>1. /\ round' \in [Slots -> Round]
      /\ \A s \in Slots :
           /\ round'[s].job = r[s].job /\ round'[s].alive = r[s].alive /\ round'[s].overdue = r[s].overdue
           /\ round'[s].running <=> r[s].running /\ ~r[s].overdue
  BY KickRounds
<1>2. queue' = q /\ armed' \in {"no", "set", "stale"} /\ ticks' \in Nat BY DEF Kick
<1>3. RoundsOK(round') BY <1>1 DEF RoundsOK
<1>4. Orderly(round') BY <1>1 DEF Orderly
<1>5. HasRoom(round')
  <2>1. PICK s \in Slots : \/ ~r[s].alive /\ ~r[s].running
                           \/ r[s].running /\ (~r[s].overdue \/ ~r[s].alive)
    BY DEF HasRoom
  <2>2. r[s].alive \in BOOLEAN /\ r[s].running \in BOOLEAN /\ r[s].overdue \in BOOLEAN BY DEF RoundsOK, Round
  <2> QED BY <1>1, <2>1, <2>2 DEF HasRoom
<1> QED BY <1>2, <1>3, <1>4, <1>5 DEF RoundsInv

\* So does a round that removes its own token,
LEMMA ForgetOK ==
  ASSUME RoundsInv, NEW s \in Slots, round[s].alive
  PROVE  RoundsOK(Forget(s)) /\ Orderly(Forget(s)) /\ HasRoom(Forget(s))
<1>1. NoRound \in Round /\ ~NoRound.alive /\ ~NoRound.running BY DEF NoRound, Round
<1>2. Forget(s) \in [Slots -> Round] /\ Forget(s)[s] = NoRound /\ \A t \in Slots : t # s => Forget(s)[t] = round[t]
  BY <1>1 DEF Forget, RoundsInv, RoundsOK
<1> QED BY <1>1, <1>2 DEF RoundsInv, RoundsOK, Orderly, HasRoom

\* the end of a round, which kicks,
LEMMA RoundEndsOK ==
  ASSUME RoundsInv, NEW s \in Slots, NEW finished, RoundEnds(s, finished), faults' \in 0..MaxFaults
  PROVE  RoundsInv'
<1>1. round[s].alive /\ round[s].job \in Jobs BY DEF RoundsInv, RoundsOK, RoundEnds
<1>2. QueueOK(IF finished THEN queue ELSE Queued(queue, round[s].job))
  BY <1>1, QueuedOK DEF RoundsInv
<1> QED BY <1>1, <1>2, ForgetOK, KickOK DEF RoundEnds, RoundsInv

\* a round that traps or is never answered,
LEMMA RoundTrapsOK ==
  ASSUME RoundsInv, NEW s \in Slots, RoundTraps(s), faults' \in 0..MaxFaults
  PROVE  RoundsInv'
<1>1. /\ round' \in [Slots -> Round]
      /\ \A t \in Slots : /\ round'[t].job = round[t].job /\ round'[t].running = round[t].running
                          /\ round'[t].overdue = round[t].overdue
                          /\ round'[t].alive <=> round[t].alive /\ t # s
  BY DEF RoundTraps, RoundsInv, RoundsOK, Round
<1>2. RoundsOK(round') /\ Orderly(round') BY <1>1 DEF RoundsInv, RoundsOK, Orderly
<1>3. HasRoom(round')
  <2>1. round[s].running \in BOOLEAN BY DEF RoundsInv, RoundsOK, Round
  <2>2. CASE round[s].running BY <1>1, <2>2 DEF HasRoom
  <2>3. CASE ~round[s].running BY <1>1, <2>3 DEF HasRoom
  <2> QED BY <2>1, <2>2, <2>3
<1> QED BY <1>2, <1>3 DEF RoundsInv, RoundTraps

\* an update call, whether or not it makes work,
LEMMA CallOK ==
  ASSUME RoundsInv, NEW j, j \in Jobs \/ j = None, Call(j)
  PROVE  RoundsInv'
<1>1. QueueOK(IF j = None THEN queue ELSE Queued(queue, j)) BY QueuedOK DEF RoundsInv
<1> QED BY <1>1, KickOK DEF Call, RoundsInv

\* A round is started only when there is room for one.
LEMMA RoomForOne ==
  ASSUME RoundsInv, Running = {}
  PROVE  (CHOOSE s \in Slots : Vacant(s)) \in Slots /\ Vacant(CHOOSE s \in Slots : Vacant(s))
BY DEF RoundsInv, HasRoom, Running, Vacant

\* a timer that starts a round in a vacant slot,
LEMMA TickOK ==
  ASSUME RoundsInv, NEW s \in Slots, Tick(s)
  PROVE  RoundsInv'
<1> DEFINE new == [job |-> Head(queue), alive |-> TRUE, running |-> TRUE, overdue |-> FALSE, watched |-> TRUE]
<1>1. queue # <<>> /\ \A t \in Slots : ~round[t].running BY DEF Tick, MayStart, Running
<1>2. QueueOK(Tail(queue)) /\ Head(queue) \in Jobs BY <1>1, TailOK DEF RoundsInv
<1>3. new \in Round /\ new.alive /\ new.running /\ ~new.overdue /\ new.job \in Jobs BY <1>2 DEF Round
<1>4. round' = [round EXCEPT ![s] = new] BY DEF Tick
<1> HIDE DEF new
<1>5. round' \in [Slots -> Round] /\ round'[s] = new /\ \A t \in Slots : t # s => round'[t] = round[t]
  BY <1>3, <1>4 DEF RoundsInv, RoundsOK
<1>6. RoundsOK(round') /\ Orderly(round') /\ HasRoom(round')
  BY <1>1, <1>3, <1>5 DEF RoundsInv, RoundsOK, Orderly, HasRoom
<1> QED BY <1>2, <1>6 DEF RoundsInv, Tick

\* a round that outlasts its watchdog,
LEMMA OutlastOK ==
  ASSUME RoundsInv, NEW s \in Slots, OutlastWatchdog(s)
  PROVE  RoundsInv'
<1>1. /\ round' \in [Slots -> Round]
      /\ \A t \in Slots : /\ round'[t].job = round[t].job /\ round'[t].running = round[t].running
                          /\ round'[t].alive = round[t].alive
                          /\ round'[t].overdue <=> round[t].overdue \/ t = s
  BY DEF OutlastWatchdog, RoundsInv, RoundsOK, Round
<1>2. RoundsOK(round') /\ Orderly(round') BY <1>1 DEF RoundsInv, RoundsOK, Orderly
<1>3. HasRoom(round')
  <2>1. CASE round[s].alive /\ \E t \in Slots : Vacant(t) BY <1>1, <2>1 DEF HasRoom, Vacant
  <2>2. CASE ~round[s].alive BY <1>1, <2>2 DEF HasRoom, OutlastWatchdog
  <2> QED BY <2>1, <2>2 DEF OutlastWatchdog
<1>4. faults' \in 0..MaxFaults BY FaultsAssumption DEF OutlastWatchdog, Fault, RoundsInv
<1> QED BY <1>2, <1>3, <1>4 DEF RoundsInv, OutlastWatchdog

\* one whose watchdog is dropped,
LEMMA DropWatchdogOK ==
  ASSUME RoundsInv, NEW s \in Slots, DropWatchdog(s)
  PROVE  RoundsInv'
<1>1. /\ round' \in [Slots -> Round]
      /\ \A t \in Slots : /\ round'[t].job = round[t].job /\ round'[t].running = round[t].running
                          /\ round'[t].alive = round[t].alive /\ round'[t].overdue = round[t].overdue
  BY DEF DropWatchdog, RoundsInv, RoundsOK, Round
<1>2. RoundsOK(round') /\ Orderly(round') /\ HasRoom(round') BY <1>1 DEF RoundsInv, RoundsOK, Orderly, HasRoom
<1>3. faults' \in 0..MaxFaults BY FaultsAssumption DEF DropWatchdog, Fault, RoundsInv
<1> QED BY <1>2, <1>3 DEF RoundsInv, DropWatchdog

\* and an empty main memory.
LEMMA NoRoundsOK ==
  LET none == [s \in Slots |-> NoRound] IN RoundsOK(none) /\ Orderly(none) /\ HasRoom(none)
BY SlotsAssumption DEF RoundsOK, Orderly, HasRoom, NoRound, Round
-----------------------------------------------------------------------------
(* What a round does next *)

\* The types of the rows and of where the rounds wait. A stand was renamed no more
\* often than there were changes, and what it was asked for are canisters of its own.
RowsInv ==
  /\ stand \in [Stands -> Stand] /\ canister \in [Canisters -> Canister]
  /\ filled \cup handed \subseteq Canisters \X Nat /\ made \in [Canisters -> Nat] /\ files \in [Canisters -> Nat]
  /\ up \in {"new", "called", "built"} /\ cursor \in BOOLEAN
  /\ build \in [Slots -> Position] /\ grown \cup haunted \cup astray \subseteq Stands /\ left \subseteq Canisters
  /\ retries \in 0..MaxRetries /\ changes \in 0..MaxChanges
  /\ \A s \in Stands : stand[s].name <= changes /\ \A c \in stand[s].members : StandOf[c] = s
  /\ \A r \in Slots : build[r].at \notin {"commit", "share"} => build[r].s \in Stands /\ build[r].c \in Canisters

\* The two invariants give the type invariant of the builds.
LEMMA TypesHold == RoundsInv /\ RowsInv => TypeOK
BY RoundsTypes DEF RowsInv, TypeOK

\* The first canister of some is one of them,
LEMMA MinCanister == ASSUME NEW S, S \subseteq Canisters, S # {} PROVE Min(S) \in S
BY MinOfNaturals, RowsAssumption

\* and the first stand of some.
LEMMA MinStand == ASSUME NEW S, S \subseteq Stands, S # {} PROVE Min(S) \in S
BY MinOfNaturals, RowsAssumption

\* What stand_create schedules is a job, and not the sheet's.
LEMMA StandJobs == ASSUME RowsInv, NEW s \in Stands PROVE StandJob(s) \in Jobs /\ StandJob(s) # UpJob
<1>1. stand[s].name \in 0..MaxChanges BY DEF RowsInv, Stand
<1> QED BY <1>1, JobsAssumption DEF StandJob, UpJob

\* `fail` marks stands; for a stand's job, the one of that id.
LEMMA BlamedAreStands ==
  ASSUME NEW rows, NEW j
  PROVE  /\ Blamed(rows, j) \subseteq Stands
         /\ j = UpJob => \A s \in Blamed(rows, j) : rows[s].state = "pending"
         /\ j # UpJob => \A s \in Blamed(rows, j) : rows[s].state # "absent" /\ j = <<"stand", s, rows[s].name>>
<1>1. CASE j = UpJob
  <2> DEFINE pending == {s \in Stands : rows[s].state = "pending"}
  <2>1. pending # {} => Min(pending) \in pending BY MinStand
  <2> QED BY <1>1, <2>1 DEF Blamed
<1>2. CASE j # UpJob BY <1>2 DEF Blamed
<1> QED BY <1>1, <1>2

\* Failing changes a stand's state to failed and nothing else.
LEMMA FailOK ==
  ASSUME NEW rows \in [Stands -> Stand], NEW S
  PROVE  /\ Fail(rows, S) \in [Stands -> Stand]
         /\ \A s \in Stands : /\ Fail(rows, S)[s].name = rows[s].name /\ Fail(rows, S)[s].members = rows[s].members
                              /\ Fail(rows, S)[s].state = IF s \in S THEN "failed" ELSE rows[s].state
BY DEF Fail, Stand

\* The stand a round works on.
WorksOn(r, s) ==
  /\ s \in Stands
  /\ round[r].job # UpJob => IF build[r].at = "commit" THEN s \in Blamed(stand, round[r].job) ELSE s = build[r].s

\* It waits for its next call,
GoesOn(r, s) ==
  \E at \in {"create", "install", "status", "settings", "sync", "config", "controllers"}, c \in Canisters : Wait(r, at, s, c)

\* or it has built its stand and returns.
BuildsOn(r, s) == GoesOn(r, s) \/ Returns(r, [stand EXCEPT ![s].state = "built"], round[r].job # UpJob)

\* The round waits for a call, not for its own commit.
Called(r) == build[r].at \notin {"commit", "share"}

\* What a step of a round does to its stand and to the queue: it goes on to the next
\* call or has built the stand, goes on to the last part of `up`, is queued again, gives
\* up before a failed stand, blames the canister's stand, or raises.
BuildsOne(r) == \E s \in Stands : WorksOn(r, s) /\ BuildsOn(r, s)
Shares(r) == round[r].job = UpJob /\ Unbuilt = {} /\ Wait(r, "share", 0, 0)
Pauses(r) == Returns(r, stand, FALSE)
Stops(r) == round[r].job = UpJob /\ Returns(r, stand, TRUE)
Blames(r) == round[r].job = UpJob /\ Called(r) /\ Returns(r, Fail(stand, {build[r].s}), TRUE)
Gives(r) == (Called(r) \/ (round[r].job # UpJob /\ Blamed(stand, round[r].job) = {})) /\ Raises(r)
Moves(r) == BuildsOne(r) \/ Shares(r) \/ Pauses(r) \/ Stops(r) \/ Blames(r) \/ Gives(r)

\* The hand-over, provision and build go on or end the stand.
LEMMA HandOverGoes == ASSUME NEW r, NEW s, HandOver(r, s) PROVE BuildsOn(r, s)
<1>1. CASE With(s, "installed") # {}
  <2>1. Min(With(s, "installed")) \in Canisters BY <1>1, MinCanister DEF With
  <2> QED BY <1>1, <2>1 DEF HandOver, BuildsOn, GoesOn
<1>2. CASE With(s, "installed") = {} BY <1>2 DEF HandOver, BuildsOn
<1> QED BY <1>1, <1>2

\* A round that provisions waits for a call.
LEMMA ProvisionGoes == ASSUME NEW r, NEW s, NEW c \in Canisters, Provision(r, s, c) PROVE GoesOn(r, s)
BY DEF Provision, GoesOn

\* build goes on with the stand, or has built it.
LEMMA BuildGoes == ASSUME NEW r, NEW s, Build(r, s) PROVE BuildsOn(r, s)
<1> DEFINE unsynced == {c \in With(s, "installed") : Files[c] > 0}
<1>1. CASE With(s, "created") # {}
  <2>1. Min(With(s, "created")) \in Canisters BY <1>1, MinCanister DEF With
  <2> QED BY <1>1, <2>1, ProvisionGoes DEF Build, BuildsOn
<1>2. CASE With(s, "created") = {} /\ unsynced # {}
  <2>1. Min(unsynced) \in Canisters BY <1>2, MinCanister DEF With
  <2> QED BY <1>2, <2>1 DEF Build, BuildsOn, GoesOn
<1>3. CASE With(s, "created") = {} /\ unsynced = {}
  BY <1>3, HandOverGoes DEF Build
<1> QED BY <1>1, <1>2, <1>3

\* member_row changes canisters' rows to canisters' rows.
LEMMA AddsRows == ASSUME RowsInv, NEW s, AddRows(s) PROVE canister' \in [Canisters -> Canister]
BY DEF AddRows, RowsInv, Canister

\* A call that answers leaves the chain well typed.
LEMMA DoneOK ==
  ASSUME RowsInv, NEW r \in Slots, Called(r), Done(r)
  PROVE  /\ filled' \cup handed' \subseteq Canisters \X Nat
         /\ made' \in [Canisters -> Nat] /\ files' \in [Canisters -> Nat]
<1>1. build[r].c \in Canisters /\ OnIC(build[r].c) \in Canisters \X Nat
  BY DEF RowsInv, Called, OnIC, Canister
<1> QED BY <1>1 DEF Done, RowsInv

\* The types of what is on the chain,
ChainOK ==
  /\ filled \cup handed \subseteq Canisters \X Nat
  /\ made \in [Canisters -> Nat] /\ files \in [Canisters -> Nat]

\* and of what a round leaves to the stand's own step.
RestOK ==
  /\ canister \in [Canisters -> Canister] /\ ChainOK
  /\ up \in {"new", "called", "built"} /\ cursor \in BOOLEAN

\* What a round is for and where it waits go together.
RoundFits ==
  \A r \in Slots : round[r].alive =>
    /\ build[r].at = "share" => round[r].job = UpJob
    /\ round[r].job # UpJob /\ build[r].at # "commit" => round[r].job[2] = build[r].s

\* Every step of a round is one of the moves above, and keeps the other variables'
\* types.
LEMMA AdvanceMoves ==
  ASSUME RoundsInv, RowsInv, RoundFits, NEW r \in Slots, Advance(r)
  PROVE  /\ Moves(r) /\ RestOK'
         /\ UNCHANGED counts /\ round[r].alive
         /\ up' = up \/ (up' = "built" /\ build[r].at = "share")
         /\ faults' \in 0..MaxFaults
<1>0. ASSUME Called(r) PROVE build[r].s \in Stands /\ build[r].c \in Canisters /\ WorksOn(r, build[r].s)
  BY <1>0 DEF RowsInv, Called, WorksOn
<1>a. /\ canister \in [Canisters -> Canister] /\ ChainOK /\ up \in {"new", "called", "built"} /\ cursor \in BOOLEAN
      /\ faults \in 0..MaxFaults
  BY DEF RowsInv, ChainOK, RoundsInv
<1>b. ASSUME NEW at, Answers(r, at), at \notin {"commit", "share"}
      PROVE  Called(r) /\ ChainOK' /\ faults' = faults /\ UNCHANGED counts /\ round[r].alive
  BY <1>b, DoneOK DEF Answers, WaitsAt, Called, ChainOK
<1>1. CASE BeginStand(r)
  <2>1. round[r].alive /\ build[r].at = "commit" /\ round[r].job # UpJob
        /\ UNCHANGED <<faults, chain, up, cursor, counts>>
    BY <1>1 DEF BeginStand, WaitsAt
  <2>2. CASE Blamed(stand, round[r].job) = {} /\ Raises(r) /\ UNCHANGED canister
    BY <1>a, <2>1, <2>2 DEF Moves, BuildsOne, Shares, Pauses, Stops, Blames, Gives, RestOK, ChainOK, chain
  <2>3. ASSUME NEW s \in Blamed(stand, round[r].job), AddRows(s), Build(r, s)
        PROVE  Moves(r) /\ canister' \in [Canisters -> Canister]
    <3>1. WorksOn(r, s) BY <2>1, BlamedAreStands DEF WorksOn
    <3> QED BY <2>3, <3>1, BuildGoes, AddsRows DEF Moves, BuildsOne, Shares, Pauses, Stops, Blames, Gives, WorksOn
  <2> QED BY <1>1, <1>a, <2>1, <2>2, <2>3 DEF BeginStand, RestOK, ChainOK, chain
<1>2. CASE BeginUp(r)
  <2>1. round[r].alive /\ build[r].at = "commit" /\ round[r].job = UpJob /\ UNCHANGED <<faults, chain, up, counts>>
    BY <1>2 DEF BeginUp, WaitsAt
  <2>2. CASE Unbuilt # {} /\ Returns(r, stand, TRUE) /\ UNCHANGED <<canister, cursor>>
    BY <1>a, <2>1, <2>2 DEF Moves, BuildsOne, Shares, Pauses, Stops, Blames, Gives, RestOK, ChainOK, chain
  <2>3. CASE /\ Unbuilt # {} /\ Unprovisioned # {}
             /\ LET s == Min(Unprovisioned) IN AddRows(s) /\ Provision(r, s, Min(With(s, "created")))
             /\ UNCHANGED cursor
    <3> DEFINE s == Min(Unprovisioned)
    <3>1. s \in Unprovisioned BY <2>3, MinStand DEF Unprovisioned, Pending
    <3>2. With(s, "created") # {}
      <4>1. PICK c \in Own(s) : (c \in Members(s) /\ ~There(c)) \/ canister[c].status = "created"
        BY <3>1 DEF Unprovisioned, Members
      <4>2. canister'[c].status = "created" BY <2>3, <4>1 DEF AddRows, RowsInv, Canister, Own, There
      <4> QED BY <4>2 DEF With, Own
    <3>3. Min(With(s, "created")) \in Canisters BY <3>2, MinCanister DEF With
    <3>4. s \in Stands BY <3>1 DEF Unprovisioned, Pending
    <3>5. Moves(r) BY <2>1, <2>3, <3>3, <3>4, ProvisionGoes DEF Moves, BuildsOne, Shares, Pauses, Stops, Blames, Gives, WorksOn, BuildsOn
    <3> QED BY <1>a, <2>1, <2>3, <3>5, AddsRows DEF RestOK, ChainOK, chain
  <2>4. CASE Unbuilt # {} /\ UNCHANGED <<canister, cursor>> /\ Build(r, Min(Unbuilt))
    <3>1. Min(Unbuilt) \in Stands BY <2>4, MinStand DEF Unbuilt
    <3>2. Moves(r) BY <2>1, <2>4, <3>1, BuildGoes DEF Moves, BuildsOne, Shares, Pauses, Stops, Blames, Gives, WorksOn
    <3> QED BY <1>a, <2>1, <2>4, <3>2 DEF RestOK, ChainOK, chain
  <2>5. CASE cursor' = FALSE /\ Returns(r, stand, FALSE) /\ UNCHANGED canister
    BY <1>a, <2>1, <2>5 DEF Moves, BuildsOne, Shares, Pauses, Stops, Blames, Gives, RestOK, ChainOK, chain
  <2>6. CASE Unbuilt = {} /\ Wait(r, "share", 0, 0) /\ UNCHANGED <<canister, cursor>>
    BY <1>a, <2>1, <2>6 DEF Moves, BuildsOne, Shares, Pauses, Stops, Blames, Gives, RestOK, ChainOK, chain
  <2> QED BY <1>2, <2>2, <2>3, <2>4, <2>5, <2>6 DEF BeginUp
<1>3. CASE CreateCanister(r)
  <2>1. Called(r) /\ ChainOK' /\ faults' = faults /\ UNCHANGED counts /\ round[r].alive
    BY <1>3, <1>b DEF CreateCanister
  <2>2. canister' \in [Canisters -> Canister] BY <1>3, <1>0, <1>a, <2>1 DEF CreateCanister, Canister, ChainOK
  <2>3. Moves(r) BY <1>3, <1>0, <2>1 DEF CreateCanister, Moves, BuildsOne, Shares, Pauses, Stops, Blames, Gives, BuildsOn, GoesOn
  <2> QED BY <1>3, <1>a, <2>1, <2>2, <2>3 DEF CreateCanister, RestOK
<1>4. CASE InstallCode(r)
  <2>1. Called(r) /\ ChainOK' /\ faults' = faults /\ UNCHANGED counts /\ round[r].alive
    BY <1>4, <1>b DEF InstallCode
  <2>2. Moves(r) BY <1>4, <1>0, <2>1 DEF InstallCode, Moves, BuildsOne, Shares, Pauses, Stops, Blames, Gives, BuildsOn, GoesOn
  <2> QED BY <1>4, <1>a, <2>1, <2>2 DEF InstallCode, RestOK
<1>5. CASE CheckHash(r)
  <2>1. Called(r) /\ ChainOK' /\ faults' = faults /\ UNCHANGED counts /\ round[r].alive
    BY <1>5, <1>b DEF CheckHash
  <2>2. canister' \in [Canisters -> Canister] BY <1>5, <1>a DEF CheckHash, Canister
  <2>3. Moves(r) BY <1>5, <1>0, <2>1 DEF CheckHash, Moves, BuildsOne, Shares, Pauses, Stops, Blames, Gives, BuildsOn, GoesOn
  <2> QED BY <1>5, <1>a, <2>1, <2>2, <2>3 DEF CheckHash, RestOK
<1>6. CASE ShareViewers(r)
  <2>1. Called(r) /\ ChainOK' /\ faults' = faults /\ UNCHANGED counts /\ round[r].alive
    BY <1>6, <1>b DEF ShareViewers
  <2>2. canister' \in [Canisters -> Canister] BY <1>6, <1>a DEF ShareViewers, Canister
  <2> QED BY <1>6, <1>a, <2>1, <2>2 DEF ShareViewers, RestOK, Moves, BuildsOne, Shares, Pauses, Stops, Blames, Gives
<1>7. CASE SyncFiles(r)
  <2>1. Called(r) /\ ChainOK' /\ faults' = faults /\ UNCHANGED counts /\ round[r].alive
    BY <1>7, <1>b DEF SyncFiles
  <2>2. ASSUME Pauses(r) PROVE Moves(r) BY <2>2 DEF Moves
  <2>3. ASSUME NEW rest \in SUBSET Canisters, rest # {}, Wait(r, "sync", build[r].s, Min(rest)) PROVE Moves(r)
    <3>1. Min(rest) \in Canisters BY <2>3, MinCanister
    <3>2. GoesOn(r, build[r].s) BY <2>3, <3>1 DEF GoesOn
    <3> QED BY <1>0, <2>1, <3>2 DEF Moves, BuildsOne, BuildsOn
  <2>4. ASSUME HandOver(r, build[r].s) PROVE Moves(r)
    <3>1. BuildsOn(r, build[r].s) BY <2>4, HandOverGoes
    <3> QED BY <1>0, <2>1, <3>1 DEF Moves, BuildsOne
  <2>5. Moves(r)
    <3> DEFINE rest == {c \in With(build[r].s, "installed") : c > build[r].c /\ Files[c] > 0}
    <3>1. rest \in SUBSET Canisters BY DEF With
    <3>2. Pauses(r) \/ (rest # {} /\ Wait(r, "sync", build[r].s, Min(rest))) \/ HandOver(r, build[r].s)
      BY <1>7 DEF SyncFiles, Pauses
    <3> HIDE DEF rest
    <3> QED BY <2>2, <2>3, <2>4, <3>1, <3>2
  <2> QED BY <1>7, <1>a, <2>1, <2>5 DEF SyncFiles, RestOK
<1>8. CASE Configure(r)
  <2>1. Called(r) /\ ChainOK' /\ faults' = faults /\ UNCHANGED counts /\ round[r].alive
    BY <1>8, <1>b DEF Configure
  <2>2. Moves(r) BY <1>8, <1>0, <2>1 DEF Configure, Moves, BuildsOne, Shares, Pauses, Stops, Blames, Gives, BuildsOn, GoesOn
  <2> QED BY <1>8, <1>a, <2>1, <2>2 DEF Configure, RestOK
<1>9. CASE HandOff(r)
  <2>1. Called(r) /\ ChainOK' /\ faults' = faults /\ UNCHANGED counts /\ round[r].alive
    BY <1>9, <1>b DEF HandOff
  <2>2. canister' \in [Canisters -> Canister] BY <1>9, <1>a DEF HandOff, Canister
  <2>3. Moves(r) BY <1>9, <1>0, <2>1, HandOverGoes DEF HandOff, Moves, BuildsOne, Shares, Pauses, Stops, Blames, Gives
  <2> QED BY <1>9, <1>a, <2>1, <2>2, <2>3 DEF HandOff, RestOK
<1>10. CASE ShareStatus(r)
  <2>1. round[r].alive /\ build[r].at = "share" /\ UNCHANGED <<counts, faults, canister, cursor>> /\ up' = "built"
    BY <1>10 DEF ShareStatus, Answers, WaitsAt
  <2>2. UNCHANGED chain BY <1>10, <2>1 DEF ShareStatus, Answers, Done, chain
  <2>3. Moves(r) BY <1>10, <2>1 DEF ShareStatus, Moves, BuildsOne, Shares, Pauses, Stops, Blames, Gives, RoundFits
  <2> QED BY <1>a, <2>1, <2>2, <2>3 DEF RestOK, ChainOK, chain
<1>11. CASE CallFails(r)
  <2>1. Called(r) /\ round[r].alive /\ UNCHANGED <<canister, up, cursor, counts>>
    BY <1>11 DEF CallFails, Called
  <2>2. ChainOK' BY <1>11, <1>a, <2>1, DoneOK DEF CallFails, ChainOK, chain
  <2>3. faults' \in 0..MaxFaults BY <1>11, <1>a, FaultsAssumption DEF CallFails, Fault
  <2>4. Moves(r) BY <1>11, <2>1 DEF CallFails, ProvisionFailed, Moves, BuildsOne, Shares, Pauses, Stops, Blames, Gives
  <2> QED BY <1>a, <2>1, <2>2, <2>3, <2>4 DEF RestOK
<1> QED BY <1>1, <1>2, <1>3, <1>4, <1>5, <1>6, <1>7, <1>8, <1>9, <1>10, <1>11 DEF Advance
-----------------------------------------------------------------------------
(* What keeps a pending stand covered *)

\* The states a round of `up` has to finish.
Unfinished == {"pending", "failed"}

\* There is an `up` only once somebody called it, and then the sheet's stands are there.
UpIsCalled ==
  /\ Waiting(UpJob) \/ (\E r \in Slots : (round[r].alive \/ round[r].running) /\ round[r].job = UpJob) => up # "new"
  /\ up # "new" => \A s \in Sheet : stand[s].state # "absent"

\* While the running round ends `up`, what is not built waits in the queue.
ShareWaits ==
  \A r \in Slots : round[r].running /\ round[r].alive /\ build[r].at = "share" =>
    \A s \in Stands, j \in Jobs :
      s \notin haunted \cup astray /\ stand[s].state \in Unfinished /\ j = StandJob(s) => Waiting(j)

\* PendingIsCovered, stand by stand.
Covered ==
  \A s \in Stands, j \in Jobs :
    s \notin haunted \cup astray /\ stand[s].state = "pending" /\ up # "called" /\ j = StandJob(s) => Working(j)

\* A stand's job is not the sheet's, and names its stand.
LEMMA JobsDiffer == ASSUME NEW s PROVE StandJob(s) # UpJob /\ StandJob(s)[2] = s
BY DEF StandJob, UpJob

\* Giving rounds up changes only states, to failed.
LEMMA GiveUpOK ==
  ASSUME NEW rows \in [Stands -> Stand], NEW S
  PROVE  /\ GiveUp(rows, S) \in [Stands -> Stand]
         /\ \A s \in Stands : /\ GiveUp(rows, S)[s].name = rows[s].name /\ GiveUp(rows, S)[s].members = rows[s].members
                              /\ GiveUp(rows, S)[s].state \in {rows[s].state, "failed"}
         /\ S = {} => GiveUp(rows, S) = rows
         /\ \A s \in Stands, r \in S : rows[s].state # "absent" /\ round[r].job = <<"stand", s, rows[s].name>>
                                     => GiveUp(rows, S)[s].state = "failed"
<1> DEFINE T == UNION {Blamed(rows, round[r].job) : r \in S}
<1>1. GiveUp(rows, S) = Fail(rows, T) BY DEF GiveUp
<1>2. S = {} => GiveUp(rows, S) = rows
  <2> SUFFICES ASSUME S = {} PROVE Fail(rows, T) = rows BY <1>1
  <2>1. \A s \in Stands : s \notin T OBVIOUS
  <2> HIDE DEF T
  <2> QED BY <2>1 DEF Fail
<1>3. ASSUME NEW s \in Stands, NEW r \in S, rows[s].state # "absent", round[r].job = <<"stand", s, rows[s].name>>
      PROVE  s \in T
  <2>1. s \in Blamed(rows, round[r].job) BY <1>3 DEF Blamed, UpJob
  <2> QED BY <2>1
<1> HIDE DEF T
<1> QED BY <1>1, <1>2, <1>3, FailOK

\* A kick forgets no job, and no running round but one it gives up.
LEMMA KickKeepsWaiting ==
  ASSUME NEW q, NEW a, NEW t, NEW r, Kick(q, a, t, r), NEW j,
         \E i \in DOMAIN q : q[i] = j
  PROVE  Waiting(j)'
BY DEF Kick, Waiting

\* A running round of a stand that stays pending is not given up by the kick.
LEMMA CoverAfterKick ==
  ASSUME RoundsInv, NEW rows \in [Stands -> Stand], NEW F, stand' = GiveUp(rows, GivenUp \ F),
         NEW s \in Stands, stand'[s].state = "pending",
         NEW r \in Slots \ F, round[r].running, round[r].job = <<"stand", s, rows[s].name>>
  PROVE  ~round[r].overdue
<1> SUFFICES ASSUME round[r].overdue PROVE FALSE
  OBVIOUS
<1>1. r \in GivenUp \ F BY DEF GivenUp, Running
<1>2. rows[s].state \in {"pending"} BY GiveUpOK
<1> QED BY <1>1, <1>2, GiveUpOK

\* The queue q forgets nothing.
Kept(q) == \A i \in DOMAIN queue : \E k \in DOMAIN q : q[k] = queue[i]

\* What a kick between rounds does to the invariants, when each stand is as before,
\* was given up, or has its job in the queue.
LEMMA KickCovers ==
  ASSUME RoundsInv, RowsInv, RoundFits, ShareWaits, Covered,
         NEW q, Kept(q), Kick(q, armed, ticks, round), build' = build, haunted' = haunted
  PROVE  /\ RoundFits'
         /\ (\A s \in Stands, j \in Jobs : stand'[s].state \in Unfinished /\ s \notin astray' /\ j = StandJob(s)' =>
                 (\E k \in DOMAIN q : q[k] = j) \/ (Kicked[s].state \in Unfinished /\ s \notin astray /\ j = StandJob(s)))
            => ShareWaits'
         /\ (up' = up /\ \A s \in Stands, j \in Jobs : stand'[s].state = "pending" /\ s \notin astray' /\ j = StandJob(s)' =>
                 (\E k \in DOMAIN q : q[k] = j) \/ (Kicked[s].state = "pending" /\ s \notin astray /\ j = StandJob(s)))
            => Covered'
<1>1. /\ round' \in [Slots -> Round]
      /\ \A r \in Slots :
           /\ round'[r].job = round[r].job /\ round'[r].alive = round[r].alive /\ round'[r].overdue = round[r].overdue
           /\ round'[r].running <=> round[r].running /\ ~round[r].overdue
  BY KickRounds DEF RoundsInv
<1>2. queue' = q BY DEF Kick
<1>3. RoundFits' BY <1>1 DEF RoundFits
<1>4. ASSUME NEW r \in Slots, round'[r].running PROVE Kicked = stand
  <2>1. GivenUp = {} BY <1>1, <1>4 DEF GivenUp, Running, RoundsInv, Orderly
  <2> QED BY <2>1, GiveUpOK DEF Kicked, RowsInv
<1>5. ASSUME NEW j, Waiting(j) PROVE Waiting(j)' BY <1>2, <1>5 DEF Waiting, Kept
<1>6. ASSUME NEW j, \E k \in DOMAIN q : q[k] = j PROVE Waiting(j)' BY <1>2, <1>6 DEF Waiting
<1>7. ASSUME \A s \in Stands, j \in Jobs : stand'[s].state \in Unfinished /\ s \notin astray' /\ j = StandJob(s)' =>
               (\E k \in DOMAIN q : q[k] = j) \/ (Kicked[s].state \in Unfinished /\ s \notin astray /\ j = StandJob(s))
      PROVE  ShareWaits'
  <2> SUFFICES ASSUME NEW r \in Slots, round'[r].running, round'[r].alive, build'[r].at = "share",
                      NEW s \in Stands, NEW j \in Jobs, s \notin haunted' \cup astray', stand'[s].state \in Unfinished,
                      j = StandJob(s)'
               PROVE  Waiting(j)'
    BY DEF ShareWaits
  <2>1. CASE \E k \in DOMAIN q : q[k] = j BY <1>6, <2>1
  <2>2. CASE Kicked[s].state \in Unfinished /\ s \notin astray /\ j = StandJob(s)
    <3>1. stand[s].state \in Unfinished BY <1>4, <2>2
    <3>2. Waiting(j) BY <1>1, <2>2, <3>1 DEF ShareWaits
    <3> QED BY <1>5, <3>2
  <2> QED BY <1>7, <2>1, <2>2
<1>8. ASSUME up' = up,
             \A s \in Stands, j \in Jobs : stand'[s].state = "pending" /\ s \notin astray' /\ j = StandJob(s)' =>
               (\E k \in DOMAIN q : q[k] = j) \/ (Kicked[s].state = "pending" /\ s \notin astray /\ j = StandJob(s))
      PROVE  Covered'
  <2> SUFFICES ASSUME NEW s \in Stands, NEW j \in Jobs, s \notin haunted' \cup astray', stand'[s].state = "pending",
                      up' # "called", j = StandJob(s)'
               PROVE  Working(j)'
    BY DEF Covered
  <2>1. CASE \E k \in DOMAIN q : q[k] = j BY <1>6, <2>1 DEF Working
  <2>2. CASE Kicked[s].state = "pending" /\ s \notin astray /\ j = StandJob(s)
    <3>1. stand[s].state = "pending" BY <2>2, GiveUpOK DEF Kicked, RowsInv
    <3>2. Working(j) BY <1>8, <2>2, <3>1 DEF Covered
    <3>3. CASE Waiting(j) BY <1>5, <3>3 DEF Working
    <3>4. ASSUME NEW r \in Slots, round[r].running, round[r].job = j PROVE round'[r].running
      <4> SUFFICES ASSUME round[r].overdue PROVE FALSE BY <1>1, <3>4
      <4>1. r \in GivenUp BY <3>4 DEF GivenUp, Running
      <4>2. Kicked[s].state = "failed" BY <2>2, <3>1, <3>4, <4>1, GiveUpOK DEF Kicked, RowsInv, StandJob
      <4> QED BY <2>2, <4>2
    <3> QED BY <1>1, <3>2, <3>3, <3>4 DEF Working
  <2> QED BY <1>8, <2>1, <2>2
<1> QED BY <1>3, <1>7, <1>8

\* What the stands' rows are when a round returns.
RowsOf(r, rows, finished) ==
  /\ rows \in [Stands -> Stand] /\ finished \in BOOLEAN
  /\ \A s \in Stands :
       /\ rows[s].name = stand[s].name /\ rows[s].members = stand[s].members
       /\ \/ rows[s].state \in {stand[s].state, "built"}
          \/ rows[s].state = "failed" /\ (stand[s].state = "pending" \/ (Called(r) /\ s = build[r].s))
       /\ finished /\ round[r].job = StandJob(s) => rows[s].state # "pending"
  /\ ~finished /\ round[r].job # UpJob => rows = stand

\* A round that waits at p is a round of that stand's job.
GoesTo(r, p) ==
  /\ p \in Position /\ p.at # "commit"
  /\ build' = [build EXCEPT ![r] = p] /\ UNCHANGED <<roundVars, stand>>
  /\ p.at = "share" => round[r].job = UpJob /\ Unbuilt = {}
  /\ p.at # "share" => p.s \in Stands /\ p.c \in Canisters /\ WorksOn(r, p.s)

\* A move either waits for another call or returns.
LEMMA MoveKinds ==
  ASSUME RoundsInv, RowsInv, RoundFits, NEW r \in Slots, round[r].alive, Moves(r)
  PROVE  \/ \E p \in Position : GoesTo(r, p)
         \/ \E rows \in [Stands -> Stand], finished \in BOOLEAN : Returns(r, rows, finished) /\ RowsOf(r, rows, finished)
         \/ RoundTraps(r) /\ UNCHANGED <<stand, build>>
<1>0. stand \in [Stands -> Stand] BY DEF RowsInv
<1>1. ASSUME NEW s \in Stands, WorksOn(r, s), GoesOn(r, s) PROVE \E p \in Position : GoesTo(r, p)
  <2>1. PICK at \in {"create", "install", "status", "settings", "sync", "config", "controllers"}, c \in Canisters : Wait(r, at, s, c)
    BY <1>1 DEF GoesOn
  <2>2. [at |-> at, s |-> s, c |-> c] \in Position BY DEF Position
  <2>3. GoesTo(r, [at |-> at, s |-> s, c |-> c]) BY <1>1, <2>1, <2>2 DEF GoesTo, Wait
  <2> QED BY <2>2, <2>3
<1>2. ASSUME NEW s \in Stands, WorksOn(r, s)
      PROVE  RowsOf(r, [stand EXCEPT ![s].state = "built"], round[r].job # UpJob)
  <2> DEFINE rows == [stand EXCEPT ![s].state = "built"]
  <2>1. rows \in [Stands -> Stand] BY <1>0 DEF Stand
  <2>2. \A t \in Stands : /\ rows[t].name = stand[t].name /\ rows[t].members = stand[t].members
                          /\ rows[t].state = IF t = s THEN "built" ELSE stand[t].state
    BY <1>0 DEF Stand
  <2>3. ASSUME NEW t \in Stands, round[r].job = StandJob(t) PROVE t = s
    <3>1. round[r].job # UpJob /\ round[r].job[2] = t BY <2>3, JobsDiffer
    <3>2. CASE build[r].at = "commit"
      <4>1. round[r].job = <<"stand", s, stand[s].name>> BY <1>2, <3>1, <3>2, BlamedAreStands DEF WorksOn
      <4> QED BY <3>1, <4>1
    <3>3. CASE build[r].at # "commit"
      BY <1>2, <3>1, <3>3 DEF WorksOn, RoundFits
    <3> QED BY <3>2, <3>3
  <2> HIDE DEF rows
  <2>4. \A t \in Stands : round[r].job = StandJob(t) => rows[t].state # "pending" BY <2>2, <2>3
  <2> QED BY <2>1, <2>2, <2>4 DEF RowsOf, rows
<1>3. CASE BuildsOne(r)
  <2>1. PICK s \in Stands : WorksOn(r, s) /\ BuildsOn(r, s) BY <1>3 DEF BuildsOne
  <2>2. CASE GoesOn(r, s) BY <1>1, <2>1, <2>2
  <2>3. CASE Returns(r, [stand EXCEPT ![s].state = "built"], round[r].job # UpJob)
    <3>1. RowsOf(r, [stand EXCEPT ![s].state = "built"], round[r].job # UpJob) BY <1>2, <2>1
    <3> QED BY <2>3, <3>1 DEF RowsOf
  <2> QED BY <2>1, <2>2, <2>3 DEF BuildsOn
<1>4. CASE Shares(r)
  <2>1. [at |-> "share", s |-> 0, c |-> 0] \in Position BY DEF Position
  <2>2. GoesTo(r, [at |-> "share", s |-> 0, c |-> 0]) BY <1>4, <2>1 DEF GoesTo, Shares, Wait
  <2> QED BY <2>1, <2>2
<1>5. CASE Pauses(r)
  <2>1. RowsOf(r, stand, FALSE) BY <1>0 DEF RowsOf
  <2> QED BY <1>0, <1>5, <2>1 DEF Pauses
<1>6. CASE Stops(r)
  <2>1. RowsOf(r, stand, TRUE) BY <1>0, <1>6, JobsDiffer DEF RowsOf, Stops
  <2> QED BY <1>0, <1>6, <2>1 DEF Stops
<1>7. CASE Blames(r)
  <2>1. RowsOf(r, Fail(stand, {build[r].s}), TRUE) BY <1>0, <1>7, FailOK, JobsDiffer DEF RowsOf, Blames
  <2>2. Fail(stand, {build[r].s}) \in [Stands -> Stand] BY <1>0, FailOK
  <2> QED BY <1>7, <2>1, <2>2 DEF Blames
<1>8. CASE Gives(r)
  <2> DEFINE B == Blamed(stand, round[r].job)
  <2>1. CASE RoundTraps(r) /\ UNCHANGED <<stand, build>> BY <2>1
  <2>2. CASE Returns(r, Fail(stand, B), TRUE) /\ (round[r].job # UpJob => B # {})
    <3>1. ASSUME NEW s \in B PROVE stand[s].state = "pending" \/ (Called(r) /\ s = build[r].s)
      <4>1. CASE round[r].job = UpJob BY <3>1, <4>1, BlamedAreStands
      <4>2. CASE round[r].job # UpJob
        <5>1. Called(r) BY <1>8, <2>2, <4>2 DEF Gives
        <5>2. round[r].job = <<"stand", s, stand[s].name>> BY <3>1, <4>2, BlamedAreStands
        <5>3. round[r].job[2] = build[r].s BY <4>2, <5>1 DEF Called, RoundFits
        <5> QED BY <5>1, <5>2, <5>3
      <4> QED BY <4>1, <4>2
    <3>2. ASSUME NEW s \in Stands, round[r].job = StandJob(s), stand[s].state = "pending" PROVE s \in B
      BY <3>2, JobsDiffer DEF Blamed, StandJob
    <3> HIDE DEF B
    <3>3. RowsOf(r, Fail(stand, B), TRUE) BY <1>0, <3>1, <3>2, FailOK DEF RowsOf
    <3>4. Fail(stand, B) \in [Stands -> Stand] BY <1>0, FailOK
    <3> QED BY <2>2, <3>3, <3>4
  <2> QED BY <1>8, <2>1, <2>2 DEF Gives, Raises
<1> QED BY <1>3, <1>4, <1>5, <1>6, <1>7, <1>8 DEF Moves

\* The inductive invariant of the builds.
IInv == RoundsInv /\ RowsInv /\ RoundFits /\ UpIsCalled /\ ShareWaits /\ Covered

\* What RoundGoesOn notes of a round that was given up.
Haunts(r) == {build[r].s, build'[r].s} \ {0}

\* A round's step keeps the rounds' and the rows' types.
LEMMA MoveTypes ==
  ASSUME IInv, NEW r \in Slots, RoundGoesOn(r)
  PROVE  RoundsInv' /\ RowsInv' /\ Moves(r) /\ round[r].alive
<1>1. /\ Moves(r) /\ RestOK' /\ UNCHANGED counts /\ round[r].alive /\ faults' \in 0..MaxFaults
  BY AdvanceMoves DEF IInv, RoundGoesOn
<1>2. CASE \E p \in Position : GoesTo(r, p)
  <2>1. PICK p \in Position : GoesTo(r, p) BY <1>2
  <2>2. build' \in [Slots -> Position] /\ build'[r] = p /\ \A t \in Slots : t # r => build'[t] = build[t]
    BY <2>1 DEF GoesTo, IInv, RowsInv
  <2>3. \A t \in Slots : build'[t].at \notin {"commit", "share"} => build'[t].s \in Stands /\ build'[t].c \in Canisters
    BY <2>1, <2>2 DEF GoesTo, IInv, RowsInv
  <2>4. stand' = stand /\ UNCHANGED roundVars BY <2>1 DEF GoesTo
  <2>5. RoundsInv' BY <2>4 DEF IInv, roundVars, RoundsInv
  <2>6. grown' \cup haunted' \cup astray' \subseteq Stands /\ left' = left BY <2>2 DEF RoundGoesOn, IInv, RowsInv, Position
  <2> QED BY <1>1, <2>2, <2>3, <2>4, <2>5, <2>6 DEF RestOK, ChainOK, counts, IInv, RowsInv
<1>3. ASSUME NEW rows \in [Stands -> Stand], NEW finished, Returns(r, rows, finished), RowsOf(r, rows, finished)
      PROVE  RoundsInv' /\ RowsInv'
  <2>1. RoundsInv' BY <1>1, <1>3, RoundEndsOK DEF Returns, IInv
  <2>2. build' = build BY <1>3 DEF Returns
  <2>3. /\ stand' \in [Stands -> Stand]
        /\ \A s \in Stands : stand'[s].name = stand[s].name /\ stand'[s].members = stand[s].members
    BY <1>3, GiveUpOK DEF Returns, RowsOf
  <2>4. grown' \cup haunted' \cup astray' \subseteq Stands /\ left' = left BY <2>2 DEF RoundGoesOn, IInv, RowsInv, Position
  <2> QED BY <1>1, <2>1, <2>2, <2>3, <2>4 DEF RestOK, ChainOK, counts, IInv, RowsInv
<1>4. CASE RoundTraps(r) /\ UNCHANGED <<stand, build>>
  <2>1. RoundsInv' BY <1>1, <1>4, RoundTrapsOK DEF IInv
  <2>2. grown' \cup haunted' \cup astray' \subseteq Stands /\ left' = left BY <1>4 DEF RoundGoesOn, IInv, RowsInv, Position
  <2> QED BY <1>1, <1>4, <2>1, <2>2 DEF RestOK, ChainOK, counts, IInv, RowsInv
<1> QED BY <1>1, <1>2, <1>3, <1>4, MoveKinds DEF IInv

\* It keeps what covers the stands.
LEMMA MoveCovers ==
  ASSUME IInv, NEW r \in Slots, RoundGoesOn(r)
  PROVE  RoundFits' /\ UpIsCalled' /\ ShareWaits' /\ Covered'
<1>1. /\ Moves(r) /\ round[r].alive
      /\ up' = up \/ (up' = "built" /\ build[r].at = "share")
  BY AdvanceMoves DEF IInv, RoundGoesOn
<1>2. haunted' = haunted \cup (IF round[r].running THEN {} ELSE IF build[r].at = "share" THEN Stands ELSE Haunts(r))
  BY DEF RoundGoesOn, Haunts
<1>a. haunted \cup astray \subseteq haunted' \cup astray' /\ astray' = astray BY <1>2 DEF RoundGoesOn
<1>b. stand \in [Stands -> Stand] /\ build \in [Slots -> Position] BY DEF IInv, RowsInv
<1>c. up' # "new" <=> up # "new"
  BY <1>1 DEF IInv, RoundFits, UpIsCalled

\* `up` is declared built: by the running round, or over stands it haunts.
<1>3. ASSUME up' # up, NEW s \in Stands, NEW j \in Jobs, s \notin haunted' \cup astray', stand[s].state = "pending", j = StandJob(s)
      PROVE  Waiting(j)
  <2>1. build[r].at = "share" /\ round[r].running BY <1>1, <1>2, <1>3
  <2> QED BY <1>1, <1>a, <1>3, <2>1 DEF IInv, ShareWaits, Unfinished
<1>4. CASE \E p \in Position : GoesTo(r, p)
  <2>1. PICK p \in Position : GoesTo(r, p) BY <1>4
  <2>2. /\ build'[r] = p /\ \A t \in Slots : t # r => build'[t] = build[t]
        /\ stand' = stand /\ queue' = queue /\ round' = round
    BY <1>b, <2>1 DEF GoesTo, roundVars
  <2>3. RoundFits'
    <3>1. round[r].job # UpJob => round[r].job[2] = p.s
      <4>1. SUFFICES ASSUME round[r].job # UpJob PROVE round[r].job[2] = p.s OBVIOUS
      <4>2. WorksOn(r, p.s) BY <2>1, <4>1 DEF GoesTo
      <4>3. CASE build[r].at = "commit"
        <5>1. round[r].job = <<"stand", p.s, stand[p.s].name>> BY <4>1, <4>2, <4>3, BlamedAreStands DEF WorksOn
        <5> QED BY <5>1
      <4>4. CASE build[r].at # "commit" BY <1>1, <4>1, <4>2, <4>4 DEF WorksOn, IInv, RoundFits
      <4> QED BY <4>3, <4>4
    <3> QED BY <2>1, <2>2, <3>1 DEF GoesTo, IInv, RoundFits
  <2>4. UpIsCalled' BY <1>c, <2>2 DEF IInv, UpIsCalled, Waiting
  <2>5. ShareWaits'
    <3> SUFFICES ASSUME NEW t \in Slots, round[t].running, round[t].alive, build'[t].at = "share",
                        NEW s \in Stands, NEW j \in Jobs, s \notin haunted' \cup astray', stand[s].state \in Unfinished,
                        j = StandJob(s)
                 PROVE  Waiting(j)'
      BY <2>2 DEF ShareWaits, StandJob
    <3>1. t # r BY <2>1, <2>2 DEF GoesTo, Unbuilt, Unfinished
    <3>2. Waiting(j) BY <1>a, <2>2, <3>1 DEF IInv, ShareWaits
    <3> QED BY <2>2, <3>2 DEF Waiting
  <2>6. Covered'
    <3> SUFFICES ASSUME NEW s \in Stands, NEW j \in Jobs, s \notin haunted' \cup astray', stand[s].state = "pending",
                        up' # "called", j = StandJob(s)
                 PROVE  Working(j)'
      BY <2>2 DEF Covered, StandJob
    <3>1. Working(j) BY <1>3, <1>a DEF IInv, Covered, Working
    <3> QED BY <2>2, <3>1 DEF Working, Waiting
  <2> QED BY <2>3, <2>4, <2>5, <2>6
<1>5. ASSUME NEW rows \in [Stands -> Stand], NEW finished \in BOOLEAN, Returns(r, rows, finished), RowsOf(r, rows, finished)
      PROVE  RoundFits' /\ UpIsCalled' /\ ShareWaits' /\ Covered'
  <2> DEFINE q == IF finished THEN queue ELSE Queued(queue, round[r].job)
  <2>1. round[r].job \in Jobs /\ RoundsOK(Forget(r)) BY <1>1, ForgetOK DEF IInv, RoundsInv, RoundsOK
  <2>2. Kept(q) /\ (~finished => \E k \in DOMAIN q : q[k] = round[r].job)
        /\ \A k \in DOMAIN q : q[k] = round[r].job \/ \E i \in DOMAIN queue : q[k] = queue[i]
    <3>1. CASE finished BY <3>1 DEF Kept
    <3>2. CASE ~finished
      <4>1. Kept(q) /\ \E k \in DOMAIN q : q[k] = round[r].job BY <2>1, <3>2, QueuedOK, ZenonT(40) DEF Kept, IInv, RoundsInv
      <4>2. queue \in Seq(Jobs) BY DEF IInv, RoundsInv, QueueOK
      <4>3. \A k \in DOMAIN q : q[k] = round[r].job \/ \E i \in DOMAIN queue : q[k] = queue[i]
        BY <2>1, <3>2, <4>2 DEF Queued
      <4> QED BY <4>1, <4>3
    <3> QED BY <3>1, <3>2
  <2>3. Kick(q, armed, ticks, Forget(r)) /\ stand' = GiveUp(rows, GivenUp \ {r}) /\ build' = build
    BY <1>5 DEF Returns, RoundEnds
  <2>4. queue' = q BY <2>3 DEF Kick
  <2> HIDE DEF q
  <2>5. \A t \in Slots : t # r =>
           /\ round'[t].job = round[t].job /\ round'[t].alive = round[t].alive
           /\ round'[t].running <=> round[t].running /\ ~round[t].overdue
    <3>1. \A t \in Slots : t # r => Forget(r)[t] = round[t] BY DEF Forget, IInv, RoundsInv, RoundsOK
    <3> QED BY <2>1, <2>3, <3>1, KickRounds
  <2>6. ~round'[r].alive /\ ~round'[r].running
    <3>1. Forget(r)[r] = NoRound BY DEF Forget, IInv, RoundsInv, RoundsOK
    <3> QED BY <2>1, <2>3, <3>1, KickRounds DEF NoRound
  <2>7. RoundFits' BY <2>3, <2>5, <2>6 DEF IInv, RoundFits
  <2>8. \A s \in Stands : /\ stand'[s].name = stand[s].name
                          /\ stand'[s].state \in {rows[s].state, "failed"}
                          /\ rows[s].name = stand[s].name
    BY <1>5, <2>3, GiveUpOK DEF RowsOf
  <2>9. UpIsCalled'
    <3>1. \A s \in Stands : stand'[s].state = "absent" => stand[s].state = "absent" BY <1>5, <2>8 DEF RowsOf
    <3>2. ASSUME Waiting(UpJob)' PROVE up # "new"
      <4>1. Waiting(UpJob) \/ round[r].job = UpJob BY <2>2, <2>4, <3>2 DEF Waiting
      <4> QED BY <1>1, <4>1 DEF IInv, UpIsCalled
    <3>3. ASSUME NEW t \in Slots, round'[t].alive \/ round'[t].running, round'[t].job = UpJob PROVE up # "new"
      BY <2>5, <2>6, <3>3 DEF IInv, UpIsCalled
    <3> QED BY <1>c, <3>1, <3>2, <3>3, RowsAssumption DEF IInv, UpIsCalled
  <2>10. ASSUME NEW j, Waiting(j) PROVE Waiting(j)' BY <2>2, <2>4, <2>10 DEF Waiting, Kept
  <2>11. ShareWaits'
    <3> SUFFICES ASSUME NEW t \in Slots, round'[t].running, round'[t].alive, build'[t].at = "share",
                        NEW s \in Stands, NEW j \in Jobs, s \notin haunted' \cup astray', stand'[s].state \in Unfinished,
                        j = StandJob(s)
                 PROVE  Waiting(j)'
      BY <2>8 DEF ShareWaits, StandJob
    <3>1. t # r /\ round[t].running /\ ~round[t].overdue /\ round[t].alive /\ build[t].at = "share" BY <2>3, <2>5, <2>6
    <3>2. GivenUp \ {r} = {} /\ ~round[r].running BY <3>1 DEF GivenUp, Running, IInv, RoundsInv, Orderly
    <3>3. stand' = rows BY <2>3, <3>2, GiveUpOK
    <3>4. ~(Called(r) /\ s = build[r].s)
      <4> SUFFICES ASSUME Called(r), s = build[r].s PROVE FALSE OBVIOUS
      <4>1. s # 0 BY RowsAssumption
      <4> QED BY <1>2, <3>2, <4>1 DEF Called, Haunts
    <3>5. stand[s].state \in Unfinished BY <1>5, <3>3, <3>4 DEF RowsOf, Unfinished
    <3>6. Waiting(j) BY <1>a, <3>1, <3>5 DEF IInv, ShareWaits
    <3> QED BY <2>10, <3>6
  <2>12. Covered'
    <3> SUFFICES ASSUME NEW s \in Stands, NEW j \in Jobs, s \notin haunted' \cup astray', stand'[s].state = "pending",
                        up' # "called", j = StandJob(s)
                 PROVE  Working(j)'
      BY <2>8 DEF Covered, StandJob
    <3>1. rows[s].state = "pending" /\ stand[s].state = "pending" BY <1>5, <2>8 DEF RowsOf
    <3>2. Working(j) BY <1>3, <1>a, <3>1 DEF IInv, Covered, Working
    <3>3. CASE Waiting(j) BY <2>10, <3>3 DEF Working
    <3>4. ASSUME NEW t \in Slots, round[t].running, round[t].job = j PROVE Working(j)'
      <4>1. CASE t = r
        <5>1. ~finished BY <1>5, <3>1, <3>4, <4>1 DEF RowsOf
        <5> QED BY <2>2, <2>4, <3>4, <4>1, <5>1 DEF Working, Waiting
      <4>2. CASE t # r
        <5>a. round[t].job = <<"stand", s, rows[s].name>> /\ t \in Slots \ {r} BY <2>8, <3>4, <4>2 DEF StandJob
        <5>1. ~round[t].overdue
          BY <1>5, <2>3, <3>4, <5>a, CoverAfterKick DEF IInv
        <5> QED BY <2>5, <3>4, <4>2, <5>1 DEF Working
      <4> QED BY <4>1, <4>2
    <3> QED BY <3>2, <3>3, <3>4 DEF Working
  <2> QED BY <2>7, <2>9, <2>11, <2>12
<1>6. CASE RoundTraps(r) /\ UNCHANGED <<stand, build>>
  <2>1. /\ stand' = stand /\ build' = build /\ queue' = queue
        /\ \A t \in Slots : /\ round'[t].job = round[t].job /\ round'[t].running = round[t].running
                            /\ round'[t].alive <=> round[t].alive /\ t # r
    BY <1>6 DEF RoundTraps, IInv, RoundsInv, RoundsOK, Round
  <2>2. RoundFits' BY <2>1 DEF IInv, RoundFits
  <2>3. UpIsCalled' BY <1>1, <1>c, <2>1 DEF IInv, UpIsCalled, Waiting
  <2>4. ShareWaits' BY <1>a, <2>1 DEF IInv, ShareWaits, Waiting, StandJob
  <2>5. Covered'
    <3> SUFFICES ASSUME NEW s \in Stands, NEW j \in Jobs, s \notin haunted' \cup astray', stand[s].state = "pending",
                        up' # "called", j = StandJob(s)
                 PROVE  Working(j)'
      BY <2>1 DEF Covered, StandJob
    <3>1. Working(j) BY <1>3, <1>a DEF IInv, Covered, Working
    <3> QED BY <2>1, <3>1 DEF Working, Waiting
  <2> QED BY <2>2, <2>3, <2>4, <2>5
<1> QED BY <1>1, <1>4, <1>5, <1>6, MoveKinds DEF IInv
-----------------------------------------------------------------------------
(* The other steps *)

\* q is the queue with the job j.
QueuesJob(q, j) ==
  /\ Kept(q)
  /\ j # None => \E k \in DOMAIN q : q[k] = j
  /\ \A k \in DOMAIN q : q[k] = j \/ \E i \in DOMAIN queue : q[k] = queue[i]

\* What a call that schedules the job j leaves of rounds and queue.
LEMMA CallKicks ==
  ASSUME IInv, NEW j, j \in Jobs \/ j = None, Call(j)
  PROVE  /\ RoundsInv'
         /\ \E q : QueuesJob(q, j) /\ Kick(q, armed, ticks, round)
<1> DEFINE q == IF j = None THEN queue ELSE Queued(queue, j)
<1>1. RoundsInv' BY CallOK DEF IInv
<1>2. Kick(q, armed, ticks, round) BY DEF Call
<1>3. CASE j = None
  <2>1. QueuesJob(q, j) BY <1>3 DEF Kept, QueuesJob
  <2> QED BY <1>1, <1>2, <2>1
<1>4. CASE j # None
  <2>1. j \in Jobs /\ queue \in Seq(Jobs) BY <1>4 DEF IInv, RoundsInv, QueueOK
  <2>2. Kept(q) /\ \E k \in DOMAIN q : q[k] = j BY <1>4, <2>1, QueuedOK DEF Kept, IInv, RoundsInv
  <2>3. \A k \in DOMAIN q : q[k] = j \/ \E i \in DOMAIN queue : q[k] = queue[i] BY <1>4, <2>1 DEF Queued
  <2>4. QueuesJob(q, j) BY <2>2, <2>3 DEF QueuesJob
  <2> QED BY <1>1, <1>2, <2>4
<1> QED BY <1>3, <1>4

\* A job is not the absence of one.
LEMMA JobNotNone == ASSUME RowsInv, NEW s \in Stands PROVE StandJob(s) # None
BY StandJobs, NoneAssumption

\* What it leaves of the call of `up`.
LEMMA KickUp ==
  ASSUME IInv, NEW q, Kick(q, armed, ticks, round), up' = up \/ up' = "called",
         \A k \in DOMAIN q : (q[k] = UpJob /\ up' # "new") \/ q[k] # UpJob \/ \E i \in DOMAIN queue : q[k] = queue[i],
         up' # "new" => \A s \in Sheet : stand'[s].state # "absent"
  PROVE  UpIsCalled'
<1>1. /\ queue' = q
      /\ \A r \in Slots :
           /\ round'[r].job = round[r].job /\ round'[r].alive = round[r].alive
           /\ round'[r].running => round[r].running
  BY KickRounds DEF IInv, RoundsInv, Kick
<1>2. up # "new" => up' # "new" OBVIOUS
<1> QED BY <1>1, <1>2 DEF IInv, UpIsCalled, Waiting

\* The rows after the kick every update call begins with.
LEMMA KickedOK ==
  ASSUME RowsInv
  PROVE  /\ Kicked \in [Stands -> Stand]
         /\ \A s \in Stands : /\ Kicked[s].name = stand[s].name /\ Kicked[s].members = stand[s].members
                              /\ Kicked[s].state \in {stand[s].state, "failed"}
BY GiveUpOK DEF Kicked, RowsInv

\* A kick that changes no stand but those it gives up.
LEMMA PlainKick ==
  ASSUME IInv, Kick(queue, armed, ticks, round), faults' = faults, stand' = Kicked,
         UNCHANGED <<canister, chain, up, cursor, build, history, counts>>
  PROVE  IInv'
<1>1. RoundsInv' BY KickOK DEF IInv, RoundsInv
<1>2. /\ stand' \in [Stands -> Stand]
      /\ \A s \in Stands : /\ stand'[s].name = stand[s].name /\ stand'[s].members = stand[s].members
                           /\ stand'[s].state \in {stand[s].state, "failed"}
  BY KickedOK DEF IInv
<1>3. RowsInv' BY <1>2 DEF IInv, RowsInv, chain, history, counts
<1>4. Kept(queue) BY DEF Kept
<1>a. history' = history /\ \A s \in Stands : StandJob(s)' = StandJob(s) BY <1>2 DEF StandJob
<1>5. RoundFits' /\ ShareWaits' /\ Covered'
  BY <1>2, <1>4, <1>a, KickCovers DEF IInv, history
<1>6. UpIsCalled'
  <2>1. up' # "new" => \A s \in Sheet : stand'[s].state # "absent"
    BY <1>2, RowsAssumption DEF IInv, UpIsCalled
  <2> QED BY <2>1, KickUp
<1> QED BY <1>1, <1>3, <1>5, <1>6 DEF IInv

\* The update calls: any call, orchestra_up, stand_create, stand_grow, stand_set.
LEMMA CallSteps ==
  ASSUME IInv, AnyCall \/ OrchestraUp \/ \E s \in Stands : StandCreate(s) \/ StandGrow(s) \/ StandRename(s)
  PROVE  IInv'
<1>a. RowsInv /\ stand \in [Stands -> Stand] BY DEF IInv, RowsInv
<1>1. CASE AnyCall
  <2>1. Kick(queue, armed, ticks, round) BY <1>1 DEF AnyCall, Calls, Call
  <2> QED BY <1>1, <2>1, PlainKick DEF AnyCall, Calls, Call
<1>2. CASE OrchestraUp
  <2> DEFINE starts(s) == Kicked[s].state = "failed" \/ (Kicked[s].state = "absent" /\ s \in Sheet)
             rows == [s \in Stands |-> IF starts(s) THEN [Kicked[s] EXCEPT !.state = "pending"] ELSE Kicked[s]]
  <2>1. /\ Call(UpJob) /\ stand' = rows /\ UNCHANGED <<canister, chain, build>> /\ UNCHANGED history
        /\ up' = "called" /\ cursor' = TRUE
        /\ retries < MaxRetries /\ retries' = retries + 1 /\ UNCHANGED changes
    BY <1>2 DEF OrchestraUp, Calls, Asked
  <2>2. /\ stand' \in [Stands -> Stand]
        /\ \A s \in Stands : /\ stand'[s].name = stand[s].name /\ stand'[s].members = stand[s].members
                             /\ stand'[s].state = IF starts(s) THEN "pending" ELSE Kicked[s].state
    BY <1>a, <2>1, KickedOK DEF Stand
  <2> HIDE DEF rows
  <2>3. RowsInv' BY <1>a, <2>1, <2>2, RowsAssumption DEF RowsInv, chain, history
  <2>a. UpJob \in Jobs BY JobsAssumption
  <2>4. PICK q : QueuesJob(q, UpJob) /\ Kick(q, armed, ticks, round)
    BY <2>1, <2>a, CallKicks
  <2>b. Kept(q) BY <2>4 DEF QueuesJob
  <2>5. RoundsInv' BY <2>1, <2>a, CallKicks
  <2>6. UpIsCalled'
    <3>1. \A s \in Sheet : stand'[s].state # "absent"
      BY <1>a, <2>2, KickedOK, RowsAssumption
    <3> QED BY <2>1, <2>4, <3>1, KickUp DEF QueuesJob
  <2>7. Covered' BY <2>1 DEF Covered
  <2>8. RoundFits' BY <2>1, <2>4, <2>b, KickCovers DEF IInv, history
  <2>9. ShareWaits'
    <3>1. CASE up = "new"
      <4>1. \A r \in Slots : round[r].alive => build[r].at # "share" BY <3>1 DEF IInv, RoundFits, UpIsCalled
      <4>2. \A r \in Slots : round'[r].alive = round[r].alive BY <2>4, KickRounds DEF IInv, RoundsInv
      <4> QED BY <2>1, <4>1, <4>2 DEF ShareWaits
    <3>2. CASE up # "new"
      <4>1. \A s \in Stands : starts(s) => Kicked[s].state \in Unfinished
        <5>1. \A s \in Sheet : Kicked[s].state # "absent" BY <1>a, <3>2, KickedOK, RowsAssumption DEF IInv, UpIsCalled
        <5> QED BY <5>1 DEF Unfinished
      <4>2. \A s \in Stands, j \in Jobs : stand'[s].state \in Unfinished /\ s \notin astray' /\ j = StandJob(s)' =>
              Kicked[s].state \in Unfinished /\ s \notin astray /\ j = StandJob(s)
        BY <2>1, <2>2, <4>1 DEF history, StandJob
      <4> QED BY <2>1, <2>4, <2>b, <4>2, KickCovers DEF IInv, history
    <3> QED BY <3>1, <3>2
  <2> QED BY <2>3, <2>5, <2>6, <2>7, <2>8, <2>9 DEF IInv
<1>3. ASSUME NEW s \in Stands, NEW rows \in [Stands -> Stand], NEW j \in Jobs \cup {None},
             Call(j), stand' = rows, UNCHANGED <<canister, chain, build, up, cursor, haunted>>,
             j # UpJob,
             grown' \in SUBSET Stands, astray' \in SUBSET Stands, left' \in SUBSET Canisters, astray \subseteq astray' \cup {s},
             retries' \in 0..MaxRetries, changes' \in 0..MaxChanges, changes' >= changes,
             \A t \in Stands : t # s => rows[t] = Kicked[t],
             rows[s].state # "absent", rows[s].name <= changes', \A c \in rows[s].members : StandOf[c] = s,
             \/ s \in astray' \/ rows[s].state = "built"
             \/ j = <<"stand", s, rows[s].name>> /\ j # None
      PROVE  IInv'
  <2>1. RowsInv'
    <3>1. \A t \in Stands : stand[t].name \in Nat /\ stand[t].name <= changes /\ \A c \in stand[t].members : StandOf[c] = t
      BY <1>a DEF RowsInv, Stand
    <3>2. changes \in Nat /\ changes' \in Nat /\ changes <= changes' BY <1>a, <1>3, RowsAssumption DEF RowsInv
    <3>3. \A t \in Stands : t # s => stand'[t].name = stand[t].name /\ stand'[t].members = stand[t].members
      BY <1>a, <1>3, KickedOK
    <3>4. \A t \in Stands : t # s => stand'[t].name <= changes' /\ \A c \in stand'[t].members : StandOf[c] = t
      BY <3>1, <3>2, <3>3
    <3>5. stand'[s].name <= changes' /\ \A c \in stand'[s].members : StandOf[c] = s BY <1>3
    <3> QED BY <1>a, <1>3, <3>4, <3>5 DEF RowsInv, chain
  <2>2. RoundsInv' BY <1>3, CallKicks
  <2>3. PICK q : QueuesJob(q, j) /\ Kick(q, armed, ticks, round)
    BY <1>3, CallKicks
  <2>b. Kept(q) BY <2>3 DEF QueuesJob
  <2>4. UpIsCalled'
    <3>1. up' # "new" => \A t \in Sheet : stand'[t].state # "absent"
      BY <1>a, <1>3, KickedOK, RowsAssumption DEF IInv, UpIsCalled
    <3> QED BY <1>3, <2>3, <3>1, KickUp DEF QueuesJob
  <2>5. RoundFits' /\ ShareWaits' /\ Covered'
    <3>1. ASSUME NEW t \in Stands, NEW k \in Jobs, stand'[t].state \in Unfinished, t \notin astray', k = StandJob(t)'
          PROVE  (\E i \in DOMAIN q : q[i] = k) \/ (stand'[t] = Kicked[t] /\ t \notin astray /\ k = StandJob(t))
      <4>1. CASE t = s
        <5>1. j = k /\ j # None BY <1>3, <3>1, <4>1 DEF StandJob, Unfinished
        <5> QED BY <2>3, <5>1 DEF QueuesJob
      <4>2. CASE t # s
        <5>1. stand'[t] = Kicked[t] /\ t \notin astray BY <1>3, <3>1, <4>2
        <5>2. stand'[t].name = stand[t].name BY <1>a, <5>1, KickedOK
        <5> QED BY <3>1, <5>1, <5>2 DEF StandJob
      <4> QED BY <4>1, <4>2
    <3>2. \A t \in Stands : stand'[t].state = "pending" => stand'[t].state \in Unfinished BY DEF Unfinished
    <3> QED BY <1>3, <2>3, <2>b, <3>1, <3>2, KickCovers DEF IInv
  <2> QED BY <2>1, <2>2, <2>4, <2>5 DEF IInv
<1>4. ASSUME NEW s \in Stands, NEW more \in SUBSET Growth(s), Grow(s, more), Asked, UNCHANGED <<up, cursor>>
      PROVE  IInv'
  <2> DEFINE rows == [Kicked EXCEPT ![s].state = "pending", ![s].members = @ \cup more]
  <2>1. rows \in [Stands -> Stand] /\ rows[s].state = "pending" /\ rows[s].name = stand[s].name
        /\ rows[s].members = stand[s].members \cup more /\ \A t \in Stands : t # s => rows[t] = Kicked[t]
    <3>1. more \subseteq Canisters BY DEF Growth, Own
    <3> QED BY <1>a, <3>1, KickedOK, ZenonT(40) DEF Stand
  <2>2. Call(StandJob(s)) /\ stand' = rows /\ UNCHANGED <<canister, chain, build, up, cursor, haunted>>
        /\ retries' \in 0..MaxRetries /\ changes' = changes
        /\ grown' \in SUBSET Stands /\ astray' = astray \ {s} /\ astray' \in SUBSET Stands /\ left' \in SUBSET Canisters
    <3>1. Call(StandJob(s)) /\ stand' = rows /\ UNCHANGED <<canister, chain, build>> BY <1>4 DEF Grow, Calls
    <3> HIDE DEF rows
    <3> QED BY <1>4, <1>a, <3>1, RowsAssumption DEF Grow, Asked, RowsInv
  <2>3. StandJob(s) \in Jobs /\ StandJob(s) # UpJob /\ StandJob(s) # None /\ StandJob(s) = <<"stand", s, rows[s].name>>
    BY <1>a, <2>1, StandJobs, JobNotNone DEF StandJob
  <2>4. \A c \in rows[s].members : StandOf[c] = s BY <1>a, <2>1 DEF RowsInv, Growth, Own
  <2>5. stand[s].name <= changes BY <1>a DEF RowsInv
  <2> HIDE DEF rows
  <2>6. PICK j : j = StandJob(s) OBVIOUS
  <2> QED BY <1>a, <1>3, <2>1, <2>2, <2>3, <2>4, <2>5, <2>6 DEF RowsInv
<1>5. ASSUME NEW s \in Stands, StandCreate(s) \/ StandGrow(s) PROVE IInv'
  <2>1. Asked /\ UNCHANGED <<up, cursor>> /\ \E more \in SUBSET Growth(s) : Grow(s, more)
    BY <1>5 DEF StandCreate, StandGrow
  <2> QED BY <1>4, <2>1
<1>6. ASSUME NEW s \in Stands, StandRename(s) PROVE IInv'
  <2> DEFINE rows == [Kicked EXCEPT ![s].name = @ + 1]
  <2>1. Call(None) /\ stand' = rows /\ UNCHANGED <<canister, chain, build, up, cursor, grown, haunted, retries>>
        /\ changes < MaxChanges /\ changes' = changes + 1
        /\ astray' = (IF Kicked[s].state = "built" THEN astray ELSE astray \cup {s})
        /\ left' = left \cup {c \in stand[s].members : ~There(c)}
    BY <1>6 DEF StandRename, Calls
  <2>2. stand[s].name <= changes /\ stand[s].name \in Nat /\ stand[s].name + 1 \in 0..MaxChanges /\ changes' \in 0..MaxChanges
    BY <1>a, <2>1, RowsAssumption DEF RowsInv, Stand
  <2>3. rows \in [Stands -> Stand] /\ rows[s].name = stand[s].name + 1 /\ rows[s].state = Kicked[s].state
        /\ rows[s].members = stand[s].members /\ \A t \in Stands : t # s => rows[t] = Kicked[t]
    BY <1>a, <2>2, KickedOK DEF Stand
  <2>4. rows[s].state # "absent" BY <1>6, <1>a, <2>3, KickedOK DEF StandRename
  <2>5. None # UpJob BY NoneAssumption, JobsAssumption
  <2>6. grown' \in SUBSET Stands /\ astray' \in SUBSET Stands /\ left' \in SUBSET Canisters BY <1>a, <2>1 DEF RowsInv, Stand
  <2>7. \A c \in rows[s].members : StandOf[c] = s BY <1>a, <2>3 DEF RowsInv
  <2> HIDE DEF rows
  <2>8. changes' >= changes /\ rows[s].name <= changes' BY <1>a, <2>1, <2>2, <2>3, RowsAssumption DEF RowsInv
  <2>9. astray \subseteq astray' \cup {s} /\ (s \in astray' \/ rows[s].state = "built") BY <2>1, <2>3
  <2>10. retries' \in 0..MaxRetries BY <1>a, <2>1 DEF RowsInv
  <2> QED BY <1>3, <2>1, <2>2, <2>3, <2>4, <2>5, <2>6, <2>7, <2>8, <2>9, <2>10
<1> QED BY <1>1, <1>2, <1>5, <1>6

\* A step that leaves jobs and positions, and ends no running round, keeps the stands
\* covered.
LEMMA RoundsChange ==
  ASSUME IInv, RoundsInv', queue' = queue, ChainOK',
         \A t \in Slots : /\ round'[t].job = round[t].job /\ round'[t].running = round[t].running
                          /\ round'[t].alive => round[t].alive,
         UNCHANGED <<stand, canister, up, cursor, build, history, counts>>
  PROVE  IInv'
<1>0. /\ stand' = stand /\ canister' = canister /\ up' = up /\ cursor' = cursor /\ build' = build
      /\ grown' = grown /\ haunted' = haunted /\ astray' = astray /\ left' = left /\ retries' = retries /\ changes' = changes /\ queue' = queue
  BY DEF history, counts
<1>a. \A t \in Slots : /\ round'[t].job = round[t].job /\ round'[t].running = round[t].running
                       /\ round'[t].alive => round[t].alive
  OBVIOUS
<1>1. RowsInv' BY <1>0 DEF IInv, RowsInv, ChainOK
<1>2. RoundFits' BY <1>0, <1>a DEF IInv, RoundFits
<1>3. UpIsCalled' BY <1>0, <1>a DEF IInv, UpIsCalled, Waiting
<1>4. ShareWaits' BY <1>0, <1>a DEF IInv, ShareWaits, Waiting, StandJob
<1>5. Covered' BY <1>0, <1>a DEF IInv, Covered, Working, Waiting, StandJob
<1> QED BY <1>1, <1>2, <1>3, <1>4, <1>5 DEF IInv

\* A timer starts a round: what waited in the queue is now worked on.
LEMMA TickStep == ASSUME IInv, Tick1 PROVE IInv'
<1> DEFINE r == CHOOSE s \in Slots : Vacant(s)
<1>1. /\ Tick(r) /\ build' = [build EXCEPT ![r] = Start]
      /\ UNCHANGED <<stand, canister, chain, up, cursor, history, counts>>
  BY DEF Tick1
<1>2. Running = {} /\ queue # <<>> BY <1>1 DEF Tick, MayStart
<1>3. r \in Slots BY <1>2, RoomForOne DEF IInv
<1> HIDE DEF r
<1>4. RoundsInv' BY <1>1, <1>3, TickOK DEF IInv
<1>5. Start \in Position /\ Start.at = "commit" BY DEF Start, Position
<1>6. /\ build' \in [Slots -> Position]
      /\ build'[r].at = "commit" /\ \A t \in Slots : t # r => build'[t] = build[t]
  BY <1>1, <1>3, <1>5 DEF IInv, RowsInv
<1>7. RowsInv' BY <1>1, <1>6 DEF IInv, RowsInv, chain, history, counts
<1>8. /\ queue' = Tail(queue) /\ Head(queue) \in Jobs
      /\ round'[r].job = Head(queue) /\ round'[r].running /\ round'[r].alive
      /\ \A t \in Slots : t # r => round'[t] = round[t]
      /\ \A t \in Slots : ~round[t].running
  BY <1>1, <1>2, <1>3, TailOK DEF Tick, Running, IInv, RoundsInv, RoundsOK
<1>9. RoundFits' BY <1>6, <1>8 DEF IInv, RoundFits
<1>b. UNCHANGED <<stand, haunted, astray>> /\ \A s \in Stands : StandJob(s)' = StandJob(s) BY <1>1 DEF history, StandJob
<1>10. ShareWaits' BY <1>6, <1>8, <1>b DEF IInv, ShareWaits
<1>11. ASSUME NEW j, Waiting(j) PROVE Waiting(j)' \/ j = Head(queue)
  BY <1>2, <1>8, <1>11, TailOK DEF Waiting, IInv, RoundsInv
<1>12. ASSUME NEW j, Waiting(j)' \/ j = Head(queue) PROVE Waiting(j)
  <2>1. queue \in Seq(Jobs) BY DEF IInv, RoundsInv, QueueOK
  <2>2. /\ Head(queue) = queue[1] /\ 1 \in DOMAIN queue
        /\ \A i \in DOMAIN Tail(queue) : i + 1 \in DOMAIN queue /\ Tail(queue)[i] = queue[i + 1]
    BY <1>2, <2>1
  <2> QED BY <1>8, <1>12, <2>2 DEF Waiting
<1>13. UpIsCalled'
  <2>1. ASSUME Waiting(UpJob)' PROVE up # "new" BY <1>12, <2>1 DEF IInv, UpIsCalled
  <2>2. ASSUME NEW t \in Slots, round'[t].alive \/ round'[t].running, round'[t].job = UpJob PROVE up # "new"
    <3>1. CASE t = r BY <1>8, <1>12, <2>2, <3>1 DEF IInv, UpIsCalled
    <3>2. CASE t # r BY <1>8, <2>2, <3>2 DEF IInv, UpIsCalled
    <3> QED BY <3>1, <3>2
  <2> QED BY <1>1, <2>1, <2>2 DEF IInv, UpIsCalled
<1>14. Covered'
  <2> SUFFICES ASSUME NEW s \in Stands, NEW j \in Jobs, s \notin haunted \cup astray, stand[s].state = "pending",
                      up # "called", j = StandJob(s)
               PROVE  Working(j)'
    BY <1>1, <1>b DEF Covered
  <2>1. Waiting(j) BY <1>8 DEF IInv, Covered, Working
  <2> QED BY <1>3, <1>8, <1>11, <2>1 DEF Working
<1> QED BY <1>4, <1>7, <1>9, <1>10, <1>13, <1>14 DEF IInv

\* Timers that come late, twice or never, and rounds that are lost.
LEMMA TimerSteps ==
  ASSUME IInv, NEW r \in Slots, Spare \/ Stale \/ Late(r) \/ Unwatched(r) \/ LoseRound(r)
  PROVE  IInv'
<1>0. ASSUME UNCHANGED chain PROVE ChainOK' BY <1>0 DEF IInv, RowsInv, ChainOK, chain
<1>1. CASE Spare
  <2>1. RoundsInv' BY <1>1 DEF Spare, SpareTick, IInv, RoundsInv
  <2> QED BY <1>0, <1>1, <2>1, RoundsChange DEF Spare, SpareTick, Quiet
<1>2. CASE Stale
  <2>1. RoundsInv' BY <1>2, FaultsAssumption DEF Stale, TimerStale, Fault, IInv, RoundsInv
  <2> QED BY <1>0, <1>2, <2>1, RoundsChange DEF Stale, TimerStale, Quiet
<1>3. CASE Late(r)
  <2>1. RoundsInv' BY <1>3, OutlastOK DEF Late, IInv
  <2>2. \A t \in Slots : /\ round'[t].job = round[t].job /\ round'[t].running = round[t].running
                         /\ round'[t].alive => round[t].alive
    BY <1>3 DEF Late, OutlastWatchdog, IInv, RoundsInv, RoundsOK, Round
  <2> QED BY <1>0, <1>3, <2>1, <2>2, RoundsChange DEF Late, OutlastWatchdog, Quiet
<1>4. CASE Unwatched(r)
  <2>1. RoundsInv' BY <1>4, DropWatchdogOK DEF Unwatched, IInv
  <2>2. \A t \in Slots : /\ round'[t].job = round[t].job /\ round'[t].running = round[t].running
                         /\ round'[t].alive => round[t].alive
    BY <1>4 DEF Unwatched, DropWatchdog, IInv, RoundsInv, RoundsOK, Round
  <2> QED BY <1>0, <1>4, <2>1, <2>2, RoundsChange DEF Unwatched, DropWatchdog, Quiet
<1>5. CASE LoseRound(r)
  <2>1. RoundTraps(r) /\ faults' \in 0..MaxFaults
    BY <1>5, FaultsAssumption DEF LoseRound, RoundDies, Fault, IInv, RoundsInv
  <2>2. RoundsInv' BY <2>1, RoundTrapsOK DEF IInv
  <2>3. ChainOK'
    <3>1. CASE UNCHANGED chain BY <1>0, <3>1
    <3>2. CASE ~UNCHANGED chain
      BY <1>5, <3>2, DoneOK DEF LoseRound, Called, ChainOK, IInv
    <3> QED BY <3>1, <3>2
  <2>4. \A t \in Slots : /\ round'[t].job = round[t].job /\ round'[t].running = round[t].running
                         /\ round'[t].alive => round[t].alive
    BY <2>1 DEF RoundTraps, IInv, RoundsInv, RoundsOK, Round
  <2> QED BY <1>5, <2>1, <2>2, <2>3, <2>4, RoundsChange DEF LoseRound, RoundTraps
<1> QED BY <1>1, <1>2, <1>3, <1>4, <1>5

\* The watchdog's timer fires.
LEMMA WatchdogStep == ASSUME IInv, NEW r \in Slots, WatchdogFires(r) PROVE IInv'
BY PlainKick DEF WatchdogFires, Watchdog

\* What resume schedules: a job for every pending stand.
LEMMA PendingJobsOK ==
  ASSUME RowsInv
  PROVE  /\ QueueOK(PendingJobs)
         /\ \A s \in Pending : \E i \in DOMAIN PendingJobs : PendingJobs[i] = StandJob(s)
         /\ (\E i \in DOMAIN PendingJobs : PendingJobs[i] = UpJob) => up # "new"
         /\ \A i \in DOMAIN PendingJobs : PendingJobs[i] = UpJob \/ \E s \in Pending : PendingJobs[i] = StandJob(s)
<1> DEFINE S == {StandJob(s) : s \in Pending}
           q == SetToSeq(S)
<1>1. IsFiniteSet(S)
  <2>1. IsFiniteSet(Pending) BY RowsAssumption, FS_Subset DEF Pending
  <2>2. [s \in Pending |-> StandJob(s)] \in Surjection(Pending, S) BY DEF Surjection
  <2> QED BY <2>1, <2>2, FS_Surjection
<1>2. S \subseteq Jobs /\ UpJob \notin S BY StandJobs DEF Pending
<1>3. q \in Seq(S) /\ IsInjective(q) /\ \A x \in S : \E i \in DOMAIN q : q[i] = x
  <2> HIDE DEF S
  <2> QED BY <1>1, SetToSeqLists
<1>4. \A s \in Pending : StandJob(s) \in S OBVIOUS
<1>5. PendingJobs = q \o (IF up = "called" THEN <<UpJob>> ELSE <<>>) BY DEF PendingJobs
<1>b. \A x \in S : \E s \in Pending : x = StandJob(s) OBVIOUS
<1> HIDE DEF S, q
<1>6. /\ q \in Seq(Jobs) /\ \A i \in DOMAIN q : q[i] # UpJob
      /\ \A i \in DOMAIN q : \E s \in Pending : q[i] = StandJob(s)
  BY <1>2, <1>3, <1>b
<1>7. CASE up = "called"
  <2>1. PendingJobs = q \o <<UpJob>> BY <1>5, <1>7
  <2>2. /\ PendingJobs \in Seq(Jobs) /\ Len(q) \in Nat /\ DOMAIN q = 1..Len(q)
        /\ DOMAIN PendingJobs = 1..(Len(q) + 1)
        /\ \A i \in 1..Len(q) : PendingJobs[i] = q[i]
        /\ PendingJobs[Len(q) + 1] = UpJob
    BY <1>6, <2>1, JobsAssumption
  <2>3. IsInjective(PendingJobs)
    <3> SUFFICES ASSUME NEW a \in DOMAIN PendingJobs, NEW b \in DOMAIN PendingJobs, PendingJobs[a] = PendingJobs[b]
                 PROVE  a = b
      BY DEF IsInjective
    <3>1. (a \in 1..Len(q) \/ a = Len(q) + 1) /\ (b \in 1..Len(q) \/ b = Len(q) + 1) BY <2>2
    <3> QED BY <1>3, <1>6, <2>2, <3>1 DEF IsInjective
  <2>4. \A i \in DOMAIN PendingJobs : PendingJobs[i] = UpJob \/ \E s \in Pending : PendingJobs[i] = StandJob(s)
    BY <1>6, <2>2
  <2>5. \A s \in Pending : \E i \in DOMAIN PendingJobs : PendingJobs[i] = StandJob(s) BY <1>3, <1>4, <2>2
  <2> QED BY <1>7, <2>2, <2>3, <2>4, <2>5 DEF QueueOK
<1>8. CASE up # "called"
  <2>1. PendingJobs = q BY <1>5, <1>6, <1>8
  <2> QED BY <1>3, <1>4, <1>6, <2>1 DEF QueueOK
<1> QED BY <1>7, <1>8

\* An upgrade of the conductor: resume schedules what main memory forgot.
LEMMA UpgradeStep == ASSUME IInv, UpgradeConductor PROVE IInv'
<1> DEFINE none == [s \in Slots |-> NoRound]
<1>1. /\ Kick(PendingJobs, "no", 0, none) /\ faults' = faults
      /\ UNCHANGED <<stand, canister, up, cursor, build, grown, haunted, left, retries>> /\ astray' = {}
      /\ changes < MaxChanges /\ changes' = changes + 1
  BY DEF UpgradeConductor, Upgrade
<1>2. RoundsOK(none) /\ Orderly(none) /\ HasRoom(none) BY NoRoundsOK
<1>3. \A s \in Slots : none[s] = NoRound /\ ~NoRound.alive /\ ~NoRound.running BY DEF NoRound
<1> HIDE DEF none
<1>4. RowsInv BY DEF IInv
<1>5. RoundsInv' BY <1>1, <1>2, <1>4, PendingJobsOK, KickOK DEF IInv, RoundsInv
<1>6. \A s \in Slots : ~round'[s].alive /\ ~round'[s].running BY <1>1, <1>2, <1>3, KickRounds
<1>7. queue' = PendingJobs BY <1>1 DEF Kick
<1>8. ChainOK'
  <2>1. CASE UNCHANGED chain BY <2>1, <1>4 DEF RowsInv, ChainOK, chain
  <2>2. ASSUME NEW r \in Alive, build[r].at \notin {"commit", "share"}, Done(r) PROVE ChainOK'
    BY <1>4, <2>2, DoneOK DEF Alive, Called, ChainOK
  <2> QED BY <2>1, <2>2 DEF UpgradeConductor
<1>9. RowsInv'
  <2>1. changes' \in 0..MaxChanges /\ \A s \in Stands : stand'[s].name <= changes'
    BY <1>1, <1>4, RowsAssumption DEF RowsInv, Stand
  <2> QED BY <1>1, <1>4, <1>8, <2>1 DEF RowsInv, ChainOK
<1>10. RoundFits' /\ ShareWaits' BY <1>6 DEF RoundFits, ShareWaits
<1>11. UpIsCalled'
  <2>1. Waiting(UpJob)' => up # "new" BY <1>4, <1>7, PendingJobsOK DEF Waiting
  <2> QED BY <1>1, <1>6, <2>1 DEF IInv, UpIsCalled
<1>12. Covered'
  <2> SUFFICES ASSUME NEW s \in Stands, NEW j \in Jobs, stand[s].state = "pending", j = StandJob(s)
               PROVE  Waiting(j)'
    BY <1>1 DEF Covered, Working, StandJob
  <2>1. s \in Pending BY DEF Pending
  <2> QED BY <1>4, <1>7, <2>1, PendingJobsOK DEF Waiting
<1> QED BY <1>5, <1>9, <1>10, <1>11, <1>12 DEF IInv
-----------------------------------------------------------------------------
\* The conductor starts in the invariant,
LEMMA InitIInv == Init => IInv
<1> SUFFICES ASSUME Init PROVE IInv OBVIOUS
<1> USE DEF Init, RoundsInit
<1>1. RoundsInv BY NoRoundsOK, FaultsAssumption DEF RoundsInv, QueueOK, IsInjective
<1>2. RowsInv
  <2>1. stand \in [Stands -> Stand] BY RowsAssumption DEF Stand
  <2>2. canister \in [Canisters -> Canister] BY DEF Canister
  <2>3. build \in [Slots -> Position] BY DEF Position, Start
  <2>4. up = "new" /\ cursor = FALSE /\ retries = 0 /\ changes = 0 /\ grown = {} /\ haunted = {} /\ astray = {} /\ left = {} OBVIOUS
  <2>5. ChainOK BY RowsAssumption DEF ChainOK
  <2>6. \A s \in Stands : stand[s].name = 0 /\ stand[s].members = {} OBVIOUS
  <2>7. \A r \in Slots : build[r].at = "commit" BY DEF Start
  <2>8. 0 \in 0..MaxRetries /\ 0 \in 0..MaxChanges BY RowsAssumption
  <2>9. grown \cup haunted \cup astray \subseteq Stands /\ left \subseteq Canisters BY <2>4
  <2>10. \A s \in Stands : stand[s].name <= changes /\ \A c \in stand[s].members : StandOf[c] = s
    BY <2>4, <2>6
  <2> HIDE DEF Init
  <2> QED BY <2>1, <2>2, <2>3, <2>4, <2>5, <2>7, <2>8, <2>9, <2>10 DEF RowsInv, ChainOK
<1>3. RoundFits /\ UpIsCalled /\ ShareWaits /\ Covered
  BY DEF RoundFits, UpIsCalled, ShareWaits, Covered, NoRound, Waiting
<1> QED BY <1>1, <1>2, <1>3 DEF IInv

\* and every step keeps it.
LEMMA NextIInv == IInv /\ [Next]_vars => IInv'
<1> SUFFICES ASSUME IInv, [Next]_vars PROVE IInv' OBVIOUS
<1>1. CASE Tick1 BY <1>1, TickStep
<1>2. CASE Spare \/ Stale BY <1>2, SlotsAssumption, TimerSteps
<1>3. ASSUME NEW r \in Slots, RoundGoesOn(r) PROVE IInv'
  BY <1>3, MoveTypes, MoveCovers DEF IInv
<1>4. ASSUME NEW r \in Slots, LoseRound(r) \/ Late(r) \/ Unwatched(r) PROVE IInv'
  BY <1>4, TimerSteps
<1>5. ASSUME NEW r \in Slots, WatchdogFires(r) PROVE IInv'
  BY <1>5, WatchdogStep
<1>6. CASE AnyCall \/ OrchestraUp \/ \E s \in Stands : StandCreate(s) \/ StandGrow(s) \/ StandRename(s)
  BY <1>6, CallSteps
<1>7. CASE UpgradeConductor BY <1>7, UpgradeStep
<1>8. CASE UNCHANGED vars
  <2>1. RoundsInv' BY <1>8 DEF vars, roundVars, IInv, RoundsInv
  <2> QED BY <1>8, <2>1, RoundsChange DEF vars, roundVars, IInv, RowsInv, ChainOK, chain
<1> QED BY <1>1, <1>2, <1>3, <1>4, <1>5, <1>6, <1>7, <1>8 DEF Next

\* The builds are type correct.
THEOREM TypeCorrect == Spec => []TypeOK
<1>1. IInv => TypeOK BY TypesHold DEF IInv
<1> QED BY <1>1, InitIInv, NextIInv, PTL DEF Spec

\* The conductor runs one round at a time, and two live rounds are there only when one
\* outlasted its watchdog, whatever timers are dropped and rounds lost.
THEOREM RoundsDoNotOverlap == Spec => []OneRoundAtATime
<1>1. IInv => OneRoundAtATime BY RoundsAreOne DEF IInv
<1> QED BY <1>1, InitIInv, NextIInv, PTL DEF Spec

\* A stand that shows as pending has a job that builds it, or the sheet has: no order of
\* calls, lost rounds, dropped timers and upgrades leaves one that nobody builds, but for
\* one renamed before it was built and not asked for since, and one that a given-up round
\* came back to.  Those two the code really leaves.
THEOREM NothingLeftPending == Spec => []PendingIsCovered
<1>1. IInv => PendingIsCovered BY StandJobs DEF IInv, Covered, PendingIsCovered, Pending
<1> QED BY <1>1, InitIInv, NextIInv, PTL DEF Spec
-----------------------------------------------------------------------------
(* What shows as built is whole *)

\* Before a canister is on the chain and installed.
Making == {"create", "install", "status", "settings"}
\* After all of a stand's canisters are on the chain and installed.
Finishing == {"sync", "config", "controllers"}

\* What is left of a row's content is no more than there was, and a member asked for
\* under an older name has a row, or was left without one by a rename.
RowsKept ==
  /\ \A c \in Canisters : files[c] <= Files[c]
  /\ \A s \in Stands : \A c \in stand[s].members : NameOf[c] = stand[s].name \/ There(c) \/ c \in left

\* What the status of a row says is so.
RowTrue(c) ==
  /\ canister[c].status \in {"installed", "ready"} => OnIC(c) \in filled
  /\ canister[c].status = "ready" => files[c] = 0 /\ (c \in HandedAway => OnIC(c) \in handed)

\* Every template row a stand always gets has a row, and so has every member it was
\* asked for.
Complete(s) ==
  /\ \A c \in Own(s) \ Optional : \E d \in Own(s) : RowOf[d] = RowOf[c] /\ There(d)
  /\ \A c \in stand[s].members \ left : There(c)

\* A round that waits for a call began by adding the rows.
Begun(r) ==
  /\ StandOf[build[r].c] = build[r].s /\ There(build[r].c)
  /\ build[r].s \notin grown => Complete(build[r].s)

\* How far the stand is where a round waits: files are synced in the order of the
\* canisters.
AsFar(s, c, at) ==
  /\ at \in Making => canister[c].status = "created"
  /\ at \in {"status", "settings"} => OnIC(c) \in filled
  /\ at \in Finishing =>
       /\ canister[c].status = "installed"
       /\ \A d \in Canisters : StandOf[d] = s =>
            /\ canister[d].status # "created"
            /\ canister[d].status = "installed" => files[d] = 0 \/ (at = "sync" /\ d >= c)
\* The stand of round r is as far as that.
FarAsBuilt(r) == AsFar(build[r].s, build[r].c, build[r].at)

\* Nothing is missing, and every row is ready.
AllReady(s) == Complete(s) /\ \A c \in Own(s) : There(c) => canister[c].status = "ready"

\* A build of the job is still to begin.
Due(j) == Waiting(j) \/ \E t \in Slots : round[t].alive /\ build[t].at = "commit" /\ round[t].job = j
\* The running round is at stand s.
HeldNow(s) == \E r \in Slots : round[r].alive /\ round[r].running /\ Called(r) /\ build[r].s = s

\* A build that is to begin for a stand that is built, or being built, adds no row.
RowsDue ==
  \A s \in Stands, j \in Jobs :
    /\ j = StandJob(s) /\ Undisturbed(s) /\ Due(j)
    /\ stand[s].state = "built" \/ HeldNow(s)
    => \A c \in Members(s) : There(c)

\* The invariant, of the stands that were not asked for more under a build and not come
\* back to by a round given up.
WholeInv ==
  /\ RowsKept /\ RowsDue
  /\ \A c \in Canisters : Undisturbed(StandOf[c]) => RowTrue(c)
  /\ \A r \in Slots : round[r].alive /\ Called(r) => Begun(r)
  /\ \A r \in Slots : round[r].alive /\ round[r].running /\ Called(r) /\ Undisturbed(build[r].s) => FarAsBuilt(r)
  /\ \A s \in Stands : stand[s].state = "built" /\ Undisturbed(s) => AllReady(s)

\* What a call does to the chain only adds code and controllers, and sends files.
ChainGrows ==
  /\ filled \subseteq filled' /\ handed \subseteq handed'
  /\ \A c \in Canisters : files'[c] \in Nat /\ files'[c] <= files[c]

\* So does what comes of a round's call ...
LEMMA DoneGrows ==
  ASSUME RowsInv, NEW r \in Slots, Called(r), Done(r)
  PROVE  ChainGrows
<1>1. build[r].c \in Canisters /\ files \in [Canisters -> Nat] BY DEF RowsInv, Called
<1>2. filled \subseteq filled' /\ handed \subseteq handed' BY DEF Done
<1>3. files' = (IF build[r].at = "sync" /\ files[build[r].c] > 0
                THEN [files EXCEPT ![build[r].c] = @ - 1] ELSE files)
  BY DEF Done
<1>4. \A c \in Canisters : files'[c] \in Nat /\ files'[c] <= files[c] BY <1>1, <1>3
<1> QED BY <1>2, <1>4 DEF ChainGrows

\* ... and what leaves the chain alone.
LEMMA SameChain == ASSUME RowsInv, UNCHANGED chain PROVE ChainGrows
<1>1. filled' = filled /\ handed' = handed /\ files' = files /\ files \in [Canisters -> Nat] BY DEF RowsInv, chain
<1> QED BY <1>1 DEF ChainGrows

\* A row that is left alone stays true.
LEMMA StaysTrue ==
  ASSUME RowsInv, ChainGrows, NEW c \in Canisters, canister'[c].status = canister[c].status,
         canister'[c].id = canister[c].id, RowTrue(c)
  PROVE  RowTrue(c)'
<1>1. files[c] \in Nat /\ files'[c] \in Nat /\ files'[c] <= files[c] BY DEF RowsInv, ChainGrows
<1>2. files[c] = 0 => files'[c] = 0 BY <1>1
<1>3. OnIC(c)' = OnIC(c) BY DEF OnIC
<1>4. (OnIC(c) \in filled => OnIC(c)' \in filled') /\ (OnIC(c) \in handed => OnIC(c)' \in handed')
  BY <1>3 DEF ChainGrows
<1> QED BY <1>2, <1>4 DEF RowTrue

\* So is how far a round is, if its stand's rows are left alone.
LEMMA StaysAsFar ==
  ASSUME RowsInv, ChainGrows, NEW s \in Stands, NEW c \in Canisters, StandOf[c] = s, NEW at,
         \A d \in Canisters : StandOf[d] = s => canister'[d].status = canister[d].status /\ canister'[d].id = canister[d].id,
         AsFar(s, c, at)
  PROVE  AsFar(s, c, at)'
<1>1. \A d \in Canisters : files[d] \in Nat /\ files'[d] \in Nat /\ files'[d] <= files[d] BY DEF RowsInv, ChainGrows
<1>2. \A d \in Canisters : files[d] = 0 => files'[d] = 0 BY <1>1
<1>3. OnIC(c)' = OnIC(c) BY DEF OnIC
<1>4. OnIC(c) \in filled => OnIC(c)' \in filled' BY <1>3 DEF ChainGrows
<1> QED BY <1>2, <1>4 DEF AsFar

\* Nothing goes missing where rows stay and what is asked for has rows.
LEMMA StaysComplete ==
  ASSUME NEW s, Complete(s), \A c \in Canisters : There(c) => There(c)', left \subseteq left',
         stand[s].members \subseteq Canisters,
         \A c \in stand'[s].members : c \in stand[s].members \/ There(c)'
  PROVE  Complete(s)'
<1>1. Own(s)' = Own(s) /\ Own(s) \subseteq Canisters BY DEF Own
<1>2. \A c \in Own(s) \ Optional : \E d \in Own(s) : RowOf[d] = RowOf[c] /\ There(d)' BY <1>1 DEF Complete
<1>3. \A c \in stand'[s].members \ left' : There(c)' BY DEF Complete
<1> QED BY <1>1, <1>2, <1>3 DEF Complete

\* A step that leaves the rows of canisters alone keeps the invariant, if no round
\* waits anew, no stand becomes built, and one that is held is asked for more only as
\* grown.
LEMMA RowsLeftAlone ==
  ASSUME IInv, WholeInv, RowsInv', ChainGrows, canister' = canister,
         grown \subseteq grown', haunted \subseteq haunted', left \subseteq left',
         \A t \in Slots : round'[t].alive /\ build'[t].at \notin {"commit", "share"} =>
           /\ round[t].alive /\ build'[t] = build[t] /\ (round'[t].running => round[t].running)
           /\ build[t].s \in grown' \/ \A c \in stand'[build[t].s].members : c \in stand[build[t].s].members \/ There(c),
         \A s \in Stands : stand'[s].state = "built" => stand[s].state = "built" /\ stand'[s].members = stand[s].members,
         \A s \in Stands : \A c \in stand'[s].members : NameOf[c] = stand'[s].name \/ There(c) \/ c \in left',
         \A s \in Stands, j \in Jobs :
           j = StandJob(s)' /\ Undisturbed(s)' /\ Due(j)' /\ (stand'[s].state = "built" \/ HeldNow(s)') =>
             \/ j = StandJob(s) /\ Due(j) /\ stand'[s].members = stand[s].members
             \/ \A c \in Members(s)' : There(c)
  PROVE  WholeInv'
<1>0. RowsInv BY DEF IInv
<1>1. \A c \in Canisters : files[c] \in Nat /\ files'[c] \in Nat /\ files'[c] <= files[c] /\ Files[c] \in Nat /\ StandOf[c] \in Stands
  BY <1>0, RowsAssumption DEF RowsInv, ChainGrows
<1>a. \A c : There(c)' = There(c) BY DEF There
<1>b. \A s \in Stands : stand[s].members \subseteq Canisters BY <1>0 DEF RowsInv, Stand
<1>2. RowsKept'
  <2>1. \A c \in Canisters : files'[c] <= Files[c]
    <3>1. \A c \in Canisters : files[c] <= Files[c] BY DEF WholeInv, RowsKept
    <3> QED BY <1>1, <3>1
  <2> QED BY <1>a, <2>1 DEF RowsKept
<1>3. \A s : Undisturbed(s)' => Undisturbed(s) BY DEF Undisturbed
<1>4. \A c \in Canisters : Undisturbed(StandOf[c])' => RowTrue(c)'
  BY <1>0, <1>3, StaysTrue DEF WholeInv
<1>5. ASSUME NEW t \in Slots, round'[t].alive, Called(t)' PROVE Begun(t)'
  <2>1. round[t].alive /\ build'[t] = build[t] /\ Called(t)
    BY <1>5 DEF Called
  <2>2. Begun(t) /\ build[t].s \in Stands BY <1>0, <2>1 DEF WholeInv, RowsInv, Called
  <2>3. PICK s : s = build[t].s OBVIOUS
  <2>4. s \in grown' \/ \A c \in stand'[s].members : c \in stand[s].members \/ There(c)' BY <1>5, <1>a, <2>1, <2>3 DEF Called
  <2>5. s \notin grown' => Complete(s)' BY <1>a, <1>b, <2>2, <2>3, <2>4, StaysComplete DEF Begun
  <2> QED BY <1>a, <2>1, <2>2, <2>3, <2>5 DEF Begun
<1>6. ASSUME NEW t \in Slots, round'[t].alive, round'[t].running, Called(t)', Undisturbed(build[t].s)'
      PROVE  FarAsBuilt(t)'
  <2>1. round[t].alive /\ round[t].running /\ build'[t] = build[t] /\ Called(t) BY <1>6 DEF Called
  <2>2. PICK s, c, at : s = build[t].s /\ c = build[t].c /\ at = build[t].at OBVIOUS
  <2>3. Undisturbed(s) BY <1>6, <2>1, <2>2 DEF Undisturbed
  <2>4. AsFar(s, c, at) /\ StandOf[c] = s BY <2>1, <2>2, <2>3 DEF WholeInv, FarAsBuilt, Begun
  <2>5. s \in Stands /\ c \in Canisters BY <1>0, <2>1, <2>2 DEF RowsInv, Called
  <2>6. AsFar(s, c, at)' BY <1>0, <2>4, <2>5, StaysAsFar
  <2> QED BY <2>1, <2>2, <2>6 DEF FarAsBuilt
<1>7. ASSUME NEW s \in Stands, stand'[s].state = "built", Undisturbed(s)' PROVE AllReady(s)'
  <2>1. AllReady(s) /\ stand'[s].members = stand[s].members BY <1>3, <1>7 DEF WholeInv
  <2>2. Complete(s)' BY <1>a, <1>b, <2>1, StaysComplete DEF AllReady
  <2> QED BY <1>a, <2>1, <2>2 DEF AllReady, Own
<1>8. RowsDue'
  <2> SUFFICES ASSUME NEW s \in Stands, NEW j \in Jobs, j = StandJob(s)', Undisturbed(s)', Due(j)',
                      stand'[s].state = "built" \/ HeldNow(s)', NEW c \in Members(s)'
               PROVE  There(c)'
    BY DEF RowsDue
  <2>1. CASE j = StandJob(s) /\ Due(j) /\ stand'[s].members = stand[s].members
    <3>1. stand'[s].name = stand[s].name BY <2>1 DEF StandJob
    <3>2. c \in Members(s) BY <2>1, <3>1 DEF Members, Own
    <3>3. HeldNow(s)' => HeldNow(s) BY DEF HeldNow, Called
    <3> QED BY <1>3, <1>a, <2>1, <3>2, <3>3 DEF WholeInv, RowsDue
  <2>2. CASE \A d \in Members(s)' : There(d) BY <1>a, <2>2
  <2> QED BY <2>1, <2>2
<1> QED BY <1>2, <1>4, <1>5, <1>6, <1>7, <1>8 DEF WholeInv

\* What a round's step leaves of the others, and of itself.
LEMMA OthersStay ==
  ASSUME IInv, NEW r \in Slots, RoundGoesOn(r)
  PROVE  /\ RowsInv' /\ grown' = grown /\ haunted \subseteq haunted' /\ left' = left
         /\ \A t \in Slots : t # r => /\ build'[t] = build[t] /\ (round'[t].alive => round[t].alive)
                                      /\ round'[t].running => round[t].running
         /\ round[r].alive /\ (round'[r].running => round[r].running)
         /\ \/ stand' = stand
            \/ ~round'[r].alive /\ build' = build
         /\ \A s \in Stands : stand'[s].members = stand[s].members /\ stand'[s].name = stand[s].name
         /\ ~round[r].running => \A s \in Stands : s = build[r].s \/ s = build'[r].s => s \in haunted'
<1>1. RoundsInv' /\ RowsInv' /\ Moves(r) /\ round[r].alive BY MoveTypes
<1>2. grown' = grown /\ haunted \subseteq haunted' /\ left' = left BY DEF RoundGoesOn
<1>3. ~round[r].running => \A s \in Stands : s = build[r].s \/ s = build'[r].s => s \in haunted'
  BY RowsAssumption DEF RoundGoesOn
<1>4. round \in [Slots -> Round] /\ build \in [Slots -> Position] /\ RoundsOK(round)
  BY DEF IInv, RoundsInv, RoundsOK, RowsInv
<1>5. CASE \E p \in Position : GoesTo(r, p)
  <2>1. PICK p \in Position : GoesTo(r, p) BY <1>5
  <2>2. stand' = stand /\ round' = round /\ build' = [build EXCEPT ![r] = p] BY <2>1 DEF GoesTo, roundVars
  <2> QED BY <1>1, <1>2, <1>3, <1>4, <2>2
<1>6. ASSUME NEW rows \in [Stands -> Stand], NEW finished, Returns(r, rows, finished), RowsOf(r, rows, finished)
      PROVE  /\ \A t \in Slots : t # r => /\ build'[t] = build[t] /\ (round'[t].alive => round[t].alive)
                                          /\ round'[t].running => round[t].running
             /\ ~round'[r].alive /\ ~round'[r].running /\ build' = build
             /\ \A s \in Stands : stand'[s].members = stand[s].members /\ stand'[s].name = stand[s].name
  <2>1. RoundsOK(Forget(r)) BY <1>1, ForgetOK DEF IInv
  <2>2. PICK q : Kick(q, armed, ticks, Forget(r)) BY <1>6 DEF Returns, RoundEnds
  <2>3. /\ round' \in [Slots -> Round]
        /\ \A t \in Slots : /\ round'[t].alive = Forget(r)[t].alive
                            /\ round'[t].running => Forget(r)[t].running
    BY <2>1, <2>2, KickRounds
  <2>4. \A t \in Slots : Forget(r)[t] = IF t = r THEN NoRound ELSE round[t] BY <1>4 DEF Forget
  <2>5. ~NoRound.alive /\ ~NoRound.running BY DEF NoRound
  <2>6. build' = build /\ \A s \in Stands : stand'[s].members = stand[s].members /\ stand'[s].name = stand[s].name
    BY <1>6, GiveUpOK DEF Returns, RowsOf
  <2> QED BY <2>3, <2>4, <2>5, <2>6
<1>7. CASE RoundTraps(r) /\ UNCHANGED <<stand, build>>
  <2>1. \A t \in Slots : /\ round'[t].running = round[t].running
                         /\ round'[t].alive <=> round[t].alive /\ t # r
    BY <1>4, <1>7 DEF RoundTraps, Round
  <2> QED BY <1>1, <1>2, <1>3, <1>7, <2>1
<1> QED BY <1>1, <1>2, <1>3, <1>5, <1>6, <1>7, MoveKinds DEF IInv

\* What is due after a round's step was due before, or the round was for it and goes on
\* in its next one.
LEMMA DueFrom ==
  ASSUME IInv, NEW r \in Slots, RoundGoesOn(r), NEW j \in Jobs, j # UpJob, Due(j)'
  PROVE  \/ Due(j)
         \/ /\ round[r].job = j /\ Called(r) /\ ~round'[r].alive
            /\ \A s \in Stands : stand'[s].state = "built" => stand[s].state = "built"
<1>1. Moves(r) /\ round[r].alive BY MoveTypes
<1>2. round \in [Slots -> Round] /\ build \in [Slots -> Position] /\ RoundsOK(round) /\ RowsInv /\ RoundsInv
  BY DEF IInv, RoundsInv, RoundsOK, RowsInv
<1>3. CASE \E p \in Position : GoesTo(r, p)
  <2>1. PICK p \in Position : GoesTo(r, p) BY <1>3
  <2>2. /\ queue' = queue /\ round' = round /\ build'[r] = p /\ p.at # "commit"
        /\ \A t \in Slots : t # r => build'[t] = build[t]
    BY <1>2, <2>1 DEF GoesTo, roundVars
  <2> QED BY <2>2 DEF Due, Waiting
<1>4. ASSUME NEW rows \in [Stands -> Stand], NEW finished \in BOOLEAN, Returns(r, rows, finished), RowsOf(r, rows, finished)
      PROVE  \/ Due(j)
             \/ /\ round[r].job = j /\ Called(r) /\ ~round'[r].alive
                /\ \A s \in Stands : stand'[s].state = "built" => stand[s].state = "built"
  <2> DEFINE q == IF finished THEN queue ELSE Queued(queue, round[r].job)
  <2>1. RoundsOK(Forget(r)) /\ queue \in Seq(Jobs) /\ round[r].job \in Jobs
    BY <1>1, <1>2, ForgetOK DEF RoundsInv, QueueOK, RoundsOK
  <2>2. Kick(q, armed, ticks, Forget(r)) /\ build' = build BY <1>4 DEF Returns, RoundEnds
  <2>3. queue' = q BY <2>2 DEF Kick
  <2>4. \A k \in DOMAIN q : (q[k] = round[r].job /\ ~finished) \/ \E i \in DOMAIN queue : q[k] = queue[i]
    BY <2>1 DEF Queued
  <2> HIDE DEF q
  <2>5. \A t \in Slots : round'[t].job = Forget(r)[t].job /\ round'[t].alive = Forget(r)[t].alive
    BY <2>1, <2>2, KickRounds
  <2>6. \A t \in Slots : Forget(r)[t] = IF t = r THEN NoRound ELSE round[t] BY <1>2 DEF Forget
  <2>7. ~NoRound.alive BY DEF NoRound
  <2>8. CASE \E t \in Slots : round'[t].alive /\ build'[t].at = "commit" /\ round'[t].job = j
    BY <2>2, <2>5, <2>6, <2>7, <2>8 DEF Due
  <2>9. CASE Waiting(j)'
    <3>1. Waiting(j) \/ (round[r].job = j /\ ~finished) BY <2>3, <2>4, <2>9 DEF Waiting
    <3>2. CASE round[r].job = j /\ ~finished
      <4>1. rows = stand BY <1>4, <3>2 DEF RowsOf
      <4>2. \A s \in Stands : stand'[s].state = "built" => stand[s].state = "built" BY <1>4, <4>1, GiveUpOK DEF Returns
      <4>3. build[r].at # "share" BY <1>1, <3>2 DEF IInv, RoundFits
      <4>4. build[r].at = "commit" => Due(j) BY <1>1, <3>2 DEF Due
      <4> QED BY <2>5, <2>6, <2>7, <3>2, <4>2, <4>3, <4>4 DEF Called
    <3> QED BY <3>1, <3>2 DEF Due
  <2> QED BY <2>8, <2>9 DEF Due
<1>5. CASE RoundTraps(r) /\ UNCHANGED <<stand, build>>
  <2>1. /\ queue' = queue /\ build' = build
        /\ \A t \in Slots : round'[t].job = round[t].job /\ (round'[t].alive => round[t].alive)
    BY <1>2, <1>5 DEF RoundTraps, Round
  <2> QED BY <2>1 DEF Due, Waiting
<1> QED BY <1>1, <1>2, <1>3, <1>4, <1>5, MoveKinds DEF IInv

\* While the running round is at an undisturbed stand, that has not shown as built.
LEMMA NotBuiltYet ==
  ASSUME IInv, WholeInv, NEW r \in Slots, round[r].alive, round[r].running, Called(r), Undisturbed(build[r].s)
  PROVE  /\ AsFar(build[r].s, build[r].c, build[r].at) /\ RowTrue(build[r].c) /\ StandOf[build[r].c] = build[r].s
         /\ stand[build[r].s].state # "built" /\ Complete(build[r].s)
<1>1. /\ build[r].s \in Stands /\ build[r].c \in Canisters
      /\ build[r].at \in Making \cup Finishing
  BY DEF IInv, RowsInv, Called, Position, Making, Finishing
<1>2. AsFar(build[r].s, build[r].c, build[r].at) /\ StandOf[build[r].c] = build[r].s
      /\ There(build[r].c) /\ Complete(build[r].s)
  BY DEF WholeInv, FarAsBuilt, Begun, Undisturbed
<1>3. canister[build[r].c].status \in {"created", "installed"} BY <1>1, <1>2 DEF AsFar
<1>4. build[r].c \in Own(build[r].s) BY <1>1, <1>2 DEF Own
<1>5. RowTrue(build[r].c) BY <1>1, <1>2 DEF WholeInv
<1> QED BY <1>1, <1>2, <1>3, <1>4, <1>5 DEF WholeInv, AllReady

\* A job that is due for a stand after a round's step was due for it before, if the stand
\* shows as built or a running round is at it.
LEMMA DueKept ==
  ASSUME IInv, WholeInv, NEW r \in Slots, RoundGoesOn(r),
         NEW s \in Stands, NEW j \in Jobs, j = StandJob(s)', Undisturbed(s)', Due(j)',
         stand'[s].state = "built" \/ HeldNow(s)'
  PROVE  /\ j = StandJob(s) /\ Undisturbed(s) /\ Due(j) /\ Members(s)' = Members(s)
         /\ HeldNow(s)' => HeldNow(s) \/ (round'[r].alive /\ Called(r)' /\ build'[r].s = s)
<1>1. /\ RowsInv' /\ grown' = grown /\ haunted \subseteq haunted'
      /\ \A t \in Slots : t # r => /\ build'[t] = build[t] /\ (round'[t].alive => round[t].alive)
                                   /\ round'[t].running => round[t].running
      /\ round[r].alive /\ (round'[r].running => round[r].running)
      /\ \A u \in Stands : stand'[u].members = stand[u].members /\ stand'[u].name = stand[u].name
      /\ ~round[r].running => \A u \in Stands : u = build[r].s \/ u = build'[r].s => u \in haunted'
  BY OthersStay
<1>2. j = StandJob(s) /\ j # UpJob /\ j[2] = s BY <1>1, JobsDiffer DEF StandJob
<1>3. Undisturbed(s) /\ s \notin haunted' BY <1>1 DEF Undisturbed
<1>4. Members(s)' = Members(s) BY <1>1 DEF Members, Own
<1>5. ASSUME NEW t \in Slots, t # r, round'[t].alive, round'[t].running, Called(t)', build'[t].s = s
      PROVE  round[t].alive /\ round[t].running /\ Called(t) /\ build[t].s = s
  BY <1>1, <1>5 DEF Called
<1>6. HeldNow(s)' => HeldNow(s) \/ (round'[r].alive /\ Called(r)' /\ build'[r].s = s) BY <1>5 DEF HeldNow
<1>7. Due(j)
  <2> SUFFICES ASSUME ~Due(j) PROVE FALSE OBVIOUS
  <2>1. /\ round[r].job = j /\ Called(r) /\ ~round'[r].alive
        /\ stand'[s].state = "built" => stand[s].state = "built"
    BY <1>2, DueFrom
  <2>2. build[r].s = s BY <1>1, <1>2, <2>1 DEF IInv, RoundFits, Called
  <2>3. round[r].running BY <1>1, <1>3, <2>2
  <2>4. stand[s].state # "built" BY <1>1, <1>3, <2>1, <2>2, <2>3, NotBuiltYet
  <2>5. PICK t \in Slots : round'[t].alive /\ round'[t].running /\ Called(t)' /\ build'[t].s = s BY <2>1, <2>4 DEF HeldNow
  <2>6. t # r /\ round[t].running BY <1>5, <2>1, <2>5
  <2> QED BY <2>3, <2>6 DEF IInv, RoundsInv, Orderly
<1> QED BY <1>2, <1>3, <1>4, <1>6, <1>7

\* A call's answer disturbs one canister, and the stand of no other running round.
LEMMA CanisterStep ==
  ASSUME IInv, WholeInv, NEW r \in Slots, RoundGoesOn(r), ChainGrows,
         NEW s \in Stands, NEW c \in Canisters, s = build[r].s, c = build[r].c, Called(r),
         \A d \in Canisters : d # c => canister'[d] = canister[d],
         There(c) => There(c)',
         round'[r].alive /\ Called(r)' =>
           build'[r].s = s /\ StandOf[build'[r].c] = s /\ canister'[build'[r].c].status # "absent"',
         round[r].running /\ Undisturbed(s) =>
           /\ RowTrue(c)' /\ (round'[r].alive /\ Called(r)' => FarAsBuilt(r)')
           /\ stand'[s].state = "built" => AllReady(s)',
         \A u \in Stands : u # s /\ stand'[u].state = "built" => stand[u].state = "built"
  PROVE  WholeInv'
<1>0. RowsInv BY DEF IInv
<1>1. /\ RowsInv' /\ grown' = grown /\ haunted \subseteq haunted'
      /\ \A t \in Slots : t # r => /\ build'[t] = build[t] /\ (round'[t].alive => round[t].alive)
                                   /\ round'[t].running => round[t].running
      /\ round[r].alive /\ (round'[r].running => round[r].running)
      /\ left' = left /\ \A u \in Stands : stand'[u].members = stand[u].members /\ stand'[u].name = stand[u].name
      /\ ~round[r].running => s \in haunted'
  BY OthersStay
<1>2. \A d \in Canisters : files[d] \in Nat /\ files'[d] \in Nat /\ files'[d] <= files[d] /\ Files[d] \in Nat /\ StandOf[d] \in Stands
  BY <1>0, RowsAssumption DEF RowsInv, ChainGrows
<1>3. StandOf[c] = s /\ There(c) /\ (s \notin grown => Complete(s)) BY <1>1 DEF WholeInv, Begun
<1>4. \A d \in Canisters : There(d) <=> There(d)' BY <1>3 DEF There
<1>5. \A u \in Stands : stand[u].members \subseteq Canisters BY <1>0 DEF RowsInv, Stand
<1>a. \A u \in Stands : Complete(u) => Complete(u)' BY <1>1, <1>4, <1>5, StaysComplete
<1>6. RowsKept'
  <2>1. \A d \in Canisters : files[d] <= Files[d] BY DEF WholeInv, RowsKept
  <2>2. \A d \in Canisters : files'[d] <= Files[d] BY <1>2, <2>1
  <2>3. \A u \in Stands : \A d \in stand[u].members : NameOf[d] = stand[u].name \/ There(d) \/ d \in left
    BY DEF WholeInv, RowsKept
  <2>4. \A u \in Stands : \A d \in stand'[u].members : NameOf[d] = stand'[u].name \/ There(d)' \/ d \in left'
    BY <1>1, <1>4, <1>5, <2>3
  <2> QED BY <2>2, <2>4 DEF RowsKept
<1>7. \A u : Undisturbed(u)' => Undisturbed(u) BY <1>1 DEF Undisturbed
<1>8. Undisturbed(s)' => round[r].running BY <1>1 DEF Undisturbed
<1>9. ASSUME NEW d \in Canisters, Undisturbed(StandOf[d])' PROVE RowTrue(d)'
  <2>1. CASE d = c BY <1>3, <1>7, <1>8, <1>9, <2>1
  <2>2. CASE d # c BY <1>0, <1>7, <1>9, <2>2, StaysTrue DEF WholeInv
  <2> QED BY <2>1, <2>2
<1>10. ASSUME NEW t \in Slots, round'[t].alive, Called(t)' PROVE Begun(t)'
  <2>1. CASE t = r
    <3>1. build'[r].s = s /\ StandOf[build'[r].c] = s /\ canister'[build'[r].c].status # "absent" BY <1>10, <2>1
    <3>2. s \notin grown' => Complete(s)' BY <1>1, <1>3, <1>a
    <3>3. build'[t].s = s /\ build'[t].c = build'[r].c BY <2>1, <3>1
    <3> QED BY <3>1, <3>2, <3>3 DEF Begun, There
  <2>2. CASE t # r
    <3>1. round[t].alive /\ build'[t] = build[t] /\ Called(t) BY <1>1, <1>10, <2>2 DEF Called
    <3>2. build[t].s \in Stands /\ build[t].c \in Canisters BY <1>0, <3>1 DEF RowsInv, Called
    <3>3. Begun(t) BY <3>1 DEF WholeInv
    <3> QED BY <1>1, <1>4, <1>a, <3>1, <3>2, <3>3 DEF Begun
  <2> QED BY <2>1, <2>2
<1>11. ASSUME NEW t \in Slots, round'[t].alive, round'[t].running, Called(t)', Undisturbed(build[t].s)'
       PROVE  FarAsBuilt(t)'
  <2>1. CASE t = r
    <3>1. build'[r].s = s BY <1>11, <2>1
    <3>2. Undisturbed(s)' BY <1>11, <2>1, <3>1 DEF Undisturbed
    <3> QED BY <1>1, <1>7, <1>11, <2>1, <3>2
  <2>2. CASE t # r
    <3>1. round[t].alive /\ round[t].running /\ build'[t] = build[t] /\ Called(t) BY <1>1, <1>11, <2>2 DEF Called
    <3>2. PICK u, d, at : u = build[t].s /\ d = build[t].c /\ at = build[t].at OBVIOUS
    <3>3. Undisturbed(u) /\ u \notin haunted' BY <1>1, <1>11, <3>1, <3>2 DEF Undisturbed
    <3>4. AsFar(u, d, at) /\ StandOf[d] = u BY <3>1, <3>2, <3>3 DEF WholeInv, FarAsBuilt, Begun
    <3>5. u \in Stands /\ d \in Canisters BY <1>0, <3>1, <3>2 DEF RowsInv, Called
    <3>6. ~round[r].running BY <2>2, <3>1 DEF IInv, RoundsInv, Orderly
    <3>7. u # s BY <1>1, <3>3, <3>6
    <3>8. \A e \in Canisters : StandOf[e] = u => canister'[e].status = canister[e].status /\ canister'[e].id = canister[e].id
      BY <1>3, <3>7
    <3>9. AsFar(u, d, at)' BY <1>0, <3>4, <3>5, <3>8, StaysAsFar
    <3> QED BY <3>1, <3>2, <3>9 DEF FarAsBuilt
  <2> QED BY <2>1, <2>2
<1>12. ASSUME NEW u \in Stands, stand'[u].state = "built", Undisturbed(u)' PROVE AllReady(u)'
  <2>1. CASE u = s BY <1>7, <1>8, <1>12, <2>1
  <2>2. CASE u # s
    <3>1. AllReady(u) BY <1>7, <1>12, <2>2 DEF WholeInv
    <3>2. \A d \in Own(u) : d \in Canisters /\ canister'[d] = canister[d] BY <1>3, <2>2 DEF Own
    <3> QED BY <1>a, <3>1, <3>2 DEF AllReady, Own, There
  <2> QED BY <2>1, <2>2
<1>13. RowsDue'
  <2> SUFFICES ASSUME NEW u \in Stands, NEW j \in Jobs, j = StandJob(u)', Undisturbed(u)', Due(j)',
                      stand'[u].state = "built" \/ HeldNow(u)', NEW d \in Members(u)'
               PROVE  There(d)'
    BY DEF RowsDue
  <2>1. /\ j = StandJob(u) /\ Undisturbed(u) /\ Due(j) /\ Members(u)' = Members(u)
        /\ HeldNow(u)' => HeldNow(u) \/ (round'[r].alive /\ Called(r)' /\ build'[r].s = u)
    BY DueKept
  <2>2. HeldNow(s) \/ u # s BY <1>1, <1>8 DEF HeldNow
  <2>3. stand[u].state = "built" \/ HeldNow(u) BY <2>1, <2>2
  <2>4. There(d) /\ d \in Canisters BY <2>1, <2>3 DEF WholeInv, RowsDue, Members, Own
  <2> QED BY <1>4, <2>4
<1> QED BY <1>6, <1>9, <1>10, <1>11, <1>12, <1>13 DEF WholeInv

\* The rows a build begins by adding are all that were missing.
LEMMA AddRowsCompletes ==
  ASSUME RowsInv, RowsKept, NEW s \in Stands, AddRows(s),
         stand'[s].members = stand[s].members, stand'[s].name = stand[s].name, left' = left
  PROVE  /\ Complete(s)' /\ \A c \in Members(s) : There(c)'
         /\ \A c \in Canisters : /\ There(c) \/ c \notin Members(s) => canister'[c] = canister[c]
                                 /\ canister'[c] = canister[c] \/ canister'[c].status = "created"
                                 /\ There(c) => There(c)'
<1>1. \A c \in Canisters :
        /\ canister[c] \in Canister
        /\ canister'[c] = IF c \in Members(s) /\ ~There(c) THEN [canister[c] EXCEPT !.status = "created"] ELSE canister[c]
  BY DEF AddRows, RowsInv
<1>2. ASSUME NEW c \in Canisters
      PROVE  /\ There(c) \/ c \notin Members(s) => canister'[c] = canister[c]
             /\ canister'[c] = canister[c] \/ canister'[c].status = "created"
             /\ There(c) => There(c)'
             /\ c \in Members(s) => There(c)'
  BY <1>1 DEF There, Canister
<1>3. Members(s) \subseteq Canisters /\ Own(s)' = Own(s) BY DEF Members, Own
<1>4. ASSUME NEW c \in Own(s) \ Optional PROVE \E d \in Own(s) : RowOf[d] = RowOf[c] /\ There(d)'
  <2>1. stand[s].name \in 0..MaxChanges BY DEF RowsInv, Stand
  <2>2. c \in Canisters /\ StandOf[c] = s BY DEF Own
  <2>3. PICK d \in Canisters : RowOf[d] = RowOf[c] /\ NameOf[d] = stand[s].name BY <2>1, <2>2, TemplateAssumption
  <2>4. StandOf[d] = s /\ d \notin Optional BY <1>4, <2>2, <2>3, TemplateAssumption
  <2>5. d \in Members(s) BY <2>3, <2>4 DEF Members, Own
  <2> QED BY <1>2, <1>3, <2>3, <2>5 DEF Members
<1>5. ASSUME NEW c \in stand[s].members \ left PROVE There(c)'
  <2>1. c \in Canisters /\ StandOf[c] = s BY DEF RowsInv, Stand
  <2>2. NameOf[c] = stand[s].name \/ There(c) BY DEF RowsKept
  <2>3. NameOf[c] = stand[s].name => c \in Members(s) BY <2>1 DEF Members, Own
  <2> QED BY <1>2, <2>1, <2>2, <2>3
<1>6. Complete(s)' BY <1>3, <1>4, <1>5 DEF Complete
<1> QED BY <1>2, <1>3, <1>6

\* A round that begins with stand s gives its members rows, and so leaves alone a stand
\* that is whole or that another round is at.
LEMMA BeginStep ==
  ASSUME IInv, WholeInv, NEW r \in Slots, RoundGoesOn(r), build[r].at = "commit", UNCHANGED chain,
         NEW s \in Stands, AddRows(s),
         round'[r].alive /\ Called(r)' => build'[r].s = s /\ StandOf[build'[r].c] = s /\ FarAsBuilt(r)',
         build'[r].s = s \/ With(s, "created") = {},
         stand[s].state = "built" => Due(StandJob(s)),
         stand'[s].state = "built" => stand[s].state = "built" \/ AllReady(s)',
         \A u \in Stands : u # s /\ stand'[u].state = "built" => stand[u].state = "built"
  PROVE  WholeInv'
<1>0. RowsInv /\ RowsKept BY DEF IInv, WholeInv
<1>1. /\ RowsInv' /\ grown' = grown /\ haunted \subseteq haunted' /\ left' = left
      /\ \A t \in Slots : t # r => /\ build'[t] = build[t] /\ (round'[t].alive => round[t].alive)
                                   /\ round'[t].running => round[t].running
      /\ round[r].alive /\ (round'[r].running => round[r].running)
      /\ \A u \in Stands : stand'[u].members = stand[u].members /\ stand'[u].name = stand[u].name
      /\ ~round[r].running /\ build'[r].s = s => s \in haunted'
  BY OthersStay
<1>a. ChainGrows BY <1>0, SameChain
<1>2. \A d \in Canisters : files'[d] = files[d] BY DEF chain
<1>3. /\ Complete(s)' /\ \A d \in Members(s) : There(d)'
      /\ \A d \in Canisters : /\ There(d) \/ d \notin Members(s) => canister'[d] = canister[d]
                              /\ canister'[d] = canister[d] \/ canister'[d].status = "created"
                              /\ There(d) => There(d)'
  BY <1>0, <1>1, AddRowsCompletes
<1>4. \A u \in Stands : Complete(u) => Complete(u)'
  <2>1. \A u \in Stands : stand[u].members \subseteq Canisters BY <1>0 DEF RowsInv, Stand
  <2> QED BY <1>1, <1>3, <2>1, StaysComplete
<1>5. \A u \in Stands : u # s => \A d \in Own(u) : d \in Canisters /\ canister'[d] = canister[d]
  BY <1>3 DEF Members, Own
<1>b. With(s, "created") = {} => \A d \in Canisters : canister'[d] = canister[d]
  BY <1>3 DEF With, Members, Own
<1>6. RowsKept'
  <2>1. \A d \in Canisters : files'[d] <= Files[d] BY <1>0, <1>2 DEF RowsKept
  <2>2. \A u \in Stands : \A d \in stand[u].members : d \in Canisters /\ (NameOf[d] = stand[u].name \/ There(d) \/ d \in left)
    BY <1>0 DEF RowsKept, RowsInv, Stand
  <2>3. \A u \in Stands : \A d \in stand'[u].members : NameOf[d] = stand'[u].name \/ There(d)' \/ d \in left'
    BY <1>1, <1>3, <2>2
  <2> QED BY <2>1, <2>3 DEF RowsKept
<1>7. \A u : Undisturbed(u)' => Undisturbed(u) BY <1>1 DEF Undisturbed
<1>8. ASSUME NEW d \in Canisters, Undisturbed(StandOf[d])' PROVE RowTrue(d)'
  <2>1. RowTrue(d) BY <1>7, <1>8 DEF WholeInv
  <2>2. CASE canister'[d] = canister[d] BY <1>0, <1>a, <2>1, <2>2, StaysTrue
  <2>3. CASE canister'[d] # canister[d] BY <1>3, <2>3 DEF RowTrue
  <2> QED BY <2>2, <2>3
<1>9. ASSUME NEW t \in Slots, t # r, round'[t].alive, Called(t)'
      PROVE  round[t].alive /\ build'[t] = build[t] /\ Called(t) /\ Begun(t)
  BY <1>1, <1>9 DEF Called, WholeInv
<1>10. ASSUME NEW t \in Slots, round'[t].alive, Called(t)' PROVE Begun(t)'
  <2>1. CASE t = r
    <3>1. build'[r].s = s /\ StandOf[build'[r].c] = s /\ AsFar(build[r].s, build[r].c, build[r].at)'
      BY <1>10, <2>1 DEF FarAsBuilt
    <3>2. build'[r].at \in Making \cup Finishing BY <1>1, <1>10, <2>1 DEF RowsInv, Position, Called, Making, Finishing
    <3>3. canister'[build'[r].c].status \in {"created", "installed"} BY <3>1, <3>2 DEF AsFar
    <3> QED BY <1>3, <2>1, <3>1, <3>3 DEF Begun, There
  <2>2. CASE t # r
    <3>1. build[t].s \in Stands /\ build[t].c \in Canisters BY <1>0, <1>9, <1>10, <2>2 DEF RowsInv, Called
    <3>2. Begun(t) /\ build'[t] = build[t] BY <1>9, <1>10, <2>2
    <3> QED BY <1>1, <1>3, <1>4, <3>1, <3>2 DEF Begun
  <2> QED BY <2>1, <2>2
<1>11. ASSUME NEW t \in Slots, round'[t].alive, round'[t].running, Called(t)', Undisturbed(build[t].s)'
       PROVE  FarAsBuilt(t)'
  <2>1. CASE t = r BY <1>11, <2>1
  <2>2. CASE t # r
    <3>1. round[t].alive /\ round[t].running /\ build'[t] = build[t] /\ Called(t) /\ Begun(t)
      BY <1>1, <1>9, <1>11, <2>2
    <3>2. PICK u, d, at : u = build[t].s /\ d = build[t].c /\ at = build[t].at OBVIOUS
    <3>3. Undisturbed(u) /\ u \notin haunted' BY <1>1, <1>11, <3>1, <3>2 DEF Undisturbed
    <3>4. AsFar(u, d, at) /\ StandOf[d] = u BY <3>1, <3>2, <3>3 DEF WholeInv, FarAsBuilt, Begun
    <3>5. u \in Stands /\ d \in Canisters BY <1>0, <3>1, <3>2 DEF RowsInv, Called
    <3>6. \A e \in Canisters : StandOf[e] = u => canister'[e] = canister[e]
      <4>1. CASE u # s BY <1>5, <3>5, <4>1 DEF Own
      <4>2. CASE u = s
        <5>1. ~round[r].running BY <2>2, <3>1 DEF IInv, RoundsInv, Orderly
        <5> QED BY <1>1, <1>b, <3>3, <4>2, <5>1
      <4> QED BY <4>1, <4>2
    <3>7. AsFar(u, d, at)' BY <1>0, <1>a, <3>4, <3>5, <3>6, StaysAsFar
    <3> QED BY <3>1, <3>2, <3>7 DEF FarAsBuilt
  <2> QED BY <2>1, <2>2
<1>12. ASSUME NEW u \in Stands, stand'[u].state = "built", Undisturbed(u)' PROVE AllReady(u)'
  <2>1. CASE stand[u].state = "built"
    <3>1. AllReady(u) BY <1>7, <1>12, <2>1 DEF WholeInv
    <3>2. \A d \in Own(u) : d \in Canisters /\ canister'[d] = canister[d]
      <4>1. CASE u # s BY <1>5, <4>1
      <4>2. CASE u = s
        <5>1. StandJob(s) \in Jobs BY <1>0, StandJobs
        <5>2. \A d \in Members(s) : There(d) BY <1>7, <1>12, <2>1, <4>2, <5>1 DEF WholeInv, RowsDue
        <5> QED BY <1>3, <4>2, <5>2 DEF Own
      <4> QED BY <4>1, <4>2
    <3> QED BY <1>4, <3>1, <3>2 DEF AllReady, Own, There
  <2>2. CASE stand[u].state # "built" BY <1>12, <2>2
  <2> QED BY <2>1, <2>2
<1>13. RowsDue'
  <2> SUFFICES ASSUME NEW u \in Stands, NEW j \in Jobs, j = StandJob(u)', Undisturbed(u)', Due(j)',
                      stand'[u].state = "built" \/ HeldNow(u)', NEW d \in Members(u)'
               PROVE  There(d)'
    BY DEF RowsDue
  <2>1. /\ j = StandJob(u) /\ Undisturbed(u) /\ Due(j) /\ Members(u)' = Members(u)
        /\ HeldNow(u)' => HeldNow(u) \/ (round'[r].alive /\ Called(r)' /\ build'[r].s = u)
    BY DueKept
  <2>2. CASE u = s BY <1>3, <2>1, <2>2
  <2>3. CASE u # s
    <3>1. stand[u].state = "built" \/ HeldNow(u) BY <2>1, <2>3
    <3>2. There(d) /\ d \in Canisters BY <2>1, <3>1 DEF WholeInv, RowsDue, Members, Own
    <3> QED BY <1>3, <3>2
  <2> QED BY <2>2, <2>3
<1> QED BY <1>6, <1>8, <1>10, <1>11, <1>12, <1>13 DEF WholeInv

\* The hand-over goes on where no canister is created any more and every installed one
\* has its files, or ends where none is installed.
LEMMA HandOverFar ==
  ASSUME RowsInv, NEW r \in Slots, NEW s \in Stands, With(s, "created") = {},
         \A c \in With(s, "installed") : files'[c] = 0, HandOver(r, s)
  PROVE  \/ /\ stand' = stand /\ build'[r].s = s /\ StandOf[build'[r].c] = s /\ FarAsBuilt(r)'
         \/ /\ With(s, "installed") = {} /\ Returns(r, [stand EXCEPT ![s].state = "built"], round[r].job # UpJob)
<1>1. CASE With(s, "installed") # {}
  <2> DEFINE c == Min(With(s, "installed"))
  <2>1. c \in With(s, "installed") BY <1>1, MinCanister DEF With
  <2>2. Wait(r, "config", s, c) BY <1>1 DEF HandOver
  <2> HIDE DEF c
  <2>3. build'[r] = [at |-> "config", s |-> s, c |-> c] /\ stand' = stand BY <2>2 DEF Wait, RowsInv
  <2>4. \A d \in Canisters : StandOf[d] = s => canister'[d].status # "created" /\ (canister'[d].status = "installed" => files'[d] = 0)
    BY DEF With
  <2>5. FarAsBuilt(r)' BY <2>1, <2>3, <2>4 DEF FarAsBuilt, AsFar, With, Making, Finishing
  <2> QED BY <2>1, <2>3, <2>5 DEF With
<1>2. CASE With(s, "installed") = {} BY <1>2 DEF HandOver
<1> QED BY <1>1, <1>2

\* So does a build that begins.
LEMMA BuildFar ==
  ASSUME RowsInv, RowsKept, canister' \in [Canisters -> Canister], UNCHANGED chain, NEW r \in Slots, NEW s \in Stands, Build(r, s)
  PROVE  \/ /\ stand' = stand /\ build'[r].s = s /\ StandOf[build'[r].c] = s /\ FarAsBuilt(r)'
         \/ /\ With(s, "created") = {} /\ With(s, "installed") = {}
            /\ Returns(r, [stand EXCEPT ![s].state = "built"], round[r].job # UpJob)
<1>0. files' = files /\ \A c \in Canisters : files[c] \in Nat /\ Files[c] \in Nat /\ files[c] <= Files[c]
  BY RowsAssumption DEF RowsInv, RowsKept, chain
<1>a. \A c \in Canisters : Files[c] > 0 \/ files'[c] = 0 BY <1>0
<1> DEFINE unsynced == {c \in With(s, "installed") : Files[c] > 0}
<1>1. CASE With(s, "created") # {}
  <2> DEFINE c == Min(With(s, "created"))
  <2>1. c \in With(s, "created") BY <1>1, MinCanister DEF With
  <2>2. Provision(r, s, c) BY <1>1 DEF Build
  <2> HIDE DEF c
  <2>3. /\ build'[r].at \in {"create", "install"} /\ build'[r].s = s /\ build'[r].c = c /\ stand' = stand
    BY <2>2 DEF Provision, Wait, RowsInv
  <2>4. FarAsBuilt(r)' BY <2>1, <2>3 DEF FarAsBuilt, AsFar, With, Making, Finishing
  <2> QED BY <2>1, <2>3, <2>4 DEF With
<1>2. CASE With(s, "created") = {} /\ unsynced # {}
  <2> DEFINE c == Min(unsynced)
  <2>1. c \in unsynced /\ \A d \in unsynced : c <= d
    <3>1. unsynced \subseteq Nat BY RowsAssumption DEF With
    <3> HIDE DEF unsynced
    <3> QED BY <1>2, <3>1, MinOfNaturals
  <2>2. Wait(r, "sync", s, c) BY <1>2 DEF Build
  <2> HIDE DEF c
  <2>3. build'[r] = [at |-> "sync", s |-> s, c |-> c] /\ stand' = stand BY <2>2 DEF Wait, RowsInv
  <2>4. \A d \in Canisters : StandOf[d] = s =>
          canister'[d].status # "created" /\ (canister'[d].status = "installed" => files'[d] = 0 \/ d >= c)
    <3>1. c \in Nat /\ \A d \in Canisters : d \in Nat BY <2>1, RowsAssumption DEF With
    <3>2. \A d \in Canisters : StandOf[d] = s /\ canister'[d].status = "installed" => files'[d] = 0 \/ d \in unsynced
      BY <1>a DEF With
    <3>3. \A d \in Canisters : StandOf[d] = s => canister'[d].status # "created" BY <1>2 DEF With
    <3> HIDE DEF unsynced
    <3>4. \A d \in Canisters : d \in unsynced => d >= c BY <2>1, <3>1
    <3> QED BY <3>2, <3>3, <3>4
  <2>5. FarAsBuilt(r)' BY <2>1, <2>3, <2>4 DEF FarAsBuilt, AsFar, With, Making, Finishing
  <2> QED BY <2>1, <2>3, <2>5 DEF With
<1>3. CASE With(s, "created") = {} /\ unsynced = {}
  <2>1. \A c \in With(s, "installed") : files'[c] = 0 BY <1>a, <1>3 DEF With
  <2>2. HandOver(r, s) BY <1>3 DEF Build
  <2> QED BY <1>3, <2>1, <2>2, HandOverFar
<1> QED BY <1>1, <1>2, <1>3

\* A stand with no canister to provision or to hand over is whole, when no row is missing.
LEMMA NoneLeft ==
  ASSUME RowsInv, RowsInv', NEW s \in Stands, With(s, "created") = {}, With(s, "installed") = {},
         Complete(s)'
  PROVE  AllReady(s)'
<1>1. \A c \in Canisters : canister'[c].status \in {"absent", "created", "installed", "ready"} BY DEF RowsInv, Canister
<1>2. \A c \in Own(s) : c \in Canisters /\ canister'[c].status \notin {"created", "installed"} BY DEF With, Own
<1>3. \A c \in Own(s) : canister'[c].status # "absent" => canister'[c].status = "ready" BY <1>1, <1>2
<1> QED BY <1>3 DEF AllReady, Own, There

\* What a round that returns makes of the states.
LEMMA ReturnsStates ==
  ASSUME RowsInv, RoundsInv, NEW r \in Slots, NEW rows \in [Stands -> Stand], NEW finished, Returns(r, rows, finished)
  PROVE  /\ ~round'[r].alive /\ build' = build
         /\ \A s \in Stands : stand'[s].state \in {rows[s].state, "failed"}
<1>1. RoundsOK(Forget(r)) BY ForgetOK DEF Returns, RoundEnds
<1>2. PICK q : Kick(q, armed, ticks, Forget(r)) BY DEF Returns, RoundEnds
<1>3. round'[r].alive = Forget(r)[r].alive BY <1>1, <1>2, KickRounds
<1>4. Forget(r)[r] = NoRound BY DEF Forget, RoundsInv, RoundsOK
<1> QED BY <1>3, <1>4, GiveUpOK DEF Returns, NoRound

\* A stand marked built.
LEMMA BuiltRow ==
  ASSUME RowsInv, NEW s \in Stands
  PROVE  /\ [stand EXCEPT ![s].state = "built"] \in [Stands -> Stand]
         /\ \A u \in Stands : u # s => [stand EXCEPT ![s].state = "built"][u].state = stand[u].state
BY DEF RowsInv, Stand

\* A round that begins to build a stand.
LEMMA BeginBuild ==
  ASSUME IInv, WholeInv, NEW r \in Slots, RoundGoesOn(r), build[r].at = "commit", UNCHANGED chain,
         NEW s \in Stands, AddRows(s), Build(r, s), stand[s].state = "built" => Due(StandJob(s))
  PROVE  WholeInv'
<1>1. /\ RowsInv /\ RowsInv' /\ RoundsInv /\ left' = left
      /\ \A u \in Stands : stand'[u].members = stand[u].members /\ stand'[u].name = stand[u].name
  BY OthersStay DEF IInv
<1>2. canister' \in [Canisters -> Canister] /\ RowsKept BY <1>1, AddsRows DEF WholeInv
<1>3. CASE stand' = stand /\ build'[r].s = s /\ StandOf[build'[r].c] = s /\ FarAsBuilt(r)'
  BY <1>3, BeginStep
<1>4. CASE /\ With(s, "created") = {} /\ With(s, "installed") = {}
           /\ Returns(r, [stand EXCEPT ![s].state = "built"], round[r].job # UpJob)
  <2>1. ~round'[r].alive /\ \A u \in Stands : u # s /\ stand'[u].state = "built" => stand[u].state = "built"
    BY <1>1, <1>4, ReturnsStates, BuiltRow
  <2>2. Complete(s)' BY <1>1, <1>2, AddRowsCompletes
  <2>3. AllReady(s)' BY <1>1, <1>4, <2>2, NoneLeft
  <2> QED BY <1>4, <2>1, <2>3, BeginStep
<1> QED BY <1>1, <1>2, <1>3, <1>4, BuildFar

\* One that waits for no call afterwards, and leaves the rows alone.
LEMMA EndsQuietly ==
  ASSUME IInv, WholeInv, NEW r \in Slots, RoundGoesOn(r), ChainGrows, canister' = canister,
         round'[r].alive => build'[r].at \in {"commit", "share"},
         \A s \in Stands : stand'[s].state = "built" => stand[s].state = "built"
  PROVE  WholeInv'
<1>1. /\ RowsInv' /\ grown' = grown /\ haunted \subseteq haunted' /\ left' = left
      /\ \A t \in Slots : t # r => /\ build'[t] = build[t] /\ (round'[t].alive => round[t].alive)
                                   /\ round'[t].running => round[t].running
      /\ \A s \in Stands : stand'[s].members = stand[s].members /\ stand'[s].name = stand[s].name
  BY OthersStay
<1>2. ASSUME NEW t \in Slots, round'[t].alive, build'[t].at \notin {"commit", "share"}
      PROVE  /\ round[t].alive /\ build'[t] = build[t] /\ (round'[t].running => round[t].running)
             /\ build[t].s \in grown' \/ \A c \in stand'[build[t].s].members : c \in stand[build[t].s].members \/ There(c)
  <2>1. t # r BY <1>2
  <2>2. build'[t] = build[t] /\ round[t].alive /\ (round'[t].running => round[t].running) BY <1>1, <1>2, <2>1
  <2>3. build[t].s \in Stands BY <1>2, <2>2 DEF IInv, RowsInv
  <2> QED BY <1>1, <2>2, <2>3
<1>3. \A s \in Stands : \A c \in stand'[s].members : NameOf[c] = stand'[s].name \/ There(c) \/ c \in left'
  BY <1>1 DEF WholeInv, RowsKept
<1>4. \A s \in Stands, j \in Jobs :
        j = StandJob(s)' /\ Undisturbed(s)' /\ Due(j)' /\ (stand'[s].state = "built" \/ HeldNow(s)') =>
          j = StandJob(s) /\ Due(j) /\ stand'[s].members = stand[s].members
  BY <1>1, DueKept
<1> QED BY <1>1, <1>2, <1>3, <1>4, RowsLeftAlone

\* A round that returns with rows where no stand is newly built.
LEMMA ReturnsQuietly ==
  ASSUME IInv, WholeInv, NEW r \in Slots, RoundGoesOn(r), ChainGrows, canister' = canister,
         NEW rows \in [Stands -> Stand], NEW finished, Returns(r, rows, finished),
         \A s \in Stands : rows[s].state \in {stand[s].state, "failed"}
  PROVE  WholeInv'
<1>1. RowsInv /\ RoundsInv BY DEF IInv
<1>2. ~round'[r].alive /\ \A s \in Stands : stand'[s].state \in {rows[s].state, "failed"}
  BY <1>1, ReturnsStates
<1>3. \A s \in Stands : stand'[s].state = "built" => stand[s].state = "built" BY <1>2
<1> QED BY <1>2, <1>3, EndsQuietly

\* One that raises.
LEMMA RaisesQuietly ==
  ASSUME IInv, WholeInv, NEW r \in Slots, RoundGoesOn(r), ChainGrows, canister' = canister, Raises(r)
  PROVE  WholeInv'
<1>1. stand \in [Stands -> Stand] BY DEF IInv, RowsInv
<1>2. CASE RoundTraps(r) /\ UNCHANGED <<stand, build>>
  <2>1. ~round'[r].alive BY <1>2 DEF RoundTraps, IInv, RoundsInv, RoundsOK, Round
  <2> QED BY <1>2, <2>1, EndsQuietly
<1>3. CASE Returns(r, Fail(stand, Blamed(stand, round[r].job)), TRUE)
  <2>1. PICK B : B = Blamed(stand, round[r].job) OBVIOUS
  <2>2. Fail(stand, B) \in [Stands -> Stand] /\ \A s \in Stands : Fail(stand, B)[s].state \in {stand[s].state, "failed"}
    BY <1>1, FailOK
  <2> QED BY <1>3, <2>1, <2>2, ReturnsQuietly
<1> QED BY <1>2, <1>3 DEF Raises

\* A round that begins,
LEMMA BeginKeepsWhole ==
  ASSUME IInv, WholeInv, NEW r \in Slots, RoundGoesOn(r), BeginStand(r) \/ BeginUp(r)
  PROVE  WholeInv'
<1>1. build[r].at = "commit" /\ round[r].alive /\ UNCHANGED chain BY DEF BeginStand, BeginUp, WaitsAt
<1>2. RowsInv /\ stand \in [Stands -> Stand] /\ canister \in [Canisters -> Canister] BY DEF IInv, RowsInv
<1>3. ChainGrows BY <1>1, <1>2, SameChain
<1>4. CASE BeginStand(r)
  <2>1. ASSUME NEW s \in Blamed(stand, round[r].job), AddRows(s), Build(r, s) PROVE WholeInv'
    <3>1. s \in Stands BY BlamedAreStands
    <3>2. round[r].job = StandJob(s) BY <1>4, <2>1, BlamedAreStands DEF BeginStand, StandJob
    <3>3. Due(StandJob(s)) BY <1>1, <3>2 DEF Due
    <3> QED BY <1>1, <2>1, <3>1, <3>3, BeginBuild
  <2> QED BY <1>3, <1>4, <2>1, RaisesQuietly DEF BeginStand
<1>5. CASE BeginUp(r)
  <2>1. CASE UNCHANGED canister /\ (Returns(r, stand, TRUE) \/ Returns(r, stand, FALSE))
    BY <1>2, <1>3, <2>1, ReturnsQuietly
  <2>2. CASE Wait(r, "share", 0, 0) /\ UNCHANGED canister
    <3>1. build'[r].at = "share" /\ stand' = stand BY <1>2, <2>2 DEF Wait, RowsInv
    <3> QED BY <1>3, <2>2, <3>1, EndsQuietly
  <2>3. CASE /\ Unprovisioned # {}
             /\ LET s == Min(Unprovisioned) IN AddRows(s) /\ Provision(r, s, Min(With(s, "created")))
    <3> DEFINE s == Min(Unprovisioned)
    <3>1. s \in Unprovisioned BY <2>3, MinStand DEF Unprovisioned, Pending
    <3>2. AddRows(s) /\ Provision(r, s, Min(With(s, "created"))) BY <2>3
    <3> HIDE DEF s
    <3>3. s \in Stands /\ stand[s].state = "pending" BY <3>1 DEF Unprovisioned, Pending
    <3>4. With(s, "created") # {}
      <4>1. PICK c \in Own(s) : (c \in Members(s) /\ ~There(c)) \/ canister[c].status = "created"
        BY <3>1 DEF Unprovisioned, Members
      <4>2. c \in Canisters /\ StandOf[c] = s BY DEF Own
      <4>3. canister'[c].status = "created" BY <1>2, <3>2, <4>1, <4>2 DEF AddRows, Canister, There
      <4> QED BY <4>2, <4>3 DEF With
    <3>5. Build(r, s) BY <3>2, <3>4 DEF Build
    <3> QED BY <1>1, <3>2, <3>3, <3>5, BeginBuild
  <2>4. CASE Unbuilt # {} /\ Min(Unbuilt) \in Pending /\ Unprovisioned = {} /\ UNCHANGED canister /\ Build(r, Min(Unbuilt))
    <3> DEFINE s == Min(Unbuilt)
    <3>1. s \in Pending /\ Build(r, s) BY <2>4
    <3> HIDE DEF s
    <3>2. s \in Stands /\ stand[s].state = "pending" BY <3>1 DEF Pending
    <3>3. \A c \in Members(s) : There(c) BY <2>4, <3>1 DEF Unprovisioned
    <3>4. canister = [c \in Canisters |-> canister[c]] BY <1>2
    <3>5. AddRows(s)
      <4>1. \A c \in Canisters : canister[c] = (IF c \in Members(s) /\ ~There(c)
                                                THEN [canister[c] EXCEPT !.status = "created"] ELSE canister[c])
        BY <3>3
      <4>2. canister' = canister BY <2>4
      <4> QED BY <1>2, <3>4, <4>1, <4>2 DEF AddRows
    <3> QED BY <1>1, <3>1, <3>2, <3>5, BeginBuild
  <2> QED BY <1>5, <2>1, <2>2, <2>3, <2>4 DEF BeginUp
<1> QED BY <1>4, <1>5

\* An answered call that has its round wait for the next one.
LEMMA NextCall ==
  ASSUME IInv, WholeInv, NEW r \in Slots, RoundGoesOn(r), ChainGrows, Called(r),
         NEW s \in Stands, NEW c \in Canisters, s = build[r].s, c = build[r].c,
         \A d \in Canisters : d # c => canister'[d] = canister[d],
         canister[c].status # "absent" => canister'[c].status # "absent",
         NEW at, NEW e \in Canisters, Wait(r, at, s, e), StandOf[e] = s \/ e = c,
         e # c => canister[e].status # "absent",
         round[r].running /\ Undisturbed(s) => RowTrue(c)' /\ AsFar(s, e, at)'
  PROVE  WholeInv'
<1>1. build'[r] = [at |-> at, s |-> s, c |-> e] /\ stand' = stand /\ round[r].alive
  BY OthersStay DEF Wait, IInv, RowsInv
<1>2. StandOf[c] = s /\ canister[c].status # "absent" BY <1>1 DEF WholeInv, Begun, There
<1>3. canister'[e].status # "absent" BY <1>2
<1>4. round[r].running /\ Undisturbed(s) => FarAsBuilt(r)' /\ stand'[s].state # "built"
  BY <1>1, NotBuiltYet DEF FarAsBuilt
<1>5. There(c) => There(c)' BY DEF There
<1> QED BY <1>1, <1>2, <1>3, <1>4, <1>5, CanisterStep

\* One that ends its round without a stand built.
LEMMA LastCall ==
  ASSUME IInv, WholeInv, NEW r \in Slots, RoundGoesOn(r), ChainGrows, Called(r),
         NEW s \in Stands, NEW c \in Canisters, s = build[r].s, c = build[r].c,
         \A d \in Canisters : d # c => canister'[d] = canister[d],
         canister[c].status # "absent" => canister'[c].status # "absent",
         NEW finished, Returns(r, stand, finished),
         round[r].running /\ Undisturbed(s) => RowTrue(c)'
  PROVE  WholeInv'
<1>1. RowsInv /\ RoundsInv /\ stand \in [Stands -> Stand] /\ round[r].alive BY OthersStay DEF IInv, RowsInv
<1>2. ~round'[r].alive /\ \A u \in Stands : stand'[u].state \in {stand[u].state, "failed"}
  BY <1>1, ReturnsStates
<1>3. round[r].running /\ Undisturbed(s) => stand'[s].state # "built" BY <1>1, <1>2, NotBuiltYet
<1>4. \A u \in Stands : u # s /\ stand'[u].state = "built" => stand[u].state = "built" BY <1>2
<1>5. There(c) => There(c)' BY DEF There
<1> QED BY <1>2, <1>3, <1>4, <1>5, CanisterStep

\* One after which the next canister is handed over, or none is left.
LEMMA HandOverCall ==
  ASSUME IInv, WholeInv, NEW r \in Slots, RoundGoesOn(r), ChainGrows, Called(r),
         NEW s \in Stands, NEW c \in Canisters, s = build[r].s, c = build[r].c,
         \A d \in Canisters : d # c => canister'[d] = canister[d],
         canister[c].status # "absent" => canister'[c].status # "absent",
         HandOver(r, s),
         round[r].running /\ Undisturbed(s) =>
           RowTrue(c)' /\ With(s, "created") = {} /\ \A d \in With(s, "installed") : files'[d] = 0
  PROVE  WholeInv'
<1>1. /\ RowsInv /\ RowsInv' /\ RoundsInv /\ stand \in [Stands -> Stand] /\ round[r].alive
      /\ left' = left /\ \A u \in Stands : stand'[u].members = stand[u].members /\ stand[u].members \subseteq Canisters
  BY OthersStay DEF IInv, RowsInv, Stand
<1>a. There(c) => There(c)' BY DEF There
<1>2. CASE With(s, "installed") # {}
  <2>1. PICK e : e = Min(With(s, "installed")) OBVIOUS
  <2>2. Wait(r, "config", s, e) BY <1>2, <2>1 DEF HandOver
  <2>a. e \in With(s, "installed") BY <1>2, <2>1, MinCanister DEF With
  <2>3. e \in Canisters /\ StandOf[e] = s /\ canister'[e].status = "installed" BY <2>a DEF With
  <2>4. ASSUME round[r].running, Undisturbed(s) PROVE AsFar(s, e, "config")'
    <3>1. \A d \in Canisters : StandOf[d] = s => canister'[d].status # "created" /\ (canister'[d].status = "installed" => files'[d] = 0)
      BY <2>4 DEF With
    <3> QED BY <2>3, <3>1 DEF AsFar, Making, Finishing
  <2> QED BY <2>2, <2>3, <2>4, NextCall
<1>3. CASE With(s, "installed") = {}
  <2>1. Returns(r, [stand EXCEPT ![s].state = "built"], round[r].job # UpJob) BY <1>3 DEF HandOver
  <2>b. PICK rows : rows = [stand EXCEPT ![s].state = "built"] OBVIOUS
  <2>c. rows \in [Stands -> Stand] /\ \A u \in Stands : u # s => rows[u].state = stand[u].state
    BY <1>1, <2>b, BuiltRow
  <2>a. Returns(r, rows, round[r].job # UpJob) BY <2>1, <2>b
  <2>2. ~round'[r].alive /\ \A u \in Stands : u # s /\ stand'[u].state = "built" => stand[u].state = "built"
    BY <1>1, <2>a, <2>c, ReturnsStates
  <2>3. ASSUME round[r].running, Undisturbed(s) PROVE AllReady(s)'
    <3>1. Complete(s) BY <1>1, <2>3, NotBuiltYet
    <3>2. \A d \in Canisters : There(d) => There(d)' BY <1>a DEF There
    <3>3. Complete(s)' BY <1>1, <3>1, <3>2, StaysComplete
    <3> QED BY <1>1, <1>3, <2>3, <3>3, NoneLeft
  <2> QED BY <1>a, <2>2, <2>3, CanisterStep
<1> QED BY <1>2, <1>3

\* and one whose call answers or fails.
LEMMA CallKeepsWhole ==
  ASSUME IInv, WholeInv, NEW r \in Slots, RoundGoesOn(r),
         \/ CreateCanister(r) \/ InstallCode(r) \/ CheckHash(r) \/ ShareViewers(r) \/ SyncFiles(r)
         \/ Configure(r) \/ HandOff(r) \/ ShareStatus(r) \/ CallFails(r)
  PROVE  WholeInv'
<1>0. /\ RowsInv /\ stand \in [Stands -> Stand] /\ canister \in [Canisters -> Canister] /\ round[r].alive
      /\ \A d \in Canisters : files[d] \in Nat /\ files'[d] \in Nat /\ d \in Nat
      /\ filled \subseteq Canisters \X Nat
  BY OthersStay, RowsAssumption DEF IInv, RowsInv
<1>1. CASE ShareStatus(r)
  <2>1. Returns(r, stand, TRUE) /\ canister' = canister /\ UNCHANGED chain
    BY <1>1 DEF ShareStatus, Answers, WaitsAt, Done, chain
  <2> QED BY <1>0, <2>1, SameChain, ReturnsQuietly
<1>2. CASE CallFails(r)
  <2>1. Called(r) /\ canister' = canister BY <1>2 DEF CallFails, Called
  <2>2. ChainGrows
    <3>1. CASE UNCHANGED chain BY <1>0, <3>1, SameChain
    <3>2. CASE Done(r) BY <1>0, <2>1, <3>2, DoneGrows
    <3> QED BY <1>2, <3>1, <3>2 DEF CallFails
  <2>3. CASE ProvisionFailed(r)
    <3>1. PICK B : B = {build[r].s} OBVIOUS
    <3>2. Fail(stand, B) \in [Stands -> Stand] /\ \A u \in Stands : Fail(stand, B)[u].state \in {stand[u].state, "failed"}
      BY <1>0, FailOK
    <3> QED BY <2>1, <2>2, <2>3, <3>1, <3>2, ReturnsQuietly DEF ProvisionFailed
  <2> QED BY <1>2, <2>1, <2>2, <2>3, RaisesQuietly DEF CallFails
<1>3. ASSUME NEW at \in Making \cup Finishing, Answers(r, at)
      PROVE  /\ Called(r) /\ ChainGrows /\ Done(r) /\ build[r].at = at /\ build[r].s \in Stands /\ build[r].c \in Canisters
  <2>1. Called(r) /\ Done(r) /\ build[r].at = at BY <1>3 DEF Answers, WaitsAt, Called, Making, Finishing
  <2> QED BY <1>0, <2>1, DoneGrows DEF RowsInv, Called
<1>4. PICK s, c : s = build[r].s /\ c = build[r].c OBVIOUS
<1>5. ASSUME round[r].running, Undisturbed(s), Called(r)
      PROVE  AsFar(s, c, build[r].at) /\ RowTrue(c)
  BY <1>0, <1>4, <1>5, NotBuiltYet
<1> USE DEF Making, Finishing
<1>6. CASE CreateCanister(r)
  <2>1. Called(r) /\ ChainGrows /\ Done(r) /\ build[r].at = "create" /\ s \in Stands /\ c \in Canisters
    BY <1>3, <1>4, <1>6 DEF CreateCanister
  <2>2. /\ canister'[c].status = canister[c].status /\ \A d \in Canisters : d # c => canister'[d] = canister[d]
        /\ Wait(r, "install", s, c)
    BY <1>0, <1>4, <1>6, <2>1 DEF CreateCanister, Canister
  <2>3. round[r].running /\ Undisturbed(s) => RowTrue(c)' /\ AsFar(s, c, "install")'
    BY <1>5, <2>1, <2>2 DEF AsFar, RowTrue
  <2> QED BY <1>4, <2>1, <2>2, <2>3, NextCall
<1>7. CASE InstallCode(r)
  <2>1. Called(r) /\ ChainGrows /\ Done(r) /\ build[r].at = "install" /\ s \in Stands /\ c \in Canisters
    BY <1>3, <1>4, <1>7 DEF InstallCode
  <2>2. canister' = canister /\ Wait(r, "status", s, c) BY <1>4, <1>7 DEF InstallCode
  <2>3. OnIC(c)' \in filled' BY <1>4, <2>1, <2>2 DEF Done, OnIC
  <2>4. round[r].running /\ Undisturbed(s) => RowTrue(c)' /\ AsFar(s, c, "status")'
    BY <1>5, <2>1, <2>2, <2>3 DEF AsFar, RowTrue
  <2> QED BY <1>4, <2>1, <2>2, <2>4, NextCall
<1>8. CASE CheckHash(r)
  <2>1. Called(r) /\ ChainGrows /\ Done(r) /\ build[r].at = "status" /\ s \in Stands /\ c \in Canisters
    BY <1>3, <1>4, <1>8 DEF CheckHash
  <2>2. /\ canister'[c].status = canister[c].status /\ canister'[c].id = canister[c].id
        /\ \A d \in Canisters : d # c => canister'[d] = canister[d]
        /\ Wait(r, "settings", s, c)
    BY <1>0, <1>4, <1>8, <2>1 DEF CheckHash, Canister
  <2>3. OnIC(c)' = OnIC(c) /\ (OnIC(c) \in filled => OnIC(c)' \in filled') BY <2>1, <2>2 DEF ChainGrows, OnIC
  <2>4. round[r].running /\ Undisturbed(s) => RowTrue(c)' /\ AsFar(s, c, "settings")'
    BY <1>5, <2>1, <2>2, <2>3 DEF AsFar, RowTrue
  <2> QED BY <1>4, <2>1, <2>2, <2>4, NextCall
<1>9. CASE ShareViewers(r)
  <2>1. Called(r) /\ ChainGrows /\ Done(r) /\ build[r].at = "settings" /\ s \in Stands /\ c \in Canisters
    BY <1>3, <1>4, <1>9 DEF ShareViewers
  <2>2. /\ canister'[c].status = "installed" /\ canister'[c].id = canister[c].id
        /\ \A d \in Canisters : d # c => canister'[d] = canister[d]
        /\ Returns(r, stand, FALSE)
    BY <1>0, <1>4, <1>9, <2>1 DEF ShareViewers, Canister
  <2>3. OnIC(c)' = OnIC(c) /\ (OnIC(c) \in filled => OnIC(c)' \in filled') BY <2>1, <2>2 DEF ChainGrows, OnIC
  <2>4. round[r].running /\ Undisturbed(s) => RowTrue(c)' BY <1>5, <2>1, <2>2, <2>3 DEF AsFar, RowTrue
  <2> QED BY <1>4, <2>1, <2>2, <2>4, LastCall
<1>10. CASE SyncFiles(r)
  <2>1. Called(r) /\ ChainGrows /\ Done(r) /\ build[r].at = "sync" /\ s \in Stands /\ c \in Canisters
    BY <1>3, <1>4, <1>10 DEF SyncFiles
  <2>2. canister' = canister BY <1>10 DEF SyncFiles
  <2>3. round[r].running /\ Undisturbed(s) => RowTrue(c)' BY <1>0, <1>5, <2>1, <2>2, StaysTrue
  <2> DEFINE more == {d \in With(s, "installed") : d > c /\ Files[d] > 0}
  <2>4. \/ Returns(r, stand, FALSE)
        \/ files'[c] = 0 /\ more # {} /\ Wait(r, "sync", s, Min(more))
        \/ files'[c] = 0 /\ more = {} /\ HandOver(r, s)
    <3>1. files'[c] > 0 \/ files'[c] = 0 BY <1>0, <2>1
    <3>2. \/ files'[c] > 0 /\ Returns(r, stand, FALSE)
          \/ ~(files'[c] > 0) /\ (IF more # {} THEN Wait(r, "sync", s, Min(more)) ELSE HandOver(r, s))
      BY <1>4, <1>10 DEF SyncFiles
    <3> HIDE DEF more
    <3> QED BY <3>1, <3>2
  <2>5. ASSUME round[r].running, Undisturbed(s)
        PROVE  \A d \in Canisters : StandOf[d] = s =>
                 canister'[d].status # "created" /\ (canister'[d].status = "installed" => files'[d] = 0 \/ d = c \/ d \in more)
    <3>1. \A d \in Canisters : StandOf[d] = s =>
            canister[d].status # "created" /\ (canister[d].status = "installed" => files[d] = 0 \/ d >= c)
      BY <1>5, <2>1, <2>5 DEF AsFar
    <3>2. \A d \in Canisters : files[d] = 0 => files'[d] = 0 BY <1>0, <2>1 DEF ChainGrows
    <3>3. \A d \in Canisters : Files[d] > 0 \/ files'[d] = 0
      <4>1. \A d \in Canisters : Files[d] \in Nat /\ files[d] <= Files[d] /\ files'[d] <= files[d]
        BY <2>1, RowsAssumption DEF WholeInv, RowsKept, ChainGrows
      <4> QED BY <1>0, <4>1
    <3>4. \A d \in Canisters : d >= c => d = c \/ d > c BY <1>0, <2>1
    <3> QED BY <2>2, <3>1, <3>2, <3>3, <3>4 DEF With
  <2>6. ASSUME files'[c] = 0, more # {}, Wait(r, "sync", s, Min(more)) PROVE WholeInv'
    <3>1. PICK e : e = Min(more) OBVIOUS
    <3>2. e \in more /\ \A d \in more : e <= d
      <4>1. more \subseteq Nat BY <1>0 DEF With
      <4> HIDE DEF more
      <4> QED BY <2>6, <3>1, <4>1, MinOfNaturals
    <3>3. e \in Canisters /\ StandOf[e] = s /\ canister[e].status = "installed" /\ Wait(r, "sync", s, e)
      BY <2>2, <2>6, <3>1, <3>2 DEF With
    <3>4. ASSUME round[r].running, Undisturbed(s) PROVE AsFar(s, e, "sync")'
      <4>1. \A d \in Canisters : d \in more => d >= e BY <1>0, <3>2, <3>3
      <4>2. \A d \in Canisters : StandOf[d] = s =>
              canister'[d].status # "created" /\ (canister'[d].status = "installed" => files'[d] = 0 \/ d >= e)
        BY <2>5, <2>6, <3>4, <4>1
      <4> QED BY <2>2, <3>3, <4>2 DEF AsFar
    <3> QED BY <1>4, <2>1, <2>2, <2>3, <3>3, <3>4, NextCall
  <2>7. ASSUME files'[c] = 0, more = {}, HandOver(r, s) PROVE WholeInv'
    <3>1. ASSUME round[r].running, Undisturbed(s)
          PROVE  With(s, "created") = {} /\ \A d \in With(s, "installed") : files'[d] = 0
      BY <2>5, <2>7, <3>1 DEF With
    <3> QED BY <1>4, <2>1, <2>2, <2>3, <2>7, <3>1, HandOverCall
  <2> HIDE DEF more
  <2> QED BY <1>4, <2>1, <2>2, <2>3, <2>4, <2>6, <2>7, LastCall
<1>11. CASE Configure(r)
  <2>1. Called(r) /\ ChainGrows /\ Done(r) /\ build[r].at = "config" /\ s \in Stands /\ c \in Canisters
    BY <1>3, <1>4, <1>11 DEF Configure
  <2>2. canister' = canister /\ Wait(r, "controllers", s, c) BY <1>4, <1>11 DEF Configure
  <2>3. ASSUME round[r].running, Undisturbed(s) PROVE RowTrue(c)' /\ AsFar(s, c, "controllers")'
    <3>1. RowTrue(c)' BY <1>0, <1>5, <2>1, <2>2, <2>3, StaysTrue
    <3>2. \A d \in Canisters : files[d] = 0 => files'[d] = 0 BY <1>0, <2>1 DEF ChainGrows
    <3> QED BY <1>5, <2>1, <2>2, <2>3, <3>1, <3>2 DEF AsFar
  <2> QED BY <1>4, <2>1, <2>2, <2>3, NextCall
<1>12. CASE HandOff(r)
  <2>1. Called(r) /\ ChainGrows /\ Done(r) /\ build[r].at = "controllers" /\ s \in Stands /\ c \in Canisters
    BY <1>3, <1>4, <1>12 DEF HandOff
  <2>2. /\ canister'[c].status = "ready" /\ canister'[c].id = canister[c].id
        /\ \A d \in Canisters : d # c => canister'[d] = canister[d]
        /\ HandOver(r, s)
    BY <1>0, <1>4, <1>12, <2>1 DEF HandOff, Canister
  <2>3. OnIC(c)' = OnIC(c) /\ (OnIC(c) \in filled => OnIC(c)' \in filled') BY <2>1, <2>2 DEF ChainGrows, OnIC
  <2>4. c \in HandedAway => OnIC(c) \in handed' BY <1>4, <2>1 DEF Done
  <2>5. ASSUME round[r].running, Undisturbed(s)
        PROVE  RowTrue(c)' /\ With(s, "created") = {} /\ \A d \in With(s, "installed") : files'[d] = 0
    <3>1. \A d \in Canisters : files[d] = 0 => files'[d] = 0 BY <1>0, <2>1 DEF ChainGrows
    <3>2. /\ canister[c].status = "installed" /\ StandOf[c] = s
          /\ \A d \in Canisters : StandOf[d] = s => canister[d].status # "created" /\ (canister[d].status = "installed" => files[d] = 0)
      BY <1>0, <1>4, <1>5, <2>1, <2>5, NotBuiltYet DEF AsFar
    <3>3. RowTrue(c)' BY <1>5, <2>1, <2>2, <2>3, <2>4, <2>5, <3>1, <3>2 DEF RowTrue
    <3>4. \A d \in Canisters : StandOf[d] = s => canister'[d].status # "created" /\ (canister'[d].status = "installed" => files'[d] = 0)
      <4>1. ASSUME NEW d \in Canisters, StandOf[d] = s
            PROVE  canister'[d].status # "created" /\ (canister'[d].status = "installed" => files'[d] = 0)
        <5>1. CASE d = c BY <2>2, <5>1
        <5>2. CASE d # c BY <2>2, <3>1, <3>2, <4>1, <5>2
        <5> QED BY <5>1, <5>2
      <4> QED BY <4>1
    <3> QED BY <3>3, <3>4 DEF With
  <2> QED BY <1>4, <2>1, <2>2, <2>5, HandOverCall
<1> QED BY <1>1, <1>2, <1>6, <1>7, <1>8, <1>9, <1>10, <1>11, <1>12

\* A job waits for a round, or has one that is alive.
Pursued(j) == Waiting(j) \/ \E t \in Slots : round[t].alive /\ round[t].job = j

\* Jobs are for names their stands have or had: none is due for a name to come.
Named == \A s \in Stands, n \in Nat : Pursued(<<"stand", s, n>>) => n <= stand[s].name

\* What is due or pursued was so before, where at most job k was added to the queue and
\* no round was.
LEMMA JobsFrom ==
  ASSUME RoundsInv, NEW k, queue' = queue \/ (k \in Jobs /\ queue' = Queued(queue, k)),
         \A t \in Slots : round'[t].alive => round[t].alive /\ round'[t].job = round[t].job,
         NEW j
  PROVE  /\ build' = build /\ Due(j)' => Due(j) \/ j = k
         /\ Pursued(j)' => Pursued(j) \/ j = k
<1>1. Waiting(j)' => Waiting(j) \/ j = k
  <2>1. CASE queue' = queue BY <2>1 DEF Waiting
  <2>2. CASE k \in Jobs /\ queue' = Queued(queue, k)
    <3>1. queue \in Seq(Jobs) BY DEF RoundsInv, QueueOK
    <3>2. \A i \in DOMAIN queue' : queue'[i] = k \/ \E m \in DOMAIN queue : queue'[i] = queue[m]
      BY <2>2, <3>1 DEF Queued
    <3> QED BY <3>2 DEF Waiting
  <2> QED BY <2>1, <2>2
<1> QED BY <1>1 DEF Due, Pursued

\* A round's step pursues no job anew,
LEMMA PursuedFrom ==
  ASSUME IInv, NEW r \in Slots, RoundGoesOn(r), NEW j, Pursued(j)'
  PROVE  Pursued(j)
<1>1. Moves(r) /\ round[r].alive BY MoveTypes
<1>2. round \in [Slots -> Round] /\ RoundsOK(round) /\ RoundsInv BY DEF IInv, RoundsInv, RoundsOK
<1>3. CASE \E p \in Position : GoesTo(r, p)
  <2>1. queue' = queue /\ round' = round BY <1>3 DEF GoesTo, roundVars
  <2> QED BY <2>1 DEF Pursued, Waiting
<1>4. ASSUME NEW rows \in [Stands -> Stand], NEW finished \in BOOLEAN, Returns(r, rows, finished)
      PROVE  Pursued(j)
  <2>1. RoundsOK(Forget(r)) /\ round[r].job \in Jobs BY <1>1, <1>2, ForgetOK DEF RoundsOK
  <2>2. Kick(IF finished THEN queue ELSE Queued(queue, round[r].job), armed, ticks, Forget(r))
    BY <1>4 DEF Returns, RoundEnds
  <2>3. queue' = queue \/ queue' = Queued(queue, round[r].job) BY <2>2 DEF Kick
  <2>4. PICK q : Kick(q, armed, ticks, Forget(r)) BY <2>2
  <2>5. \A t \in Slots : round'[t].job = Forget(r)[t].job /\ round'[t].alive = Forget(r)[t].alive
    BY <2>1, <2>4, KickRounds
  <2>6. \A t \in Slots : Forget(r)[t] = IF t = r THEN NoRound ELSE round[t] BY <1>2 DEF Forget
  <2>7. \A t \in Slots : round'[t].alive => round[t].alive /\ round'[t].job = round[t].job
    BY <2>5, <2>6 DEF NoRound
  <2>8. Pursued(j) \/ j = round[r].job BY <1>2, <2>1, <2>3, <2>7, JobsFrom
  <2> QED BY <1>1, <2>8 DEF Pursued
<1>5. CASE RoundTraps(r) /\ UNCHANGED <<stand, build>>
  <2>1. /\ queue' = queue
        /\ \A t \in Slots : round'[t].job = round[t].job /\ (round'[t].alive => round[t].alive)
    BY <1>2, <1>5 DEF RoundTraps, Round
  <2> QED BY <2>1 DEF Pursued, Waiting
<1> QED BY <1>1, <1>2, <1>3, <1>4, <1>5, MoveKinds DEF IInv

\* and so keeps jobs to the names there are.
LEMMA RoundKeepsNamed == ASSUME IInv, Named, NEW r \in Slots, RoundGoesOn(r) PROVE Named'
<1>1. \A s \in Stands : stand'[s].name = stand[s].name BY OthersStay
<1>2. \A j : Pursued(j)' => Pursued(j) BY PursuedFrom
<1> QED BY <1>1, <1>2 DEF Named

\* Calls, timers and upgrades make no stand built, grow one that is held only as grown,
\* and schedule jobs under the names the stands have.
LEMMA OutsideKeepsWhole ==
  ASSUME IInv, IInv', WholeInv, Named,
         \/ Tick1 \/ Spare \/ Stale \/ AnyCall \/ OrchestraUp \/ UpgradeConductor \/ UNCHANGED vars
         \/ \E r \in Slots : LoseRound(r) \/ WatchdogFires(r) \/ Late(r) \/ Unwatched(r)
         \/ \E s \in Stands : StandCreate(s) \/ StandGrow(s) \/ StandRename(s)
  PROVE  WholeInv' /\ Named'
<1>0. /\ RowsInv /\ RowsInv' /\ RoundsInv /\ stand \in [Stands -> Stand]
      /\ RoundsOK(round) /\ round \in [Slots -> Round] /\ build \in [Slots -> Position]
      /\ \A t \in Slots : build[t].at \notin {"commit", "share"} => build[t].s \in Stands
  BY DEF IInv, RowsInv, RoundsInv, RoundsOK
<1>1. UNCHANGED chain => ChainGrows BY <1>0, SameChain
<1>a. \A s \in Stands : stand[s].name \in Nat /\ StandJob(s) \in Jobs /\ StandJob(s) # UpJob /\ StandJob(s)[2] = s
  BY <1>0, StandJobs, JobsDiffer DEF Stand
<1>b. \A s \in Stands : \A c \in stand[s].members : NameOf[c] = stand[s].name \/ There(c) \/ c \in left
  BY DEF WholeInv, RowsKept
<1>2. ASSUME NEW k, k = None \/ k \in Jobs, Call(k)
      PROVE  /\ \A t \in Slots : /\ round'[t].alive = round[t].alive /\ round'[t].job = round[t].job
                                 /\ round'[t].running => round[t].running
             /\ \A j \in Jobs : /\ build' = build /\ Due(j)' => Due(j) \/ j = k
                                /\ Pursued(j)' => Pursued(j) \/ j = k
  <2>1. Kick(IF k = None THEN queue ELSE Queued(queue, k), armed, ticks, round) BY <1>2 DEF Call
  <2>2. queue' = queue \/ (k \in Jobs /\ queue' = Queued(queue, k)) BY <1>2, <2>1 DEF Kick
  <2>3. PICK q : Kick(q, armed, ticks, round) BY <2>1
  <2>4. \A t \in Slots : /\ round'[t].alive = round[t].alive /\ round'[t].job = round[t].job
                         /\ round'[t].running => round[t].running
    BY <1>0, <2>3, KickRounds
  <2> QED BY <1>0, <2>2, <2>4, JobsFrom
<1>3. \A u \in Stands : /\ Kicked[u].members = stand[u].members /\ Kicked[u].name = stand[u].name
                        /\ Kicked[u].state \in {stand[u].state, "failed"}
  BY <1>0, KickedOK
\* No row and no stand changes but for its state, and no job comes but `up`.
<1>4. ASSUME ChainGrows, UNCHANGED <<canister, grown, haunted, left>>,
             \A u \in Stands : /\ stand'[u].members = stand[u].members /\ stand'[u].name = stand[u].name
                               /\ stand'[u].state = "built" => stand[u].state = "built",
             \A t \in Slots : round'[t].alive /\ build'[t].at \notin {"commit", "share"} =>
               round[t].alive /\ build'[t] = build[t] /\ (round'[t].running => round[t].running),
             \A j \in Jobs : j # UpJob => (Due(j)' => Due(j)) /\ (Pursued(j)' => Pursued(j))
      PROVE  WholeInv' /\ Named'
  <2>1. ASSUME NEW t \in Slots, round'[t].alive, build'[t].at \notin {"commit", "share"}
        PROVE  /\ round[t].alive /\ build'[t] = build[t] /\ (round'[t].running => round[t].running)
               /\ build[t].s \in grown' \/ \A c \in stand'[build[t].s].members : c \in stand[build[t].s].members \/ There(c)
    <3>1. round[t].alive /\ build'[t] = build[t] /\ (round'[t].running => round[t].running) BY <1>4, <2>1
    <3>2. build[t].s \in Stands BY <1>0, <2>1, <3>1
    <3> QED BY <1>4, <3>1, <3>2
  <2>2. \A s \in Stands : \A c \in stand'[s].members : NameOf[c] = stand'[s].name \/ There(c) \/ c \in left'
    BY <1>b, <1>4
  <2>3. \A s \in Stands : StandJob(s)' = StandJob(s) BY <1>4 DEF StandJob
  <2>4. \A s \in Stands, j \in Jobs :
          j = StandJob(s)' /\ Undisturbed(s)' /\ Due(j)' /\ (stand'[s].state = "built" \/ HeldNow(s)') =>
            j = StandJob(s) /\ Due(j) /\ stand'[s].members = stand[s].members
    BY <1>a, <1>4, <2>3
  <2>5. WholeInv' BY <1>0, <1>4, <2>1, <2>2, <2>4, RowsLeftAlone
  <2>6. Named'
    <3> SUFFICES ASSUME NEW s \in Stands, NEW n \in Nat, Pursued(<<"stand", s, n>>)' PROVE n <= stand'[s].name
      BY DEF Named
    <3>1. PICK j : j = <<"stand", s, n>> OBVIOUS
    <3>2. j \in Jobs
      <4>1. RoundsInv' /\ RoundsOK(round') /\ QueueOK(queue') BY DEF IInv, RoundsInv
      <4> QED BY <3>1, <4>1 DEF Pursued, Waiting, RoundsOK, QueueOK
    <3>3. j # UpJob BY <3>1 DEF UpJob
    <3>4. Pursued(j) BY <1>4, <3>1, <3>2, <3>3
    <3> QED BY <1>4, <3>1, <3>4 DEF Named
  <2> QED BY <2>5, <2>6
\* The queue and the rounds' jobs stay.
<1>5. ASSUME ChainGrows, UNCHANGED <<queue, canister, build, grown, haunted, left>>,
             \A u \in Stands : /\ stand'[u].members = stand[u].members /\ stand'[u].name = stand[u].name
                               /\ stand'[u].state = "built" => stand[u].state = "built",
             \A t \in Slots : /\ round'[t].alive => round[t].alive /\ round'[t].job = round[t].job
                              /\ round'[t].running => round[t].running
      PROVE  WholeInv' /\ Named'
  <2>1. \A j \in Jobs : (Due(j)' => Due(j)) /\ (Pursued(j)' => Pursued(j))
    BY <1>0, <1>5, NoneAssumption, JobsFrom
  <2> QED BY <1>4, <1>5, <2>1
<1>6. CASE Tick1
  <2> DEFINE r == CHOOSE s \in Slots : Vacant(s)
  <2>1. /\ Tick(r) /\ build' = [build EXCEPT ![r] = Start]
        /\ UNCHANGED <<stand, canister, chain, grown, haunted, left>>
    BY <1>6 DEF Tick1, history
  <2>2. Running = {} /\ queue # <<>> BY <2>1 DEF Tick, MayStart
  <2>3. r \in Slots BY <2>2, RoomForOne DEF IInv
  <2> HIDE DEF r
  <2>4. \A t \in Slots : t # r => round'[t] = round[t] /\ build'[t] = build[t] BY <1>0, <2>1, <2>3 DEF Tick
  <2>5. build'[r].at = "commit" BY <1>0, <2>1, <2>3 DEF Start
  <2>6. round'[r].job = Head(queue) /\ queue' = Tail(queue) BY <1>0, <2>1, <2>3 DEF Tick
  <2>7. /\ Waiting(Head(queue))
        /\ \A j : Waiting(j)' => Waiting(j)
    <3>1. queue \in Seq(Jobs) BY <1>0 DEF RoundsInv, QueueOK
    <3>2. /\ 1 \in DOMAIN queue /\ Head(queue) = queue[1]
          /\ \A i \in DOMAIN Tail(queue) : i + 1 \in DOMAIN queue /\ Tail(queue)[i] = queue[i + 1]
      BY <2>2, <3>1
    <3> QED BY <2>6, <3>2 DEF Waiting
  <2>8. \A j \in Jobs : (Due(j)' => Due(j)) /\ (Pursued(j)' => Pursued(j)) BY <2>4, <2>6, <2>7 DEF Due, Pursued
  <2>9. \A t \in Slots : round'[t].alive /\ build'[t].at \notin {"commit", "share"} =>
          round[t].alive /\ build'[t] = build[t] /\ (round'[t].running => round[t].running)
    BY <2>4, <2>5
  <2> QED BY <1>1, <1>4, <2>1, <2>8, <2>9
<1>7. CASE Spare \/ Stale
  BY <1>1, <1>5, <1>7 DEF Spare, SpareTick, Stale, TimerStale, Quiet, history
<1>8. ASSUME NEW r \in Slots, Late(r) \/ Unwatched(r) PROVE WholeInv' /\ Named'
  <2>1. \A t \in Slots : /\ round'[t].alive => round[t].alive /\ round'[t].job = round[t].job
                         /\ round'[t].running => round[t].running
    BY <1>0, <1>8 DEF Late, OutlastWatchdog, Unwatched, DropWatchdog, Round
  <2>2. queue' = queue BY <1>8 DEF Late, OutlastWatchdog, Unwatched, DropWatchdog
  <2> QED BY <1>1, <1>5, <1>8, <2>1, <2>2 DEF Late, Unwatched, Quiet, history
<1>9. ASSUME NEW r \in Slots, LoseRound(r) PROVE WholeInv' /\ Named'
  <2>1. ChainGrows
    <3>1. CASE UNCHANGED chain BY <1>1, <3>1
    <3>2. CASE Called(r) /\ Done(r) BY <1>0, <3>2, DoneGrows
    <3> QED BY <1>9, <3>1, <3>2 DEF LoseRound, Called
  <2>2. \A t \in Slots : /\ round'[t].alive => round[t].alive /\ round'[t].job = round[t].job
                         /\ round'[t].running => round[t].running
    BY <1>0, <1>9 DEF LoseRound, RoundDies, RoundTraps, Round
  <2>3. queue' = queue BY <1>9 DEF LoseRound, RoundDies, RoundTraps
  <2> QED BY <1>5, <1>9, <2>1, <2>2, <2>3 DEF LoseRound, history
<1>10. ASSUME NEW r \in Slots, WatchdogFires(r) PROVE WholeInv' /\ Named'
  <2>1. queue' = queue /\ Kick(queue, armed, ticks, round) BY <1>10 DEF WatchdogFires, Watchdog, Kick
  <2>2. \A t \in Slots : /\ round'[t].alive => round[t].alive /\ round'[t].job = round[t].job
                         /\ round'[t].running => round[t].running
    BY <1>0, <2>1, KickRounds
  <2>3. \A u \in Stands : /\ stand'[u].members = stand[u].members /\ stand'[u].name = stand[u].name
                          /\ stand'[u].state = "built" => stand[u].state = "built"
    BY <1>3, <1>10 DEF WatchdogFires
  <2> QED BY <1>1, <1>5, <1>10, <2>1, <2>2, <2>3 DEF WatchdogFires, history
\* A call that makes no work, or schedules `up`.
<1>11. ASSUME NEW k, k = None \/ k = UpJob, Call(k), UNCHANGED <<canister, chain, build, grown, haunted, left>>,
              \A u \in Stands : /\ stand'[u].members = stand[u].members /\ stand'[u].name = stand[u].name
                                /\ stand'[u].state = "built" => stand[u].state = "built"
       PROVE  WholeInv' /\ Named'
  <2>1. k = None \/ k \in Jobs BY <1>11, JobsAssumption
  <2>2. \A j \in Jobs : j # UpJob => j # k BY <1>11, NoneAssumption
  <2>3. \A j \in Jobs : j # UpJob => (Due(j)' => Due(j)) /\ (Pursued(j)' => Pursued(j)) BY <1>2, <1>11, <2>1, <2>2
  <2>4. \A t \in Slots : round'[t].alive = round[t].alive /\ (round'[t].running => round[t].running)
    BY <1>2, <1>11, <2>1
  <2> QED BY <1>1, <1>4, <1>11, <2>3, <2>4
<1>12. CASE AnyCall
  BY <1>3, <1>11, <1>12 DEF AnyCall, Calls, history
<1>13. CASE OrchestraUp
  <2>1. \A u \in Stands : /\ stand'[u].members = stand[u].members /\ stand'[u].name = stand[u].name
                          /\ stand'[u].state = "built" => stand[u].state = "built"
    BY <1>0, <1>3, <1>13, KickedOK DEF OrchestraUp, Calls, Stand
  <2> QED BY <1>11, <1>13, <2>1 DEF OrchestraUp, Calls, history
<1>14. ASSUME NEW s \in Stands, NEW more \in SUBSET Growth(s), Grow(s, more) PROVE WholeInv' /\ Named'
  <2>1. /\ stand' = [Kicked EXCEPT ![s].state = "pending", ![s].members = @ \cup more]
        /\ Call(StandJob(s)) /\ UNCHANGED <<canister, chain, build>> /\ UNCHANGED <<haunted, left>>
        /\ grown' = IF Held(s) /\ (\E c \in Members(s) \cup more : ~There(c)) THEN grown \cup {s} ELSE grown
    BY <1>14 DEF Grow, Calls
  <2>2. /\ stand'[s].members = stand[s].members \cup more /\ stand'[s].state = "pending"
        /\ \A u \in Stands : /\ u # s => stand'[u].members = stand[u].members
                             /\ stand'[u].name = stand[u].name
                             /\ stand'[u].state = "built" => u # s /\ stand[u].state = "built"
    BY <1>0, <1>3, <2>1, KickedOK DEF Stand
  <2>3. /\ \A t \in Slots : round'[t].alive = round[t].alive /\ (round'[t].running => round[t].running)
        /\ \A j \in Jobs : j # StandJob(s) => (Due(j)' => Due(j)) /\ (Pursued(j)' => Pursued(j))
    BY <1>2, <1>a, <2>1
  <2>4. \A c \in more : c \in Own(s) /\ c \in Optional /\ NameOf[c] = stand[s].name BY <1>14 DEF Growth
  <2>5. grown \subseteq grown' /\ (Held(s) /\ s \notin grown' => \A c \in Members(s) \cup more : There(c)) BY <2>1
  <2>6. ASSUME NEW t \in Slots, round'[t].alive, build'[t].at \notin {"commit", "share"}
        PROVE  /\ round[t].alive /\ build'[t] = build[t] /\ (round'[t].running => round[t].running)
               /\ build[t].s \in grown' \/ \A c \in stand'[build[t].s].members : c \in stand[build[t].s].members \/ There(c)
    <3>1. round[t].alive /\ build'[t] = build[t] /\ (round'[t].running => round[t].running) BY <2>1, <2>3, <2>6
    <3>2. build[t].s \in Stands BY <1>0, <2>6, <3>1
    <3>3. build[t].s = s => Held(s) BY <2>6, <3>1 DEF Held, Alive
    <3> QED BY <2>2, <2>5, <3>1, <3>2, <3>3
  <2>7. \A u \in Stands : \A c \in stand'[u].members : NameOf[c] = stand'[u].name \/ There(c) \/ c \in left'
    BY <1>b, <2>1, <2>2, <2>4
  <2>8. \A u \in Stands : StandJob(u)' = StandJob(u) BY <2>2 DEF StandJob
  <2>9. Held(s) /\ s \notin grown' => \A c \in Members(s)' : There(c)
    <3>1. \A c \in Members(s)' : c \in Members(s) \cup more BY <2>2 DEF Members, Own
    <3> QED BY <2>5, <3>1
  <2>10. HeldNow(s)' => Held(s) BY <2>1, <2>3 DEF HeldNow, Called, Held, Alive
  <2>11. ASSUME NEW u \in Stands, NEW j \in Jobs, j = StandJob(u)', Undisturbed(u)', Due(j)',
                stand'[u].state = "built" \/ HeldNow(u)'
         PROVE  \/ j = StandJob(u) /\ Due(j) /\ stand'[u].members = stand[u].members
                \/ \A c \in Members(u)' : There(c)
    <3>1. CASE u # s BY <1>a, <2>2, <2>3, <2>8, <2>11, <3>1
    <3>2. CASE u = s BY <2>2, <2>9, <2>10, <2>11, <3>2 DEF Undisturbed
    <3> QED BY <3>1, <3>2
  <2>12. WholeInv'
    <3>1. \A u \in Stands : stand'[u].state = "built" => stand[u].state = "built" /\ stand'[u].members = stand[u].members
      BY <2>2
    <3> QED BY <1>0, <1>1, <2>1, <2>5, <2>6, <2>7, <2>11, <3>1, RowsLeftAlone
  <2>13. Named'
    <3> SUFFICES ASSUME NEW u \in Stands, NEW n \in Nat, Pursued(<<"stand", u, n>>)' PROVE n <= stand[u].name
      BY <2>2 DEF Named
    <3>1. PICK j : j = <<"stand", u, n>> OBVIOUS
    <3>2. j \in Jobs
      <4>1. RoundsOK(round') /\ QueueOK(queue') BY DEF IInv, RoundsInv
      <4> QED BY <3>1, <4>1 DEF Pursued, Waiting, RoundsOK, QueueOK
    <3>3. CASE j = StandJob(s) BY <1>a, <3>1, <3>3 DEF StandJob
    <3>4. CASE j # StandJob(s)
      <4>1. Pursued(j) BY <2>3, <3>1, <3>2, <3>4
      <4> QED BY <3>1, <4>1 DEF Named
    <3> QED BY <3>3, <3>4
  <2> QED BY <2>12, <2>13
<1>15. ASSUME NEW s \in Stands, StandRename(s) PROVE WholeInv' /\ Named'
  <2>1. /\ stand' = [Kicked EXCEPT ![s].name = @ + 1]
        /\ Call(None) /\ UNCHANGED <<canister, chain, build>> /\ UNCHANGED <<grown, haunted>>
        /\ left' = left \cup {c \in stand[s].members : ~There(c)}
    BY <1>15 DEF StandRename, Calls
  <2>2. /\ stand'[s].name = stand[s].name + 1
        /\ \A u \in Stands : /\ stand'[u].members = stand[u].members
                             /\ u # s => stand'[u].name = stand[u].name
                             /\ stand'[u].state = "built" => stand[u].state = "built"
    BY <1>0, <1>3, <2>1, KickedOK DEF Stand
  <2>3. /\ \A t \in Slots : round'[t].alive = round[t].alive /\ (round'[t].running => round[t].running)
        /\ \A j \in Jobs : (Due(j)' => Due(j)) /\ (Pursued(j)' => Pursued(j))
    BY <1>2, <2>1, NoneAssumption
  <2>4. ASSUME NEW t \in Slots, round'[t].alive, build'[t].at \notin {"commit", "share"}
        PROVE  /\ round[t].alive /\ build'[t] = build[t] /\ (round'[t].running => round[t].running)
               /\ build[t].s \in grown' \/ \A c \in stand'[build[t].s].members : c \in stand[build[t].s].members \/ There(c)
    <3>1. round[t].alive /\ build'[t] = build[t] /\ (round'[t].running => round[t].running) BY <2>1, <2>3, <2>4
    <3>2. build[t].s \in Stands BY <1>0, <2>4, <3>1
    <3> QED BY <2>2, <3>1, <3>2
  <2>5. \A u \in Stands : \A c \in stand'[u].members : NameOf[c] = stand'[u].name \/ There(c) \/ c \in left'
    BY <1>b, <2>1, <2>2
  <2>6. ASSUME NEW u \in Stands, NEW j \in Jobs, j = StandJob(u)', Due(j)'
        PROVE  j = StandJob(u) /\ Due(j) /\ stand'[u].members = stand[u].members
    <3>1. Due(j) BY <2>3, <2>6
    <3>2. CASE u # s BY <2>2, <2>6, <3>1, <3>2 DEF StandJob
    <3>3. CASE u = s
      <4>1. j = <<"stand", s, stand[s].name + 1>> BY <2>2, <2>6, <3>3 DEF StandJob
      <4>2. Pursued(j) BY <3>1 DEF Due, Pursued
      <4>3. stand[s].name \in Nat /\ stand[s].name + 1 \in Nat BY <1>a
      <4>4. stand[s].name + 1 <= stand[s].name BY <4>1, <4>2, <4>3 DEF Named
      <4> QED BY <4>3, <4>4
    <3> QED BY <3>2, <3>3
  <2>7. WholeInv'
    <3>1. \A u \in Stands : stand'[u].state = "built" => stand[u].state = "built" /\ stand'[u].members = stand[u].members
      BY <2>2
    <3> QED BY <1>0, <1>1, <2>1, <2>4, <2>5, <2>6, <3>1, RowsLeftAlone
  <2>8. Named'
    <3> SUFFICES ASSUME NEW u \in Stands, NEW n \in Nat, Pursued(<<"stand", u, n>>)' PROVE n <= stand'[u].name
      BY DEF Named
    <3>1. PICK j : j = <<"stand", u, n>> OBVIOUS
    <3>2. j \in Jobs
      <4>1. RoundsOK(round') /\ QueueOK(queue') BY DEF IInv, RoundsInv
      <4> QED BY <3>1, <4>1 DEF Pursued, Waiting, RoundsOK, QueueOK
    <3>3. Pursued(j) BY <2>3, <3>1, <3>2
    <3>4. n <= stand[u].name BY <3>1, <3>3 DEF Named
    <3>5. stand[u].name <= stand'[u].name BY <1>a, <2>2
    <3>6. stand'[u].name \in Nat BY <1>a, <2>2
    <3> QED BY <1>a, <3>4, <3>5, <3>6
  <2> QED BY <2>7, <2>8
<1>16. CASE UpgradeConductor
  <2>1. ChainGrows
    <3>1. ASSUME NEW r \in Alive, build[r].at \notin {"commit", "share"}, Done(r) PROVE ChainGrows
      BY <1>0, <3>1, DoneGrows DEF Alive, Called
    <3> QED BY <1>1, <1>16, <3>1 DEF UpgradeConductor
  <2>2. queue' = PendingJobs /\ \A t \in Slots : ~round'[t].alive
    <3> DEFINE none == [t \in Slots |-> NoRound]
    <3>1. Kick(PendingJobs, "no", 0, none) BY <1>16 DEF UpgradeConductor, Upgrade
    <3>2. \A t \in Slots : ~none[t].alive BY DEF NoRound
    <3>3. RoundsOK(none) BY NoRoundsOK
    <3> HIDE DEF none
    <3>4. \A t \in Slots : ~round'[t].alive BY <3>1, <3>2, <3>3, KickRounds
    <3> QED BY <3>1, <3>4 DEF Kick
  <2>3. UNCHANGED <<stand, canister, build, grown, haunted, left>> BY <1>16 DEF UpgradeConductor
  <2>4. \A j : Pursued(j)' => j = UpJob \/ \E u \in Pending : j = StandJob(u)
    BY <1>0, <2>2, PendingJobsOK DEF Pursued, Waiting
  <2>5. WholeInv'
    <3>1. \A j : Due(j)' => Pursued(j)' BY DEF Due, Pursued
    <3>2. ASSUME NEW s \in Stands, NEW j \in Jobs, j = StandJob(s)', Due(j)', stand'[s].state = "built" \/ HeldNow(s)'
          PROVE  FALSE
      <4>1. ~HeldNow(s)' BY <2>2 DEF HeldNow
      <4>2. j = StandJob(s) /\ stand[s].state = "built" BY <2>3, <3>2, <4>1 DEF StandJob
      <4>3. PICK u \in Pending : j = StandJob(u) BY <1>a, <2>4, <3>1, <3>2, <4>2
      <4>4. u = s BY <1>a, <4>2, <4>3 DEF Pending
      <4> QED BY <4>2, <4>3, <4>4 DEF Pending
    <3> QED BY <1>0, <1>b, <2>1, <2>2, <2>3, <3>2, RowsLeftAlone
  <2>6. Named'
    <3> SUFFICES ASSUME NEW s \in Stands, NEW n \in Nat, Pursued(<<"stand", s, n>>)' PROVE n <= stand[s].name
      BY <2>3 DEF Named
    <3>1. <<"stand", s, n>> # UpJob BY DEF UpJob
    <3>2. PICK u \in Pending : <<"stand", s, n>> = StandJob(u) BY <2>4, <3>1
    <3>3. u = s /\ n = stand[s].name BY <3>2 DEF StandJob
    <3> QED BY <1>a, <3>3
  <2> QED BY <2>5, <2>6
<1>17. CASE UNCHANGED vars
  BY <1>1, <1>5, <1>17 DEF vars, roundVars, chain, history
<1>18. ASSUME NEW s \in Stands, StandCreate(s) \/ StandGrow(s) PROVE WholeInv' /\ Named'
  <2>1. \E more \in SUBSET Growth(s) : Grow(s, more) BY <1>18 DEF StandCreate, StandGrow
  <2> QED BY <1>14, <2>1
<1> QED BY <1>6, <1>7, <1>8, <1>9, <1>10, <1>12, <1>13, <1>15, <1>16, <1>17, <1>18

\* A stand that shows built is whole: it has a row for all its template gives it and for
\* what it was asked for, each with its code and its files, configured and handed over,
\* whatever calls failed, answered late or were asked for again, and whatever it was
\* renamed to.  Not judged are a stand that was asked for more under its build, one that
\* a round given up came back to, and a member that had no row when its stand was renamed.
THEOREM BuiltStandsAreWhole == Spec => []BuiltIsWhole
<1>1. Init => WholeInv /\ Named
  <2> SUFFICES ASSUME Init PROVE WholeInv /\ Named OBVIOUS
  <2>1. \A c \in Canisters : canister[c].status = "absent" /\ files[c] <= Files[c] BY RowsAssumption DEF Init
  <2>2. queue = <<>> /\ \A r \in Slots : ~round[r].alive BY DEF Init, RoundsInit, NoRound
  <2>3. \A s \in Stands : stand[s].state = "absent" /\ stand[s].members = {} BY DEF Init
  <2>4. \A j : ~Waiting(j) BY <2>2 DEF Waiting
  <2>5. RowsDue BY <2>2, <2>4 DEF RowsDue, Due
  <2> QED BY <2>1, <2>2, <2>3, <2>4, <2>5 DEF WholeInv, RowsKept, RowTrue, Named, Pursued
<1>2. IInv /\ WholeInv /\ Named /\ [Next]_vars => WholeInv' /\ Named'
  <2> SUFFICES ASSUME IInv, WholeInv, Named, [Next]_vars PROVE WholeInv' /\ Named' OBVIOUS
  <2>1. IInv' BY NextIInv
  <2>2. ASSUME NEW r \in Slots, RoundGoesOn(r) PROVE WholeInv' /\ Named'
    BY <2>2, BeginKeepsWhole, CallKeepsWhole, RoundKeepsNamed DEF RoundGoesOn, Advance
  <2> QED BY <2>1, <2>2, OutsideKeepsWhole DEF Next
<1>3. IInv /\ WholeInv => BuiltIsWhole
  <2> SUFFICES ASSUME IInv, WholeInv, NEW s \in Stands, stand[s].state = "built", Undisturbed(s)
               PROVE  Whole(s)
    BY DEF BuiltIsWhole
  <2>1. AllReady(s) BY DEF WholeInv
  <2>2. ASSUME NEW c \in Own(s), There(c) PROVE Finished(c)
    <3>1. c \in Canisters /\ StandOf[c] = s BY DEF Own
    <3>2. canister[c].status = "ready" /\ RowTrue(c) BY <2>1, <2>2, <3>1 DEF WholeInv, AllReady
    <3> QED BY <3>2 DEF RowTrue, Finished
  <2> QED BY <2>1, <2>2 DEF Whole, AllReady, Complete
<1> QED BY <1>1, <1>2, <1>3, InitIInv, NextIInv, PTL DEF Spec
-----------------------------------------------------------------------------
(* What the rows of the governed canisters say *)

Wasms == Builds \cup {NoRequest.w}
ShotRecord == [id : Nat, code : Wasms]
BackRecord == [c : Governed, hash : Wasms, id : Nat]
RequestRecord ==
  [at : {"idle", "take", "snapshot", "restore", "install", "status", "load", "delete", "list", "prune"},
   about : SUBSET Governed, w : Wasms, todo : Seq(Governed), back : Seq(BackRecord), shot : Nat,
   kept : SUBSET Nat, surplus : Seq(Nat)]

\* The canisters a request has a way back for.
Behind(back) == {back[i].c : i \in DOMAIN back}
BackList(back) == [i \in DOMAIN back |-> back[i].c]

\* A request names no canister twice, and each of its lists is of the canisters it is about.
RequestOK(r) ==
  /\ r \in RequestRecord /\ (r.at = "idle" => r = NoRequest)
  /\ r.at # "idle" => r.todo # <<>> /\ IsInjective(r.todo) /\ ToSet(r.todo) \subseteq r.about
  /\ Behind(r.back) \subseteq r.about /\ IsInjective(BackList(r.back))
  /\ r.at = "take" => r.about = Behind(r.back) \cup ToSet(r.todo) /\ Behind(r.back) \cap ToSet(r.todo) = {}
  /\ r.at \in {"install", "status"} => r.about = Behind(r.back) /\ r.back # <<>>
  /\ r.at \in {"load", "delete"} => r.todo = BackList(r.back)
  /\ r.at \in {"list", "prune"} => ToSet(Tail(r.todo)) \subseteq Behind(r.back)
  /\ r.at = "snapshot" => Tail(r.todo) = <<>>

\* The newest is the first, and none is of a number to come.
ShotsOK(all, n) ==
  /\ all \in Seq(ShotRecord)
  /\ \A i, j \in DOMAIN all : i < j => all[i].id > all[j].id
  /\ \A i \in DOMAIN all : all[i].id \in 1..n

CanistersOK ==
  /\ code \in [Governed -> Wasms] /\ hash \in [Governed -> Wasms]
  /\ DOMAIN shots = Governed /\ taken \in Nat /\ \A c \in Governed : ShotsOK(shots[c], taken)
  /\ labels \in [Governed -> SUBSET Nat] /\ newest \in [Governed -> Nat]
  /\ request \in [Requests -> RequestRecord] /\ \A q \in Requests : RequestOK(request[q])
  /\ failed \in Nat /\ crossed \subseteq Governed /\ restored \subseteq Governed

\* Requests about one canister at once are about crossed ones only.
Apart ==
  \A p, q \in Requests :
    p # q /\ request[p].about \cap request[q].about # {} => request[p].about \cup request[q].about \subseteq crossed

ToldRight(c) == hash[c] = code[c]
IdsOf(c) == {shots[c][i].id : i \in DOMAIN shots[c]}
Known(c) == Len(shots[c]) <= Keep /\ labels[c] = IdsOf(c) /\ (newest[c] # 0 => newest[c] \in labels[c])

\* One was taken that the row does not know yet.
OneNew(c, id) ==
  /\ shots[c] # <<>> /\ Len(shots[c]) <= Keep + 1 /\ shots[c][1].id = id
  /\ labels[c] = IdsOf(c) \ {id} /\ (newest[c] # 0 => newest[c] \in labels[c])

\* What request r relies on, of canisters no other is about.
StillHas(r) ==
  /\ r.at \in {"take", "install", "status", "load", "delete"} => \A i \in DOMAIN r.back : Has(r.back[i].c, r.back[i].id)
  /\ r.at = "status" => code[Head(r.todo)] = r.w
  /\ r.at = "delete" => r.shot = Head(r.back).id
  /\ r.at \in {"load", "delete"} => failed >= 1
  /\ r.at = "prune" =>
       /\ Has(Head(r.todo), r.shot) /\ IsInjective(r.surplus)
       /\ \A x \in ToSet(r.surplus) : x # r.shot /\ Has(Head(r.todo), x)

\* How far request r is with the row of canister c ...
RowSays(r, c) ==
  /\ r.at \notin {"status", "load", "delete"} => ToldRight(c)
  /\ r.at = "status" /\ c # Head(r.todo) => ToldRight(c)
  /\ r.at \in {"load", "delete"} /\ c \notin ToSet(r.todo) => ToldRight(c)
  /\ r.at = "delete" /\ c = Head(r.todo) => code[c] = Head(r.back).hash
  /\ r.at \in {"take", "install", "status", "load", "delete"} =>
       \A i \in DOMAIN r.back : r.back[i].c = c => ShotOf(c, r.back[i].id).code = r.back[i].hash

\* ... and with its snapshots.
ShotsSay(r, c) ==
  /\ r.at \in {"idle", "snapshot", "restore"} => Known(c)
  /\ r.at = "take" /\ c \in ToSet(r.todo) => Known(c)
  /\ \/ r.at \in {"take", "install", "status"}
     \/ r.at \in {"list", "prune"} /\ c \in ToSet(Tail(r.todo))
     => \A i \in DOMAIN r.back : r.back[i].c = c => OneNew(c, r.back[i].id)
  /\ r.at \in {"list", "prune"} /\ c \notin ToSet(r.todo) => Known(c)
  /\ r.at \in {"list", "prune"} /\ c = Head(r.todo) => shots[c] # <<>> /\ newest[c] = shots[c][1].id
  /\ r.at = "list" /\ c = Head(r.todo) => Len(shots[c]) <= Keep + 1 /\ labels[c] = IdsOf(c) /\ r.kept = IdsOf(c)
  /\ r.at = "prune" /\ c = Head(r.todo) =>
       /\ Len(shots[c]) = Keep + 1 /\ r.shot = shots[c][Keep + 1].id /\ r.surplus = <<>>
       /\ r.kept = IdsOf(c) \ {r.shot}

\* What the property says of c, of a request about it, unless it is crossed.
Says(r, c) ==
  /\ failed <= 1 /\ c \notin restored => RowSays(r, c)
  /\ failed = 0 => ShotsSay(r, c)

\* The inductive invariant.
GovernedInv ==
  /\ CanistersOK /\ Apart
  /\ \A q \in Requests : ~ request[q].about \subseteq crossed =>
       StillHas(request[q]) /\ \A c \in request[q].about \ crossed : Says(request[q], c)
  /\ \A c \in Governed \ crossed : About(c) = {} => Says(NoRequest, c)

LEMMA NoRequestOK ==
  /\ NoRequest.at = "idle" /\ NoRequest.about = {} /\ NoRequest.todo = <<>> /\ NoRequest.back = <<>>
  /\ NoRequest.surplus = <<>> /\ NoRequest.shot = 0 /\ NoRequest.kept = {} /\ NoRequest \in RequestRecord
  /\ RequestOK(NoRequest) /\ StillHas(NoRequest)
<1>1. /\ NoRequest.at = "idle" /\ NoRequest.about = {} /\ NoRequest.todo = <<>> /\ NoRequest.back = <<>>
      /\ NoRequest.surplus = <<>> /\ NoRequest.shot = 0 /\ NoRequest.kept = {}
  BY DEF NoRequest
<1>2. NoRequest.w \in Wasms BY DEF Wasms
<1>3. <<>> \in Seq(Governed) /\ <<>> \in Seq(BackRecord) /\ <<>> \in Seq(Nat) /\ DOMAIN <<>> = {} OBVIOUS
<1>4. PICK b \in Wasms :
        NoRequest = [at |-> "idle", about |-> {}, w |-> b, todo |-> <<>>, back |-> <<>>, shot |-> 0, kept |-> {}, surplus |-> <<>>]
  BY <1>2 DEF NoRequest
<1>5. NoRequest \in RequestRecord
  <2>1. {} \in SUBSET Governed /\ {} \in SUBSET Nat /\ 0 \in Nat OBVIOUS
  <2> QED BY <1>3, <1>4, <2>1 DEF RequestRecord
<1>6. Behind(NoRequest.back) = {} /\ IsInjective(BackList(NoRequest.back)) BY <1>1, <1>3 DEF Behind, BackList, IsInjective
<1>7. RequestOK(NoRequest) BY <1>1, <1>5, <1>6 DEF RequestOK
<1>8. StillHas(NoRequest) BY <1>1 DEF StillHas
<1> QED BY <1>1, <1>5, <1>7, <1>8

\* The request's canister is one it is about, and what is left after it are others.
LEMMA FirstOfRequest ==
  ASSUME NEW r, RequestOK(r), r.at # "idle"
  PROVE  /\ Head(r.todo) \in r.about /\ Head(r.todo) \in Governed /\ Tail(r.todo) \in Seq(Governed) /\ IsInjective(Tail(r.todo))
         /\ ToSet(Tail(r.todo)) = ToSet(r.todo) \ {Head(r.todo)} /\ Head(r.todo) \in ToSet(r.todo)
<1>1. r.todo \in Seq(Governed) /\ r.todo # <<>> /\ IsInjective(r.todo) /\ ToSet(r.todo) \subseteq r.about
  BY DEF RequestOK, RequestRecord
<1> QED BY <1>1, HeadAndTail

\* One more at the front.
LEMMA NewestBefore ==
  ASSUME NEW n \in Nat, NEW all, ShotsOK(all, n), NEW x \in ShotRecord, x.id = n + 1
  PROVE  LET more == <<x>> \o all
         IN /\ ShotsOK(more, n + 1) /\ more # <<>> /\ more[1] = x /\ Len(more) = Len(all) + 1
            /\ \A i \in DOMAIN all : i + 1 \in DOMAIN more /\ more[i + 1] = all[i]
            /\ \A j \in DOMAIN more : j = 1 \/ (j - 1 \in DOMAIN all /\ more[j] = all[j - 1])
<1> DEFINE more == <<x>> \o all
<1>1. all \in Seq(ShotRecord) /\ Len(all) \in Nat /\ DOMAIN all = 1..Len(all) BY DEF ShotsOK
<1>2. more \in Seq(ShotRecord) /\ Len(more) = Len(all) + 1 /\ DOMAIN more = 1..(Len(all) + 1) /\ more[1] = x
      /\ \A j \in 2..(Len(all) + 1) : more[j] = all[j - 1]
  BY <1>1
<1> HIDE DEF more
<1>3. \A i \in DOMAIN all : i + 1 \in DOMAIN more /\ more[i + 1] = all[i] BY <1>1, <1>2
<1>4. \A j \in DOMAIN more : j = 1 \/ (j - 1 \in DOMAIN all /\ more[j] = all[j - 1]) BY <1>1, <1>2
<1>5. \A i \in DOMAIN all : all[i].id \in 1..n BY DEF ShotsOK
<1>6. \A j \in DOMAIN more : more[j].id \in 1..(n + 1) /\ (j # 1 => more[j].id < n + 1) BY <1>1, <1>2, <1>4, <1>5
<1>7. ASSUME NEW i \in DOMAIN more, NEW j \in DOMAIN more, i < j PROVE more[i].id > more[j].id
  <2>1. j # 1 /\ j \in 1..(Len(all) + 1) /\ i \in 1..(Len(all) + 1) BY <1>1, <1>2, <1>7
  <2>2. CASE i = 1 BY <1>2, <1>6, <2>1, <2>2
  <2>3. CASE i # 1
    <3>1. i - 1 \in DOMAIN all /\ j - 1 \in DOMAIN all /\ i - 1 < j - 1 /\ more[i] = all[i - 1] /\ more[j] = all[j - 1]
      BY <1>1, <1>4, <1>7, <2>1, <2>3
    <3> QED BY <3>1 DEF ShotsOK
  <2> QED BY <2>2, <2>3
<1>8. ShotsOK(more, n + 1) BY <1>2, <1>6, <1>7 DEF ShotsOK
<1>9. more # <<>> BY <1>1, <1>2
<1> QED BY <1>2, <1>3, <1>4, <1>8, <1>9 DEF more

\* The snapshots of a canister have different numbers.
LEMMA ShotIsOne ==
  ASSUME NEW n \in Nat, NEW all, ShotsOK(all, n), NEW i \in DOMAIN all
  PROVE  /\ \A j \in DOMAIN all : all[j].id = all[i].id => j = i
         /\ (CHOOSE s \in ToSet(all) : s.id = all[i].id) = all[i]
         /\ (CHOOSE j \in DOMAIN all : all[j].id = all[i].id) = i
<1>1. all \in Seq(ShotRecord) /\ DOMAIN all = 1..Len(all) /\ Len(all) \in Nat BY DEF ShotsOK
<1>2. \A j \in DOMAIN all : all[j].id \in Nat BY DEF ShotsOK
<1>3. \A j \in DOMAIN all : all[j].id = all[i].id => j = i
  <2> SUFFICES ASSUME NEW j \in DOMAIN all, all[j].id = all[i].id PROVE j = i OBVIOUS
  <2>1. ~(i < j) /\ ~(j < i) BY <1>2 DEF ShotsOK
  <2> QED BY <1>1, <2>1
<1>4. all[i] \in ToSet(all) BY DEF ToSet
<1>5. \A s \in ToSet(all) : s.id = all[i].id => s = all[i] BY <1>3 DEF ToSet
<1> QED BY <1>3, <1>4, <1>5

\* One is deleted.
LEMMA OneDropped ==
  ASSUME NEW n \in Nat, NEW all, ShotsOK(all, n), NEW i \in DOMAIN all, NEW id, all[i].id = id
  PROVE  LET rest == Dropped(all, id)
         IN /\ ShotsOK(rest, n) /\ Len(rest) = Len(all) - 1
            /\ \A j \in DOMAIN all : j < i => j \in DOMAIN rest /\ rest[j] = all[j]
            /\ \A j \in DOMAIN all : j > i => j - 1 \in DOMAIN rest /\ rest[j - 1] = all[j]
            /\ \A j \in DOMAIN rest : IF j < i THEN j \in DOMAIN all /\ rest[j] = all[j] ELSE j + 1 \in DOMAIN all /\ rest[j] = all[j + 1]
<1> DEFINE low == SubSeq(all, 1, i - 1)
           high == SubSeq(all, i + 1, Len(all))
           rest == low \o high
<1>1. all \in Seq(ShotRecord) /\ DOMAIN all = 1..Len(all) /\ Len(all) \in Nat /\ i \in 1..Len(all) BY DEF ShotsOK
<1>2. low \in Seq(ShotRecord) /\ Len(low) = i - 1 /\ \A j \in 1..(i - 1) : low[j] = all[j] BY <1>1
<1>3. high \in Seq(ShotRecord) /\ Len(high) = Len(all) - i /\ \A j \in 1..(Len(all) - i) : high[j] = all[i + j] BY <1>1
<1> HIDE DEF low, high
<1>4. /\ rest \in Seq(ShotRecord) /\ Len(rest) = Len(all) - 1 /\ DOMAIN rest = 1..(Len(all) - 1)
      /\ \A j \in 1..(Len(all) - 1) : rest[j] = IF j < i THEN low[j] ELSE high[j - (i - 1)]
  <2>1. Len(low) \in Nat /\ Len(high) \in Nat BY <1>2, <1>3
  <2>2. /\ rest \in Seq(ShotRecord) /\ Len(rest) = Len(low) + Len(high) /\ DOMAIN rest = 1..(Len(low) + Len(high))
        /\ \A j \in 1..(Len(low) + Len(high)) : rest[j] = IF j <= Len(low) THEN low[j] ELSE high[j - Len(low)]
    BY <1>2, <1>3, <2>1, ConcatIs
  <2>3. Len(low) + Len(high) = Len(all) - 1 BY <1>1, <1>2, <1>3
  <2>4. \A j \in 1..(Len(all) - 1) : (j <= Len(low)) = (j < i) BY <1>1, <1>2
  <2> HIDE DEF rest
  <2> QED BY <1>2, <2>2, <2>3, <2>4
<1> HIDE DEF rest
<1>5. \A j \in 1..(Len(all) - 1) : rest[j] = IF j < i THEN all[j] ELSE all[j + 1]
  <2> SUFFICES ASSUME NEW j \in 1..(Len(all) - 1) PROVE rest[j] = IF j < i THEN all[j] ELSE all[j + 1] OBVIOUS
  <2>1. CASE j < i BY <1>1, <1>2, <1>4, <2>1
  <2>2. CASE ~(j < i)
    <3>1. j - (i - 1) \in 1..(Len(all) - i) /\ i + (j - (i - 1)) = j + 1 BY <1>1, <2>2
    <3>2. high[j - (i - 1)] = all[j + 1] BY <1>3, <3>1
    <3> QED BY <1>4, <2>2, <3>2
  <2> QED BY <2>1, <2>2
<1>6. rest = Dropped(all, id) BY ShotIsOne DEF Dropped, RemoveAt, rest, low, high
<1>7. \A j, k \in DOMAIN rest : j < k => rest[j].id > rest[k].id
  <2> SUFFICES ASSUME NEW j \in DOMAIN rest, NEW k \in DOMAIN rest, j < k PROVE rest[j].id > rest[k].id OBVIOUS
  <2>1. PICK a, b \in 1..Len(all) : rest[j] = all[a] /\ rest[k] = all[b] /\ a < b
    <3>1. j \in 1..(Len(all) - 1) /\ k \in 1..(Len(all) - 1) BY <1>4
    <3>2. CASE k < i
      <4>1. rest[j] = all[j] /\ rest[k] = all[k] BY <1>1, <1>5, <3>1, <3>2
      <4> QED BY <1>1, <3>1, <4>1
    <3>3. CASE ~(k < i) /\ j < i
      <4>1. rest[j] = all[j] /\ rest[k] = all[k + 1] /\ k + 1 \in 1..Len(all) /\ j < k + 1 BY <1>1, <1>5, <3>1, <3>3
      <4> QED BY <1>1, <3>1, <4>1
    <3>4. CASE ~(j < i)
      <4>1. /\ rest[j] = all[j + 1] /\ rest[k] = all[k + 1] /\ k + 1 \in 1..Len(all)
            /\ j + 1 \in 1..Len(all) /\ j + 1 < k + 1
        BY <1>1, <1>5, <3>1, <3>4
      <4> QED BY <4>1
    <3> QED BY <3>2, <3>3, <3>4
  <2> QED BY <1>1, <2>1 DEF ShotsOK
<1>8. \A j \in DOMAIN rest : IF j < i THEN j \in DOMAIN all /\ rest[j] = all[j] ELSE j + 1 \in DOMAIN all /\ rest[j] = all[j + 1]
  BY <1>1, <1>4, <1>5
<1>9. \A j \in DOMAIN rest : rest[j].id \in 1..n BY <1>8 DEF ShotsOK
<1>10. ShotsOK(rest, n) BY <1>4, <1>7, <1>9 DEF ShotsOK
<1>11. \A j \in DOMAIN all : j < i => j \in DOMAIN rest /\ rest[j] = all[j] BY <1>1, <1>4, <1>5
<1>12. \A j \in DOMAIN all : j > i => j - 1 \in DOMAIN rest /\ rest[j - 1] = all[j]
  <2> SUFFICES ASSUME NEW j \in DOMAIN all, j > i PROVE j - 1 \in DOMAIN rest /\ rest[j - 1] = all[j] OBVIOUS
  <2>1. j - 1 \in 1..(Len(all) - 1) /\ ~(j - 1 < i) /\ (j - 1) + 1 = j BY <1>1
  <2> QED BY <1>4, <1>5, <2>1
<1> QED BY <1>4, <1>6, <1>8, <1>10, <1>11, <1>12

\* The rows and snapshots of c are left alone.
LeftAlone(c) ==
  /\ code'[c] = code[c] /\ hash'[c] = hash[c] /\ shots'[c] = shots[c]
  /\ labels'[c] = labels[c] /\ newest'[c] = newest[c]
\* What only grows.
OnlyMore == failed' \in Nat /\ failed <= failed' /\ restored \subseteq restored'

\* What was said of one that is left alone is so ...
LEMMA SaysStays ==
  ASSUME GovernedInv, OnlyMore, NEW r, NEW c, LeftAlone(c), Says(r, c)
  PROVE  Says(r, c)'
<1>1. failed \in Nat BY DEF GovernedInv, CanistersOK
<1>2. (failed' <= 1 => failed <= 1) /\ (failed' = 0 => failed = 0) BY <1>1 DEF OnlyMore
<1>3. ToldRight(c)' = ToldRight(c) BY DEF LeftAlone, ToldRight
<1>4. IdsOf(c)' = IdsOf(c) BY DEF LeftAlone, IdsOf
<1>5. Known(c)' = Known(c) BY <1>4 DEF LeftAlone, Known
<1>6. \A id : OneNew(c, id)' = OneNew(c, id) BY <1>4 DEF LeftAlone, OneNew
<1>7. \A id : ShotOf(c, id)' = ShotOf(c, id) BY DEF LeftAlone, ShotOf
<1>8. RowSays(r, c) => RowSays(r, c)' BY <1>3, <1>7 DEF LeftAlone, RowSays
<1>9. ShotsSay(r, c) => ShotsSay(r, c)' BY <1>4, <1>5, <1>6 DEF LeftAlone, ShotsSay
<1> QED BY <1>2, <1>8, <1>9 DEF Says, OnlyMore

\* ... and what a request relies on.
LEMMA HoldsStays ==
  ASSUME GovernedInv, OnlyMore, NEW r, RequestOK(r), \A c \in r.about : LeftAlone(c), StillHas(r)
  PROVE  StillHas(r)'
<1>1. failed \in Nat /\ (failed >= 1 => failed' >= 1) BY DEF GovernedInv, CanistersOK, OnlyMore
<1>2. \A i \in DOMAIN r.back : r.back[i].c \in r.about BY DEF RequestOK, Behind
<1>3. \A c \in r.about : \A id : Has(c, id)' = Has(c, id) BY DEF LeftAlone, Has
<1>4. r.at # "idle" => Head(r.todo) \in r.about BY FirstOfRequest
<1> QED BY <1>1, <1>2, <1>3, <1>4 DEF StillHas, LeftAlone

\* A request goes on as n, or ends.
LEMMA RequestMoves ==
  ASSUME GovernedInv, CanistersOK', OnlyMore, crossed' = crossed, NEW q \in Requests, NEW n,
         n = NoRequest \/ n.about = request[q].about, request' = [request EXCEPT ![q] = n],
         \A c \in Governed \ request[q].about : LeftAlone(c),
         ~ request[q].about \subseteq crossed =>
           StillHas(n)' /\ \A c \in request[q].about \ crossed : Says(n, c)'
  PROVE  GovernedInv'
<1>1. request \in [Requests -> RequestRecord] /\ \A p \in Requests : RequestOK(request[p]) /\ request[p].about \subseteq Governed
  BY DEF GovernedInv, CanistersOK, RequestRecord
<1>2. request'[q] = n /\ \A p \in Requests \ {q} : request'[p] = request[p] BY <1>1
<1>3. n.about \subseteq request[q].about BY NoRequestOK
<1>4. \A p \in Requests : request'[p].about \subseteq request[p].about BY <1>2, <1>3
<1>5. Apart'
  <2> SUFFICES ASSUME NEW p \in Requests, NEW o \in Requests, p # o, request'[p].about \cap request'[o].about # {}
               PROVE  request'[p].about \cup request'[o].about \subseteq crossed
    BY DEF Apart
  <2>1. request[p].about \cap request[o].about # {} BY <1>4
  <2>2. request[p].about \cup request[o].about \subseteq crossed BY <2>1 DEF GovernedInv, Apart
  <2> QED BY <1>4, <2>2
<1>6. ASSUME NEW p \in Requests, NEW now, now = request'[p], ~ now.about \subseteq crossed
      PROVE  StillHas(now)' /\ \A c \in now.about \ crossed : Says(now, c)'
  <2>1. CASE p = q
    <3>1. n.about = request[q].about /\ ~ request[q].about \subseteq crossed BY <1>2, <1>6, <2>1, NoRequestOK
    <3>2. StillHas(n)' /\ \A c \in request[q].about \ crossed : Says(n, c)' BY <3>1
    <3>3. now = n BY <1>2, <1>6, <2>1
    <3> QED BY <3>1, <3>2, <3>3
  <2>2. CASE p # q
    <3>1. PICK r : r = request[p] OBVIOUS
    <3>2. now = r /\ RequestOK(r) /\ r.about \subseteq Governed /\ ~ r.about \subseteq crossed BY <1>1, <1>2, <1>6, <2>2, <3>1
    <3>3. r.about \cap request[q].about = {} BY <2>2, <3>1, <3>2 DEF GovernedInv, Apart
    <3>4. \A c \in r.about : LeftAlone(c) BY <3>2, <3>3
    <3>5. StillHas(r) /\ \A c \in r.about \ crossed : Says(r, c) BY <3>1, <3>2 DEF GovernedInv
    <3>6. StillHas(r)' BY <3>2, <3>4, <3>5, HoldsStays
    <3>7. \A c \in r.about \ crossed : Says(r, c)' BY <3>4, <3>5, SaysStays
    <3> QED BY <3>2, <3>6, <3>7
  <2> QED BY <2>1, <2>2
<1>7. ASSUME NEW c \in Governed \ crossed, \A p \in Requests : c \notin request'[p].about
      PROVE  Says(NoRequest, c)'
  <2>1. CASE c \in request[q].about
    <3>1. n = NoRequest /\ ~ request[q].about \subseteq crossed BY <1>2, <1>7, <2>1
    <3>2. \A d \in request[q].about \ crossed : Says(n, d)' BY <3>1
    <3> QED BY <1>7, <2>1, <3>1, <3>2
  <2>2. CASE c \notin request[q].about
    <3>1. \A p \in Requests : c \notin request[p].about BY <1>2, <1>7, <2>2
    <3>2. Says(NoRequest, c) BY <1>7, <3>1 DEF GovernedInv, About
    <3> QED BY <1>7, <2>2, <3>2, SaysStays
  <2> QED BY <2>1, <2>2
<1>8. \A c \in Governed \ crossed' : About(c)' = {} => Says(NoRequest, c)' BY <1>7 DEF About
<1>9. ASSUME NEW p \in Requests, ~ request'[p].about \subseteq crossed'
      PROVE  (StillHas(request[p]) /\ \A c \in request[p].about \ crossed : Says(request[p], c))'
  <2>1. PICK now : now = request'[p] OBVIOUS
  <2>2. StillHas(now)' /\ \A c \in now.about \ crossed : Says(now, c)' BY <1>6, <1>9, <2>1
  <2> QED BY <2>1, <2>2
<1> QED BY <1>5, <1>8, <1>9 DEF GovernedInv

\* A request begins.
LEMMA BeginsKeeps ==
  ASSUME GovernedInv, NEW q \in Requests, NEW T \in SUBSET Governed, NEW n, RequestOK(n), n.about = T,
         n.at \in {"take", "snapshot", "restore"}, n.back = <<>>, Begins(q, T, n)
  PROVE  GovernedInv'
<1>1. /\ request[q].at = "idle" /\ request' = [request EXCEPT ![q] = n]
      /\ UNCHANGED <<code, shots, taken, hash, labels, failed, restored, newest>>
      /\ crossed' = crossed \cup UNION {request[p].about \cup T : p \in UNION {About(c) : c \in T}}
  BY DEF Begins, At
<1>2. /\ request \in [Requests -> RequestRecord] /\ crossed \subseteq Governed /\ failed \in Nat
      /\ \A p \in Requests : RequestOK(request[p]) /\ request[p].about \subseteq Governed
  BY DEF GovernedInv, CanistersOK, RequestRecord
<1>3. request[q].about = {} BY <1>1, <1>2, NoRequestOK DEF RequestOK
<1>4. request'[q] = n /\ \A p \in Requests \ {q} : request'[p] = request[p] BY <1>1, <1>2
<1>5. ASSUME NEW p \in Requests, request[p].about \cap T # {} PROVE request[p].about \cup T \subseteq crossed'
  <2>1. p \in UNION {About(c) : c \in T} BY <1>5 DEF About
  <2> QED BY <1>1, <2>1
<1>6. crossed \subseteq crossed' /\ crossed' \subseteq Governed
  <2>1. \A p \in UNION {About(c) : c \in T} : p \in Requests BY DEF About
  <2> QED BY <1>1, <1>2, <2>1
<1>7. CanistersOK'
  <2>1. request' \in [Requests -> RequestRecord] BY <1>1, <1>2 DEF RequestOK
  <2>2. \A p \in Requests : RequestOK(request'[p]) BY <1>2, <1>4
  <2> QED BY <1>1, <1>6, <2>1, <2>2 DEF GovernedInv, CanistersOK
<1>8. OnlyMore /\ \A c \in Governed : LeftAlone(c) BY <1>1, <1>2 DEF OnlyMore, LeftAlone
<1>9. Apart'
  <2> SUFFICES ASSUME NEW p \in Requests, NEW o \in Requests, p # o, request'[p].about \cap request'[o].about # {}
               PROVE  request'[p].about \cup request'[o].about \subseteq crossed'
    BY DEF Apart
  <2>1. CASE p = q BY <1>4, <1>5, <2>1
  <2>2. CASE o = q BY <1>4, <1>5, <2>2
  <2>3. CASE p # q /\ o # q
    <3>1. request[p].about \cup request[o].about \subseteq crossed BY <1>4, <2>3 DEF GovernedInv, Apart
    <3> QED BY <1>4, <1>6, <2>3, <3>1
  <2> QED BY <2>1, <2>2, <2>3
<1>10. ASSUME NEW c \in Governed \ crossed', About(c) = {} PROVE Says(NoRequest, c)'
  BY <1>6, <1>8, <1>10, SaysStays DEF GovernedInv
<1>11. ASSUME NEW p \in Requests, ~ request'[p].about \subseteq crossed'
       PROVE  (StillHas(request[p]) /\ \A c \in request[p].about \ crossed : Says(request[p], c))'
  <2>1. CASE p = q
    <3>1. DOMAIN n.back = {} BY SMT
    <3>2. StillHas(n)' BY <3>1 DEF StillHas
    <3>3. ASSUME NEW c \in T \ crossed' PROVE Says(n, c)'
      <4>1. About(c) = {} BY <1>4, <1>5, <1>11, <2>1, <3>3 DEF About
      <4>2. Says(NoRequest, c)' BY <1>10, <3>3, <4>1
      <4>3. RowSays(NoRequest, c)' => RowSays(n, c)' BY <3>1, NoRequestOK DEF RowSays
      <4>4. ShotsSay(NoRequest, c)' => ShotsSay(n, c)' BY <3>1, NoRequestOK DEF ShotsSay
      <4> QED BY <4>2, <4>3, <4>4 DEF Says
    <3>4. request'[p] = n /\ n.about = T BY <1>4, <2>1
    <3> QED BY <3>2, <3>3, <3>4
  <2>2. CASE p # q
    <3>1. PICK r : r = request[p] OBVIOUS
    <3>2. request'[p] = r /\ RequestOK(r) /\ r.about \subseteq Governed /\ ~ r.about \subseteq crossed
      BY <1>2, <1>4, <1>6, <1>11, <2>2, <3>1
    <3>3. StillHas(r) /\ \A c \in r.about \ crossed : Says(r, c) BY <3>1, <3>2 DEF GovernedInv
    <3>4. StillHas(r)' BY <1>8, <3>2, <3>3, HoldsStays
    <3>5. \A c \in r.about \ crossed : Says(r, c)' BY <1>8, <3>2, <3>3, SaysStays
    <3> QED BY <1>6, <3>2, <3>4, <3>5
  <2> QED BY <2>1, <2>2
<1>12. \A c \in Governed \ crossed' : About(c)' = {} => Says(NoRequest, c)'
  <2> SUFFICES ASSUME NEW c \in Governed \ crossed', About(c)' = {} PROVE Says(NoRequest, c)' OBVIOUS
  <2>1. About(c) = {} BY <1>3, <1>4 DEF About
  <2> QED BY <1>10, <2>1
<1> QED BY <1>7, <1>9, <1>11, <1>12 DEF GovernedInv
-----------------------------------------------------------------------------
\* The canisters of a way back.
LEMMA BackLists ==
  ASSUME NEW back \in Seq(BackRecord), IsInjective(BackList(back)), back # <<>>
  PROVE  /\ BackList(back) \in Seq(Governed) /\ BackList(back) # <<>> /\ ToSet(BackList(back)) = Behind(back)
         /\ Head(BackList(back)) = Head(back).c /\ Head(back) \in BackRecord
         /\ Tail(back) \in Seq(BackRecord) /\ BackList(Tail(back)) = Tail(BackList(back)) /\ IsInjective(BackList(Tail(back)))
         /\ Behind(Tail(back)) = Behind(back) \ {Head(back).c}
         /\ \A i \in DOMAIN Tail(back) : i + 1 \in DOMAIN back /\ Tail(back)[i] = back[i + 1]
         /\ \A i \in DOMAIN back : back[i].c = Head(back).c => back[i] = Head(back)
<1>1. /\ Len(back) \in Nat \ {0} /\ DOMAIN back = 1..Len(back) /\ Head(back) = back[1] /\ 1 \in DOMAIN back
      /\ Tail(back) \in Seq(BackRecord) /\ DOMAIN Tail(back) = 1..(Len(back) - 1)
      /\ \A i \in 1..(Len(back) - 1) : Tail(back)[i] = back[i + 1]
      /\ \A i \in 1..Len(back) : back[i] \in BackRecord
  OBVIOUS
<1> DEFINE list == BackList(back)
<1>2. /\ DOMAIN list = 1..Len(back) /\ \A i \in 1..Len(back) : list[i] = back[i].c
      /\ \A i \in 1..Len(back) : list[i] \in Governed
  BY <1>1 DEF BackList, BackRecord
<1>3. list \in Seq(Governed) /\ Len(list) = Len(back)
  <2>1. list = [i \in 1..Len(back) |-> back[i].c] BY <1>1 DEF BackList
  <2> HIDE DEF list
  <2> QED BY <1>1, <1>2, <2>1
<1> HIDE DEF list
<1>4. list # <<>> /\ Head(list) = Head(back).c BY <1>1, <1>2, <1>3
<1>5. ToSet(list) = Behind(back) BY <1>1, <1>2 DEF ToSet, Behind
<1>6. Tail(list) \in Seq(Governed) /\ ToSet(Tail(list)) = ToSet(list) \ {Head(list)} /\ IsInjective(Tail(list))
  BY <1>3, <1>4, HeadAndTail DEF list
<1>7. BackList(Tail(back)) = Tail(list)
  <2>1. DOMAIN BackList(Tail(back)) = 1..(Len(back) - 1)
        /\ \A i \in 1..(Len(back) - 1) : BackList(Tail(back))[i] = back[i + 1].c
    BY <1>1 DEF BackList
  <2>2. Len(list) = Len(back) /\ DOMAIN Tail(list) = 1..(Len(back) - 1) /\ \A i \in 1..(Len(back) - 1) : Tail(list)[i] = list[i + 1]
    BY <1>1, <1>3
  <2>3. \A i \in 1..(Len(back) - 1) : i + 1 \in 1..Len(back) BY <1>1
  <2>4. \A i \in 1..(Len(back) - 1) : Tail(list)[i] = back[i + 1].c BY <1>2, <2>2, <2>3
  <2>5. BackList(Tail(back)) = [i \in 1..(Len(back) - 1) |-> back[i + 1].c] BY <2>1, <1>1 DEF BackList
  <2>6. Tail(list) = [i \in 1..Len(Tail(list)) |-> Tail(list)[i]] BY <1>6, SeqIsItself
  <2>7. Len(Tail(list)) = Len(back) - 1 BY <1>1, <1>3, <1>4
  <2>8. PICK tail : tail = Tail(list) OBVIOUS
  <2>9. tail = [i \in 1..(Len(back) - 1) |-> tail[i]] BY <2>6, <2>7, <2>8
  <2>10. \A i \in 1..(Len(back) - 1) : tail[i] = back[i + 1].c BY <2>4, <2>8
  <2>11. tail = [i \in 1..(Len(back) - 1) |-> back[i + 1].c] BY <2>9, <2>10
  <2> QED BY <2>5, <2>8, <2>11
<1>8. Behind(Tail(back)) = ToSet(Tail(list))
  <2>1. Behind(Tail(back)) = ToSet(BackList(Tail(back))) BY DEF Behind, BackList, ToSet
  <2> QED BY <1>7, <2>1
<1>9. \A i \in DOMAIN Tail(back) : i + 1 \in DOMAIN back /\ Tail(back)[i] = back[i + 1] BY <1>1
<1>10. \A i \in DOMAIN back : back[i].c = Head(back).c => back[i] = Head(back)
  <2>1. \A i \in DOMAIN back : list[i] = list[1] => i = 1 BY <1>1, <1>2 DEF IsInjective, list
  <2> QED BY <1>1, <1>2, <2>1
<1>11. /\ list \in Seq(Governed) /\ list # <<>> /\ ToSet(list) = Behind(back) /\ Head(list) = Head(back).c
       /\ BackList(Tail(back)) = Tail(list) /\ IsInjective(BackList(Tail(back)))
       /\ Behind(Tail(back)) = Behind(back) \ {Head(back).c} /\ Head(back) \in BackRecord
  BY <1>1, <1>3, <1>4, <1>5, <1>6, <1>7, <1>8
<1>12. list = BackList(back) BY DEF list
<1> QED BY <1>1, <1>9, <1>10, <1>11, <1>12

\* One more canister to go back over.
LEMMA OneMoreBack ==
  ASSUME NEW back \in Seq(BackRecord), IsInjective(BackList(back)), NEW b \in BackRecord, b.c \notin Behind(back)
  PROVE  LET more == Append(back, b)
         IN /\ more \in Seq(BackRecord) /\ more # <<>> /\ IsInjective(BackList(more))
            /\ Behind(more) = Behind(back) \cup {b.c}
            /\ \A i \in DOMAIN more : (i \in DOMAIN back /\ more[i] = back[i]) \/ more[i] = b
<1> DEFINE more == Append(back, b)
<1>1. /\ more \in Seq(BackRecord) /\ Len(back) \in Nat /\ DOMAIN back = 1..Len(back) /\ DOMAIN more = 1..(Len(back) + 1)
      /\ more[Len(back) + 1] = b /\ \A i \in 1..Len(back) : more[i] = back[i]
  OBVIOUS
<1> HIDE DEF more
<1>2. \A i \in DOMAIN more : (i \in DOMAIN back /\ more[i] = back[i]) \/ (i = Len(back) + 1 /\ more[i] = b) BY <1>1
<1>3. more # <<>>
  <2>1. Len(back) + 1 \in DOMAIN more BY <1>1
  <2> QED BY <2>1
<1>4. IsInjective(BackList(more))
  <2>1. \A i, j \in DOMAIN back : back[i].c = back[j].c => i = j BY DEF IsInjective, BackList
  <2>2. \A i \in DOMAIN back : back[i].c # b.c BY DEF Behind
  <2>3. \A i, j \in DOMAIN more : more[i].c = more[j].c => i = j BY <1>2, <2>1, <2>2
  <2> QED BY <2>3 DEF IsInjective, BackList
<1>5. Behind(more) = Behind(back) \cup {b.c}
  <2>1. \A i \in DOMAIN more : more[i].c \in Behind(back) \cup {b.c} BY <1>2 DEF Behind
  <2>2. \A i \in DOMAIN back : i \in DOMAIN more /\ more[i] = back[i] BY <1>1
  <2>3. Len(back) + 1 \in DOMAIN more BY <1>1
  <2> QED BY <1>1, <2>1, <2>2, <2>3 DEF Behind
<1> QED BY <1>1, <1>2, <1>3, <1>4, <1>5 DEF more

\* A snapshot and the older ones.
Before(x, all) == <<x>> \o all

\* What the call that is under way does.
LEMMA CallDoneIs ==
  ASSUME GovernedInv, NEW q \in Requests, NEW r, r = request[q], r.at # "idle", NEW c, c = Head(r.todo),
         ~ Impossible(q), CallDone(q)
  PROVE  /\ c \in r.about /\ c \in Governed
         /\ code' \in [Governed -> Wasms] /\ taken' \in Nat /\ DOMAIN shots' = Governed
         /\ \A d \in Governed : ShotsOK(shots'[d], taken')
         /\ restored \subseteq restored' /\ restored' \subseteq Governed
         /\ \A d \in Governed \ {c} : code'[d] = code[d] /\ shots'[d] = shots[d]
         /\ r.at \notin {"install", "load", "restore"} => code' = code
         /\ r.at \notin {"take", "snapshot", "delete", "prune"} => shots' = shots
         /\ r.at \notin {"take", "snapshot"} => taken' = taken
         /\ r.at # "restore" => restored' = restored
         /\ r.at = "install" => code'[c] = r.w
         /\ r.at \in {"take", "snapshot"} => taken' = taken + 1 /\ shots'[c] = Before(Shot(c), shots[c])
         /\ r.at \in {"delete", "prune"} => shots'[c] = Dropped(shots[c], r.shot) /\ Has(c, r.shot)
         /\ r.at = "load" => code'[c] = ShotOf(c, Head(r.back).id).code
         /\ r.at = "restore" => c \in restored'
<1>1. /\ RequestOK(r) /\ code \in [Governed -> Wasms] /\ DOMAIN shots = Governed /\ taken \in Nat
      /\ restored \subseteq Governed /\ \A d \in Governed : ShotsOK(shots[d], taken)
  BY DEF GovernedInv, CanistersOK
<1>2. c \in r.about /\ c \in Governed BY <1>1, FirstOfRequest
<1>3. r.w \in Wasms BY <1>1 DEF RequestOK, RequestRecord
<1>4. This(q) = c /\ \A at : At(q, at) = (r.at = at) BY DEF This, At
<1>5. ASSUME NEW id, Has(c, id) PROVE /\ \E i \in DOMAIN shots[c] : shots[c][i].id = id
                                      /\ ShotOf(c, id).code \in Wasms
  <2>1. PICK i \in DOMAIN shots[c] : shots[c][i].id = id BY <1>5 DEF Has, ToSet
  <2>2. ShotsOK(shots[c], taken) BY <1>1, <1>2
  <2>3. (CHOOSE s \in ToSet(shots[c]) : s.id = shots[c][i].id) = shots[c][i] BY <1>1, <2>2, ShotIsOne
  <2>4. ShotOf(c, id) = shots[c][i] BY <2>1, <2>3 DEF ShotOf
  <2>5. shots[c][i] \in ShotRecord BY <2>2 DEF ShotsOK
  <2> QED BY <2>1, <2>4, <2>5 DEF ShotRecord
<1>6. /\ r.at = "load" => Has(c, Head(r.back).id)
      /\ r.at = "restore" => Has(c, r.shot)
      /\ r.at \in {"delete", "prune"} => Has(c, r.shot)
  BY <1>4 DEF Impossible
<1>7. /\ code' = IF r.at = "install" THEN [code EXCEPT ![c] = r.w]
                 ELSE IF r.at = "load" THEN [code EXCEPT ![c] = ShotOf(c, Head(r.back).id).code]
                 ELSE IF r.at = "restore" THEN [code EXCEPT ![c] = ShotOf(c, r.shot).code] ELSE code
      /\ shots' = IF r.at \in {"take", "snapshot"} THEN [shots EXCEPT ![c] = <<Shot(c)>> \o @]
                  ELSE IF r.at \in {"delete", "prune"} THEN [shots EXCEPT ![c] = Dropped(@, r.shot)] ELSE shots
      /\ taken' = IF r.at \in {"take", "snapshot"} THEN taken + 1 ELSE taken
      /\ restored' = IF r.at = "restore" THEN restored \cup {c} ELSE restored
  BY <1>4 DEF CallDone
<1>8. code' \in [Governed -> Wasms] /\ (r.at = "install" => code'[c] = r.w)
      /\ (r.at = "load" => code'[c] = ShotOf(c, Head(r.back).id).code)
      /\ \A d \in Governed \ {c} : code'[d] = code[d]
  BY <1>1, <1>2, <1>3, <1>5, <1>6, <1>7
<1>9. DOMAIN shots' = Governed /\ (\A d \in Governed \ {c} : shots'[d] = shots[d])
      /\ (r.at \in {"take", "snapshot"} => shots'[c] = Before(Shot(c), shots[c]))
      /\ (r.at \in {"delete", "prune"} => shots'[c] = Dropped(shots[c], r.shot))
      /\ (r.at \notin {"take", "snapshot", "delete", "prune"} => shots' = shots)
  BY <1>1, <1>2, <1>7 DEF Before
<1>10. taken' \in Nat /\ taken <= taken' BY <1>1, <1>7
<1>11. ASSUME NEW d \in Governed PROVE ShotsOK(shots'[d], taken')
  <2>1. ShotsOK(shots[d], taken) BY <1>1
  <2>2. ShotsOK(shots[d], taken') BY <1>1, <1>10, <2>1 DEF ShotsOK
  <2>3. CASE d # c BY <1>9, <2>2, <2>3
  <2>4. CASE d = c /\ r.at \in {"take", "snapshot"}
    <3>1. Shot(c) \in ShotRecord /\ Shot(c).id = taken + 1 BY <1>1, <1>2 DEF Shot, ShotRecord
    <3>2. ShotsOK(Before(Shot(c), shots[c]), taken + 1) BY <1>1, <2>1, <2>4, <3>1, NewestBefore DEF Before
    <3> QED BY <1>7, <1>9, <2>4, <3>2
  <2>5. CASE d = c /\ r.at \in {"delete", "prune"}
    <3>1. PICK i \in DOMAIN shots[c] : shots[c][i].id = r.shot BY <1>5, <1>6, <2>5
    <3>2. ShotsOK(Dropped(shots[c], r.shot), taken) BY <1>1, <2>1, <2>5, <3>1, OneDropped
    <3> QED BY <1>7, <1>9, <2>5, <3>2
  <2>6. CASE d = c /\ r.at \notin {"take", "snapshot", "delete", "prune"}
    <3>1. shots' = shots BY <1>9, <2>6
    <3> QED BY <2>2, <3>1
  <2> QED BY <2>3, <2>4, <2>5, <2>6
<1> QED BY <1>1, <1>2, <1>6, <1>7, <1>8, <1>9, <1>10, <1>11

\* A snapshot that was taken is the newest ...
LEMMA AfterTake ==
  ASSUME NEW c, NEW n \in Nat, ShotsOK(shots[c], n), NEW x \in ShotRecord, NEW id, id = n + 1, x.id = id,
         shots'[c] = Before(x, shots[c])
  PROVE  /\ Has(c, id)' /\ ShotOf(c, id)' = x /\ IdsOf(c)' = IdsOf(c) \cup {id} /\ id \notin IdsOf(c)
         /\ shots'[c] # <<>> /\ shots'[c][1] = x /\ Len(shots'[c]) = Len(shots[c]) + 1
<1>1. PICK all : all = shots[c] OBVIOUS
<1>2. PICK more : more = <<x>> \o all OBVIOUS
<1>3. ShotsOK(all, n) BY <1>1
<1>4. /\ ShotsOK(more, n + 1) /\ more # <<>> /\ more[1] = x /\ Len(more) = Len(all) + 1
      /\ \A i \in DOMAIN all : i + 1 \in DOMAIN more /\ more[i + 1] = all[i]
      /\ \A j \in DOMAIN more : j = 1 \/ (j - 1 \in DOMAIN all /\ more[j] = all[j - 1])
  BY <1>2, <1>3, NewestBefore
<1>5. shots'[c] = more BY <1>1, <1>2 DEF Before
<1>6. 1 \in DOMAIN more /\ n + 1 \in Nat
  <2>1. more \in Seq(ShotRecord) BY <1>4 DEF ShotsOK
  <2> QED BY <1>4, <2>1
<1>7. (CHOOSE s \in ToSet(more) : s.id = more[1].id) = more[1] BY <1>4, <1>6, ShotIsOne
<1>8. Has(c, id)' BY <1>4, <1>5, <1>6 DEF Has, ToSet
<1>9. ShotOf(c, id)' = x BY <1>4, <1>5, <1>7 DEF ShotOf
<1>10. {more[j].id : j \in DOMAIN more} = {all[i].id : i \in DOMAIN all} \cup {n + 1}
  <2>1. \A j \in DOMAIN more : more[j].id \in {all[i].id : i \in DOMAIN all} \cup {n + 1} BY <1>4
  <2>2. \A i \in DOMAIN all : all[i].id \in {more[j].id : j \in DOMAIN more} BY <1>4
  <2>3. n + 1 \in {more[j].id : j \in DOMAIN more} BY <1>4, <1>6
  <2> QED BY <2>1, <2>2, <2>3
<1>11. IdsOf(c)' = IdsOf(c) \cup {id} BY <1>1, <1>5, <1>10 DEF IdsOf
<1>12. id \notin IdsOf(c)
  <2>1. \A i \in DOMAIN all : all[i].id \in 1..n BY <1>3 DEF ShotsOK
  <2> QED BY <1>1, <2>1 DEF IdsOf
<1> QED BY <1>1, <1>4, <1>5, <1>8, <1>9, <1>11, <1>12

\* ... and one that was deleted is no more.
LEMMA AfterDrop ==
  ASSUME NEW c, NEW n \in Nat, ShotsOK(shots[c], n), NEW id, Has(c, id), shots'[c] = Dropped(shots[c], id)
  PROVE  /\ IdsOf(c)' = IdsOf(c) \ {id} /\ Len(shots'[c]) = Len(shots[c]) - 1
         /\ \A x : x # id /\ Has(c, x) => Has(c, x)'
         /\ Len(shots[c]) > 1 /\ shots[c][1].id # id => shots'[c] # <<>> /\ shots'[c][1] = shots[c][1]
<1>1. PICK all : all = shots[c] OBVIOUS
<1>2. PICK rest : rest = Dropped(all, id) OBVIOUS
<1>3. ShotsOK(all, n) BY <1>1
<1>4. PICK i \in DOMAIN all : all[i].id = id BY <1>1 DEF Has, ToSet
<1>5. /\ ShotsOK(rest, n) /\ Len(rest) = Len(all) - 1
      /\ \A j \in DOMAIN all : j < i => j \in DOMAIN rest /\ rest[j] = all[j]
      /\ \A j \in DOMAIN all : j > i => j - 1 \in DOMAIN rest /\ rest[j - 1] = all[j]
      /\ \A j \in DOMAIN rest : IF j < i THEN j \in DOMAIN all /\ rest[j] = all[j] ELSE j + 1 \in DOMAIN all /\ rest[j] = all[j + 1]
  BY <1>2, <1>3, <1>4, OneDropped
<1>6. shots'[c] = rest BY <1>1, <1>2
<1>7. all \in Seq(ShotRecord) /\ Len(all) \in Nat /\ DOMAIN all = 1..Len(all) /\ rest \in Seq(ShotRecord) /\ DOMAIN rest = 1..Len(rest)
  BY <1>3, <1>5 DEF ShotsOK
<1>8. \A j \in DOMAIN all : all[j].id = all[i].id => j = i BY <1>3, ShotIsOne
<1>9. \A j \in DOMAIN all : j # i => \E k \in DOMAIN rest : rest[k] = all[j]
  <2> SUFFICES ASSUME NEW j \in DOMAIN all, j # i PROVE \E k \in DOMAIN rest : rest[k] = all[j] OBVIOUS
  <2>1. j < i \/ j > i BY <1>7
  <2> QED BY <1>5, <2>1
<1>10. \A k \in DOMAIN rest : \E j \in DOMAIN all : j # i /\ rest[k] = all[j]
  <2> SUFFICES ASSUME NEW k \in DOMAIN rest PROVE \E j \in DOMAIN all : j # i /\ rest[k] = all[j] OBVIOUS
  <2>1. CASE k < i BY <1>5, <1>7, <2>1
  <2>2. CASE ~(k < i)
    <3>1. k + 1 \in DOMAIN all /\ rest[k] = all[k + 1] /\ k + 1 # i BY <1>5, <1>7, <2>2
    <3> QED BY <3>1
  <2> QED BY <2>1, <2>2
<1>11. {rest[k].id : k \in DOMAIN rest} = {all[j].id : j \in DOMAIN all} \ {id} BY <1>4, <1>8, <1>9, <1>10
<1>12. IdsOf(c)' = IdsOf(c) \ {id}
  <2>1. IdsOf(c) = {all[j].id : j \in DOMAIN all} BY <1>1 DEF IdsOf
  <2>2. IdsOf(c)' = {rest[k].id : k \in DOMAIN rest} BY <1>6 DEF IdsOf
  <2> QED BY <2>1, <2>2, <1>11
<1>13. ASSUME NEW x, x # id, Has(c, x) PROVE Has(c, x)'
  <2>1. PICK j \in DOMAIN all : all[j].id = x BY <1>1, <1>13 DEF Has, ToSet
  <2>2. PICK k \in DOMAIN rest : rest[k] = all[j] BY <1>4, <1>9, <1>13, <2>1
  <2> QED BY <1>6, <2>1, <2>2 DEF Has, ToSet
<1>14. ASSUME Len(all) > 1, all[1].id # id PROVE rest # <<>> /\ rest[1] = all[1]
  <2>1. 1 \in DOMAIN all /\ 1 < i BY <1>4, <1>7, <1>14
  <2>2. 1 \in DOMAIN rest /\ rest[1] = all[1] BY <1>5, <2>1
  <2> QED BY <1>7, <2>2
<1> QED BY <1>1, <1>5, <1>6, <1>12, <1>13, <1>14

\* What a step leaves sound.
LEMMA StepOK ==
  ASSUME GovernedInv, NEW q \in Requests, NEW n, RequestOK(n), request' = [request EXCEPT ![q] = n],
         code' \in [Governed -> Wasms], taken' \in Nat, DOMAIN shots' = Governed, \A d \in Governed : ShotsOK(shots'[d], taken'),
         restored \subseteq restored', restored' \subseteq Governed, hash' \in [Governed -> Wasms],
         labels' \in [Governed -> SUBSET Nat], newest' \in [Governed -> Nat],
         failed' = failed \/ failed' = failed + 1, crossed' = crossed
  PROVE  CanistersOK' /\ OnlyMore
<1>1. request \in [Requests -> RequestRecord] /\ (\A p \in Requests : RequestOK(request[p])) /\ failed \in Nat /\ crossed \subseteq Governed
  BY DEF GovernedInv, CanistersOK
<1>2. request' \in [Requests -> RequestRecord] /\ \A p \in Requests : RequestOK(request'[p])
  <2>1. n \in RequestRecord BY DEF RequestOK
  <2> QED BY <1>1, <2>1
<1>3. failed' \in Nat /\ failed <= failed' BY <1>1
<1> QED BY <1>1, <1>2, <1>3 DEF CanistersOK, OnlyMore

\* What is known of a canister's request.
LEMMA RequestIs ==
  ASSUME GovernedInv, NEW q \in Requests, NEW r, r = request[q], r.at # "idle"
  PROVE  /\ RequestOK(r) /\ r.about \subseteq Governed /\ r.todo \in Seq(Governed) /\ r.back \in Seq(BackRecord) /\ r.w \in Wasms
         /\ r.kept \in SUBSET Nat /\ r.surplus \in Seq(Nat) /\ r.shot \in Nat /\ r \in RequestRecord
         /\ code \in [Governed -> Wasms] /\ hash \in [Governed -> Wasms] /\ labels \in [Governed -> SUBSET Nat]
         /\ newest \in [Governed -> Nat] /\ taken \in Nat /\ failed \in Nat /\ DOMAIN shots = Governed
         /\ \A d \in Governed : ShotsOK(shots[d], taken)
         /\ \A i \in DOMAIN r.back : r.back[i].c \in r.about /\ r.back[i] \in BackRecord
         /\ This(q) = Head(r.todo) /\ \A at : At(q, at) = (r.at = at)
         /\ ~ r.about \subseteq crossed => StillHas(r) /\ \A d \in r.about \ crossed : Says(r, d)
<1>1. RequestOK(r) BY DEF GovernedInv, CanistersOK
<1>2. /\ r \in RequestRecord /\ r.about \subseteq Governed /\ r.todo \in Seq(Governed) /\ r.back \in Seq(BackRecord) /\ r.w \in Wasms
      /\ r.kept \in SUBSET Nat /\ r.surplus \in Seq(Nat) /\ r.shot \in Nat
  BY <1>1 DEF RequestOK, RequestRecord
<1>3. \A i \in DOMAIN r.back : r.back[i].c \in r.about /\ r.back[i] \in BackRecord BY <1>1, <1>2 DEF RequestOK, Behind
<1>4. ~ r.about \subseteq crossed => StillHas(r) /\ \A d \in r.about \ crossed : Says(r, d) BY DEF GovernedInv
<1>5. This(q) = Head(r.todo) /\ \A at : At(q, at) = (r.at = at) BY DEF This, At
<1> QED BY <1>1, <1>2, <1>3, <1>4, <1>5 DEF GovernedInv, CanistersOK
-----------------------------------------------------------------------------
LEMMA TakeShotKeeps == ASSUME GovernedInv, NEW q \in Requests, TakeShot(q) PROVE GovernedInv'
<1>r. PICK r, c, shot : r = request[q] /\ c = Head(r.todo) /\ shot = Shot(c) OBVIOUS
<1>1. r.at = "take" /\ r.at # "idle" /\ Answer(q, "take") /\ ~ Impossible(q) /\ CallDone(q) /\ failed' = failed /\ crossed' = crossed
      /\ UNCHANGED <<hash, labels, newest>>
  BY <1>r DEF TakeShot, Answer, At
<1>2. /\ RequestOK(r) /\ r.about \subseteq Governed /\ r.todo \in Seq(Governed) /\ r.back \in Seq(BackRecord) /\ r \in RequestRecord
      /\ hash \in [Governed -> Wasms] /\ labels \in [Governed -> SUBSET Nat] /\ code \in [Governed -> Wasms]
      /\ newest \in [Governed -> Nat] /\ taken \in Nat /\ failed \in Nat /\ \A d \in Governed : ShotsOK(shots[d], taken)
  BY <1>r, <1>1, RequestIs
<1>3. /\ \A i \in DOMAIN r.back : r.back[i].c \in r.about /\ r.back[i] \in BackRecord
      /\ This(q) = c
      /\ ~ r.about \subseteq crossed => StillHas(r) /\ \A d \in r.about \ crossed : Says(r, d)
  BY <1>r, <1>1, RequestIs
<1>4. PICK id \in Nat : id = taken + 1 BY <1>2
<1>5. /\ c \in r.about /\ c \in Governed /\ code' \in [Governed -> Wasms] /\ taken' = id /\ DOMAIN shots' = Governed
      /\ \A d \in Governed : ShotsOK(shots'[d], taken')
      /\ restored' = restored /\ restored \subseteq Governed
  BY <1>1, <1>2, <1>4, <1>r, CallDoneIs
<1>6. /\ \A d \in Governed \ {c} : code'[d] = code[d] /\ shots'[d] = shots[d]
      /\ code' = code /\ shots'[c] = Before(shot, shots[c])
  <2>1. \A d \in Governed \ {c} : code'[d] = code[d] /\ shots'[d] = shots[d] BY <1>1, <1>r, CallDoneIs
  <2>2. code' = code BY <1>1, <1>r, CallDoneIs
  <2>3. shots'[c] = Before(Shot(c), shots[c]) BY <1>1, <1>r, CallDoneIs
  <2> QED BY <1>r, <2>1, <2>2, <2>3
<1>7. shot \in ShotRecord /\ shot.id = id /\ shot.code = code[c] /\ ShotsOK(shots[c], taken) BY <1>4, <1>r, <1>2, <1>5 DEF Shot, ShotRecord
<1>8. /\ Has(c, id)' /\ ShotOf(c, id)' = shot /\ IdsOf(c)' = IdsOf(c) \cup {id} /\ id \notin IdsOf(c)
      /\ shots'[c] # <<>> /\ shots'[c][1] = shot /\ Len(shots'[c]) = Len(shots[c]) + 1
  <2>1. ShotsOK(shots[c], taken) /\ taken \in Nat /\ shot \in ShotRecord /\ id = taken + 1 /\ shot.id = id BY <1>2, <1>4, <1>7
  <2>2. shots'[c] = Before(shot, shots[c]) BY <1>6
  <2>3. Has(c, id)' BY <2>1, <2>2, AfterTake
  <2>4. ShotOf(c, id)' = shot BY <2>1, <2>2, AfterTake
  <2>5. IdsOf(c)' = IdsOf(c) \cup {id} /\ id \notin IdsOf(c) BY <2>1, <2>2, AfterTake
  <2>6. shots'[c] # <<>> BY <2>1, <2>2, AfterTake
  <2>7. shots'[c][1] = shot BY <2>1, <2>2, AfterTake
  <2>8. Len(shots'[c]) = Len(shots[c]) + 1 BY <2>1, <2>2, AfterTake
  <2> QED BY <2>3, <2>4, <2>5, <2>6, <2>7, <2>8
<1>9. PICK b \in BackRecord : b = [c |-> c, hash |-> hash[c], id |-> id] BY <1>2, <1>5 DEF BackRecord
<1>10. PICK back : back = Append(r.back, b) OBVIOUS
<1>11. c \in ToSet(r.todo) /\ ToSet(Tail(r.todo)) = ToSet(r.todo) \ {c} /\ Tail(r.todo) \in Seq(Governed) /\ IsInjective(Tail(r.todo))
  BY <1>r, <1>1, <1>2, FirstOfRequest
<1>12. /\ r.about = Behind(r.back) \cup ToSet(r.todo) /\ Behind(r.back) \cap ToSet(r.todo) = {} /\ IsInjective(BackList(r.back))
       /\ r.todo # <<>> /\ ToSet(r.todo) \subseteq r.about
  BY <1>1, <1>2 DEF RequestOK
<1>13. b.c = c /\ b.id = id /\ b.hash = hash[c] /\ b.c \notin Behind(r.back) BY <1>9, <1>11, <1>12
<1>14. /\ back \in Seq(BackRecord) /\ back # <<>> /\ IsInjective(BackList(back)) /\ Behind(back) = Behind(r.back) \cup {c}
       /\ \A i \in DOMAIN back : (i \in DOMAIN r.back /\ back[i] = r.back[i]) \/ back[i] = b
  BY <1>2, <1>10, <1>12, <1>13, OneMoreBack
<1>15. PICK n : /\ n = IF Len(r.todo) > 1 THEN [r EXCEPT !.todo = Tail(@), !.back = back]
                       ELSE [r EXCEPT !.at = "install", !.todo = BackList(back), !.back = back]
                /\ request' = [request EXCEPT ![q] = n]
  BY <1>r, <1>3, <1>5, <1>9, <1>10 DEF TakeShot, Goes, BackList
<1>16. /\ n \in RequestRecord /\ n.about = r.about /\ n.back = back /\ n.at \in {"take", "install"}
       /\ n.at = "take" => n.todo = Tail(r.todo) /\ Len(r.todo) > 1
       /\ n.at = "install" => n.todo = BackList(back) /\ ~(Len(r.todo) > 1)
  <2>1. BackList(back) \in Seq(Governed) BY <1>14, BackLists
  <2>2. CASE Len(r.todo) > 1
    <3>1. n = [r EXCEPT !.todo = Tail(r.todo), !.back = back] BY <1>15, <2>2
    <3>2. n \in RequestRecord BY <1>2, <1>11, <1>14, <3>1 DEF RequestRecord
    <3>3. n.about = r.about /\ n.back = back /\ n.at = "take" /\ n.todo = Tail(r.todo) BY <1>1, <1>2, <3>1 DEF RequestRecord
    <3> QED BY <2>2, <3>2, <3>3
  <2>3. CASE ~(Len(r.todo) > 1)
    <3>1. n = [r EXCEPT !.at = "install", !.todo = BackList(back), !.back = back] BY <1>15, <2>3
    <3>2. n \in RequestRecord BY <1>2, <1>14, <2>1, <3>1 DEF RequestRecord
    <3>3. n.about = r.about /\ n.back = back /\ n.at = "install" /\ n.todo = BackList(back) BY <1>2, <3>1 DEF RequestRecord
    <3> QED BY <2>3, <3>2, <3>3
  <2> QED BY <2>2, <2>3
<1>17. RequestOK(n)
  <2>1. Behind(back) \subseteq r.about BY <1>5, <1>12, <1>14
  <2>2. CASE n.at = "take"
    <3>1. n.todo # <<>> BY <1>2, <1>16, <2>2, TailOfSeq
    <3>2. r.about = Behind(back) \cup ToSet(Tail(r.todo)) /\ Behind(back) \cap ToSet(Tail(r.todo)) = {} BY <1>11, <1>12, <1>14
    <3> QED BY <1>11, <1>12, <1>14, <1>16, <2>1, <2>2, <3>1, <3>2 DEF RequestOK
  <2>3. CASE n.at = "install"
    <3>1. BackList(back) # <<>> /\ ToSet(BackList(back)) = Behind(back) BY <1>14, BackLists
    <3>2. ToSet(Tail(r.todo)) = {}
      <4>1. \A i \in DOMAIN Tail(r.todo) : FALSE BY <1>2, <1>12, <1>16, <2>3
      <4> QED BY <4>1 DEF ToSet
    <3>3. r.about = Behind(back) BY <1>11, <1>12, <1>14, <3>2
    <3> QED BY <1>11, <1>12, <1>14, <1>16, <2>1, <2>3, <3>1, <3>3 DEF RequestOK
  <2> QED BY <1>16, <2>2, <2>3
<1>18. CanistersOK' /\ OnlyMore BY <1>1, <1>2, <1>4, <1>5, <1>15, <1>17, StepOK
<1>19. \A d \in Governed \ {c} : LeftAlone(d) BY <1>1, <1>6 DEF LeftAlone
<1>20. ASSUME ~ r.about \subseteq crossed PROVE StillHas(n)'
  <2>1. \A i \in DOMAIN r.back : Has(r.back[i].c, r.back[i].id) BY <1>1, <1>3, <1>20 DEF StillHas
  <2>2. ASSUME NEW i \in DOMAIN back, NEW x, x = back[i].id PROVE Has(back[i].c, x)'
    <3>1. CASE back[i] = b BY <1>8, <1>13, <2>2, <3>1
    <3>2. CASE i \in DOMAIN r.back /\ back[i] = r.back[i]
      <4>1. PICK d : d = back[i].c OBVIOUS
      <4>2. Has(d, x) /\ d \in Behind(r.back) /\ d \in Governed BY <1>2, <1>3, <2>1, <2>2, <3>2, <4>1 DEF Behind
      <4>3. d # c BY <1>13, <4>2
      <4>4. shots'[d] = shots[d] BY <1>6, <4>2, <4>3
      <4>5. Has(d, x)' BY <4>2, <4>4 DEF Has
      <4> QED BY <4>1, <4>5
    <3> QED BY <1>14, <3>1, <3>2
  <2> QED BY <1>16, <2>2 DEF StillHas
<1>21. ASSUME ~ r.about \subseteq crossed, NEW d \in r.about \ crossed PROVE Says(n, d)'
  <2>1. Says(r, d) /\ d \in Governed /\ StillHas(r) BY <1>2, <1>3, <1>21
  <2>2. ASSUME failed <= 1, d \notin restored PROVE RowSays(n, d)'
    <3>1. RowSays(r, d) BY <2>1, <2>2 DEF Says
    <3>2. ToldRight(d) BY <1>1, <3>1 DEF RowSays
    <3>3. ToldRight(d)' BY <1>1, <1>6, <3>2 DEF ToldRight
    <3>4. ASSUME NEW i \in DOMAIN back, back[i].c = d, NEW x, x = back[i].id PROVE ShotOf(d, x)'.code = back[i].hash
      <4>1. CASE d = c
        <5>1. back[i] = b BY <1>13, <1>14, <3>4, <4>1 DEF Behind
        <5>2. code[c] = hash[c] BY <3>2, <4>1 DEF ToldRight
        <5> QED BY <1>7, <1>8, <1>13, <3>4, <4>1, <5>1, <5>2
      <4>2. CASE d # c
        <5>1. i \in DOMAIN r.back /\ back[i] = r.back[i] BY <1>13, <1>14, <3>4, <4>2
        <5>2. ShotOf(d, x).code = back[i].hash BY <1>1, <3>1, <3>4, <5>1 DEF RowSays
        <5>3. ShotOf(d, x)' = ShotOf(d, x) BY <1>6, <2>1, <4>2 DEF ShotOf
        <5> QED BY <5>2, <5>3
      <4> QED BY <4>1, <4>2
    <3> QED BY <1>16, <3>3, <3>4 DEF RowSays
  <2>3. ASSUME failed = 0 PROVE ShotsSay(n, d)'
    <3>1. ShotsSay(r, d) BY <2>1, <2>3 DEF Says
    <3>2. ASSUME d \in ToSet(Tail(r.todo)) PROVE Known(d)'
      <4>1. d # c /\ d \in ToSet(r.todo) BY <1>11, <3>2
      <4>2. Known(d) BY <1>1, <3>1, <4>1 DEF ShotsSay
      <4>3. shots'[d] = shots[d] BY <1>6, <2>1, <4>1
      <4> QED BY <1>1, <4>2, <4>3 DEF Known, IdsOf
    <3>3. ASSUME NEW i \in DOMAIN back, back[i].c = d, NEW x, x = back[i].id PROVE OneNew(d, x)'
      <4>1. CASE d = c
        <5>1. x = id BY <1>13, <1>14, <3>3, <4>1 DEF Behind
        <5>2. Known(c) BY <1>1, <1>11, <3>1, <4>1 DEF ShotsSay
        <5>3. IdsOf(c)' \ {id} = IdsOf(c) BY <1>8
        <5>4. Len(shots[c]) \in Nat BY <1>2, <1>5 DEF ShotsOK
        <5>5. Len(shots'[c]) <= Keep + 1 BY <1>8, <5>2, <5>4, GovernedAssumption DEF Known
        <5>6. shots'[c][1].id = id BY <1>4, <1>7, <1>8
        <5> QED BY <1>1, <1>8, <4>1, <5>1, <5>2, <5>3, <5>5, <5>6 DEF OneNew, Known
      <4>2. CASE d # c
        <5>1. i \in DOMAIN r.back /\ back[i] = r.back[i] BY <1>13, <1>14, <3>3, <4>2
        <5>2. OneNew(d, x) BY <1>1, <3>1, <3>3, <5>1 DEF ShotsSay
        <5>3. shots'[d] = shots[d] BY <1>6, <2>1, <4>2
        <5> QED BY <1>1, <5>2, <5>3 DEF OneNew, IdsOf
      <4> QED BY <4>1, <4>2
    <3> QED BY <1>16, <3>2, <3>3 DEF ShotsSay
  <2> QED BY <1>1, <1>5, <2>2, <2>3 DEF Says
<1>22. n.about = request[q].about /\ \A d \in Governed \ request[q].about : LeftAlone(d) BY <1>r, <1>5, <1>16, <1>19
<1> QED BY <1>r, <1>1, <1>15, <1>18, <1>20, <1>21, <1>22, RequestMoves

LEMMA InstallBuildKeeps == ASSUME GovernedInv, NEW q \in Requests, InstallBuild(q) PROVE GovernedInv'
<1>r. PICK r, c : r = request[q] /\ c = Head(r.todo) OBVIOUS
<1>1. r.at = "install" /\ r.at # "idle" /\ ~ Impossible(q) /\ CallDone(q) /\ failed' = failed /\ crossed' = crossed
      /\ UNCHANGED <<hash, labels, newest>>
  BY <1>r DEF InstallBuild, Answer, At
<1>2. /\ RequestOK(r) /\ r.about \subseteq Governed /\ r \in RequestRecord /\ restored' = restored
      /\ hash \in [Governed -> Wasms] /\ labels \in [Governed -> SUBSET Nat] /\ newest \in [Governed -> Nat]
      /\ ~ r.about \subseteq crossed => StillHas(r) /\ \A d \in r.about \ crossed : Says(r, d)
  BY <1>r, <1>1, RequestIs, CallDoneIs
<1>3. /\ c \in r.about /\ c \in Governed /\ code' \in [Governed -> Wasms] /\ taken' \in Nat /\ DOMAIN shots' = Governed
      /\ \A d \in Governed : ShotsOK(shots'[d], taken')
      /\ restored \subseteq restored' /\ restored' \subseteq Governed
  BY <1>r, <1>1, CallDoneIs
<1>4. shots' = shots /\ code'[c] = r.w /\ \A d \in Governed \ {c} : code'[d] = code[d] BY <1>r, <1>1, CallDoneIs
<1>5. PICK n : n = [r EXCEPT !.at = "status"] /\ request' = [request EXCEPT ![q] = n] BY <1>r DEF InstallBuild, Goes
<1>6. /\ n \in RequestRecord /\ n.at = "status" /\ n.about = r.about /\ n.todo = r.todo /\ n.back = r.back /\ n.w = r.w
  BY <1>2, <1>5 DEF RequestRecord
<1>7. RequestOK(n) BY <1>1, <1>2, <1>6 DEF RequestOK
<1>8. CanistersOK' /\ OnlyMore BY <1>1, <1>2, <1>3, <1>5, <1>7, StepOK
<1>9. \A d \in Governed \ {c} : LeftAlone(d) BY <1>1, <1>4 DEF LeftAlone
<1>10. ASSUME ~ r.about \subseteq crossed PROVE StillHas(n)'
  <2>1. \A d, id : Has(d, id)' = Has(d, id) BY <1>4 DEF Has
  <2> QED BY <1>1, <1>2, <1>4, <1>6, <1>10, <1>r, <2>1 DEF StillHas
<1>11. ASSUME ~ r.about \subseteq crossed, NEW d \in r.about \ crossed PROVE Says(n, d)'
  <2>1. Says(r, d) /\ d \in Governed BY <1>2, <1>11
  <2>2. \A id : ShotOf(d, id)' = ShotOf(d, id) BY <1>4 DEF ShotOf
  <2>3. ASSUME RowSays(r, d) PROVE RowSays(n, d)'
    <3>1. ToldRight(d) BY <1>1, <2>3 DEF RowSays
    <3>2. d # c => ToldRight(d)' BY <1>1, <1>4, <2>1, <3>1 DEF ToldRight
    <3> QED BY <1>r, <1>1, <1>6, <2>2, <2>3, <3>2 DEF RowSays
  <2>4. ASSUME ShotsSay(r, d) PROVE ShotsSay(n, d)'
    <3>1. \A id : OneNew(d, id)' = OneNew(d, id) BY <1>1, <1>4 DEF OneNew, IdsOf
    <3> QED BY <1>1, <1>6, <2>4, <3>1 DEF ShotsSay
  <2> QED BY <1>1, <1>2, <2>1, <2>3, <2>4 DEF Says
<1>12. n.about = request[q].about /\ \A d \in Governed \ request[q].about : LeftAlone(d) BY <1>r, <1>3, <1>6, <1>9
<1> QED BY <1>r, <1>1, <1>5, <1>8, <1>10, <1>11, <1>12, RequestMoves

LEMMA LoadShotKeeps == ASSUME GovernedInv, NEW q \in Requests, LoadShot(q) PROVE GovernedInv'
<1>r. PICK r, c, b : r = request[q] /\ c = Head(r.todo) /\ b = Head(r.back) OBVIOUS
<1>1. r.at = "load" /\ r.at # "idle" /\ ~ Impossible(q) /\ CallDone(q) /\ failed' = failed /\ crossed' = crossed
      /\ UNCHANGED <<hash, labels, newest>>
  BY <1>r DEF LoadShot, Answer, At
<1>2. /\ RequestOK(r) /\ r.about \subseteq Governed /\ r \in RequestRecord /\ restored' = restored /\ failed \in Nat
      /\ hash \in [Governed -> Wasms] /\ labels \in [Governed -> SUBSET Nat] /\ newest \in [Governed -> Nat]
      /\ ~ r.about \subseteq crossed => StillHas(r) /\ \A d \in r.about \ crossed : Says(r, d)
  BY <1>r, <1>1, RequestIs, CallDoneIs
<1>3. /\ c \in r.about /\ c \in Governed /\ code' \in [Governed -> Wasms] /\ taken' \in Nat /\ DOMAIN shots' = Governed
      /\ \A d \in Governed : ShotsOK(shots'[d], taken')
      /\ restored \subseteq restored' /\ restored' \subseteq Governed
  BY <1>r, <1>1, CallDoneIs
<1>4. shots' = shots /\ code'[c] = ShotOf(c, b.id).code /\ \A d \in Governed \ {c} : code'[d] = code[d] BY <1>r, <1>1, CallDoneIs
<1>5. PICK n : n = [r EXCEPT !.at = "delete", !.shot = b.id] /\ request' = [request EXCEPT ![q] = n] BY <1>r DEF LoadShot, Goes
<1>6. r.todo = BackList(r.back) /\ r.back \in Seq(BackRecord) /\ IsInjective(BackList(r.back)) /\ r.todo # <<>>
  BY <1>1, <1>2 DEF RequestOK, RequestRecord
<1>7. r.back # <<>>
  <2>1. ASSUME r.back = <<>> PROVE FALSE
    <3>1. BackList(r.back) = <<>> BY <2>1 DEF BackList
    <3> QED BY <1>6, <3>1
  <2> QED BY <2>1
<1>8. b \in BackRecord /\ b.c = c /\ b.id \in Nat BY <1>r, <1>6, <1>7, BackLists DEF BackRecord
<1>9. /\ n \in RequestRecord /\ n.at = "delete" /\ n.about = r.about /\ n.todo = r.todo /\ n.back = r.back /\ n.shot = b.id
  BY <1>2, <1>5, <1>8 DEF RequestRecord
<1>10. RequestOK(n) BY <1>1, <1>2, <1>9 DEF RequestOK
<1>11. CanistersOK' /\ OnlyMore BY <1>1, <1>2, <1>3, <1>5, <1>10, StepOK
<1>12. \A d \in Governed \ {c} : LeftAlone(d) BY <1>1, <1>4 DEF LeftAlone
<1>13. ASSUME ~ r.about \subseteq crossed PROVE StillHas(n)' /\ failed >= 1
  <2>1. \A d, id : Has(d, id)' = Has(d, id) BY <1>4 DEF Has
  <2>2. failed >= 1 /\ \A i \in DOMAIN r.back : Has(r.back[i].c, r.back[i].id) BY <1>1, <1>2, <1>13 DEF StillHas
  <2> QED BY <1>1, <1>r, <1>9, <2>1, <2>2 DEF StillHas
<1>14. ASSUME ~ r.about \subseteq crossed, NEW d \in r.about \ crossed PROVE Says(n, d)'
  <2>1. Says(r, d) /\ d \in Governed BY <1>2, <1>14
  <2>2. \A id : ShotOf(d, id)' = ShotOf(d, id) BY <1>4 DEF ShotOf
  <2>3. ASSUME RowSays(r, d) PROVE RowSays(n, d)'
    <3>1. d \notin ToSet(r.todo) => ToldRight(d) BY <1>1, <2>3 DEF RowSays
    <3>2. c \in ToSet(r.todo) BY <1>r, <1>1, <1>2, FirstOfRequest
    <3>3. d \notin ToSet(r.todo) => ToldRight(d)' BY <1>1, <1>4, <2>1, <3>1, <3>2 DEF ToldRight
    <3>4. \A i \in DOMAIN r.back : r.back[i].c = d => ShotOf(d, r.back[i].id).code = r.back[i].hash BY <1>1, <2>3 DEF RowSays
    <3>5. ASSUME d = c PROVE code'[d] = b.hash
      <4>1. 1 \in DOMAIN r.back /\ r.back[1] = b BY <1>r, <1>6, <1>7
      <4> QED BY <1>4, <1>8, <3>4, <3>5, <4>1
    <3> QED BY <1>r, <1>9, <2>2, <3>3, <3>4, <3>5 DEF RowSays
  <2> QED BY <1>1, <1>2, <1>13, <1>14, <2>1, <2>3 DEF Says
<1>15. n.about = request[q].about /\ \A d \in Governed \ request[q].about : LeftAlone(d) BY <1>r, <1>3, <1>9, <1>12
<1> QED BY <1>r, <1>1, <1>5, <1>11, <1>13, <1>14, <1>15, RequestMoves

LEMMA DropShotKeeps == ASSUME GovernedInv, NEW q \in Requests, DropShot(q) PROVE GovernedInv'
<1>r. PICK r, c, b : r = request[q] /\ c = Head(r.todo) /\ b = Head(r.back) OBVIOUS
<1>1. r.at = "delete" /\ r.at # "idle" /\ ~ Impossible(q) /\ CallDone(q) /\ failed' = failed /\ crossed' = crossed
      /\ hash' = RolledBack(q) /\ UNCHANGED <<labels, newest>>
  BY <1>r DEF DropShot, Answer, At
<1>2. /\ RequestOK(r) /\ r.about \subseteq Governed /\ r \in RequestRecord /\ restored' = restored /\ failed \in Nat
      /\ hash \in [Governed -> Wasms] /\ labels \in [Governed -> SUBSET Nat] /\ newest \in [Governed -> Nat] /\ This(q) = c
      /\ ~ r.about \subseteq crossed => StillHas(r) /\ \A d \in r.about \ crossed : Says(r, d)
  BY <1>r, <1>1, RequestIs, CallDoneIs
<1>3. /\ c \in r.about /\ c \in Governed /\ code' \in [Governed -> Wasms] /\ taken' \in Nat /\ DOMAIN shots' = Governed
      /\ \A d \in Governed : ShotsOK(shots'[d], taken')
      /\ restored \subseteq restored' /\ restored' \subseteq Governed
  BY <1>r, <1>1, CallDoneIs
<1>4. code' = code /\ \A d \in Governed \ {c} : shots'[d] = shots[d] BY <1>r, <1>1, CallDoneIs
<1>5. r.todo = BackList(r.back) /\ r.back \in Seq(BackRecord) /\ IsInjective(BackList(r.back)) /\ r.todo # <<>>
      /\ ToSet(r.todo) \subseteq r.about /\ Behind(r.back) \subseteq r.about
  BY <1>1, <1>2 DEF RequestOK, RequestRecord
<1>6. r.back # <<>>
  <2>1. ASSUME r.back = <<>> PROVE FALSE
    <3>1. BackList(r.back) = <<>> BY <2>1 DEF BackList
    <3> QED BY <1>5, <3>1
  <2> QED BY <2>1
<1>7. b \in BackRecord /\ b.c = c /\ b.hash \in Wasms BY <1>r, <1>5, <1>6, BackLists DEF BackRecord
<1>8. PICK back : back = Tail(r.back) OBVIOUS
<1>9. /\ back \in Seq(BackRecord) /\ BackList(back) = Tail(r.todo) /\ IsInjective(BackList(back))
      /\ Behind(back) = Behind(r.back) \ {c}
      /\ \A i \in DOMAIN back : i + 1 \in DOMAIN r.back /\ back[i] = r.back[i + 1]
  BY <1>r, <1>5, <1>6, <1>7, <1>8, BackLists
<1>10. hash' \in [Governed -> Wasms] /\ hash'[c] = b.hash /\ \A d \in Governed \ {c} : hash'[d] = hash[d]
  BY <1>r, <1>1, <1>2, <1>3, <1>7 DEF RolledBack
<1>11. /\ Tail(r.todo) \in Seq(Governed) /\ IsInjective(Tail(r.todo)) /\ ToSet(Tail(r.todo)) = ToSet(r.todo) \ {c} /\ c \in ToSet(r.todo)
       /\ r.todo \in Seq(Governed)
  <2>1. r.todo \in Seq(Governed) BY <1>2 DEF RequestRecord
  <2> QED BY <1>r, <1>1, <1>2, <2>1, FirstOfRequest
<1>12. PICK n : /\ n = IF Len(r.todo) > 1 THEN [r EXCEPT !.at = "load", !.todo = Tail(@), !.back = Tail(@)] ELSE NoRequest
                /\ request' = [request EXCEPT ![q] = n]
  BY <1>r DEF DropShot, Goes
<1>13. CASE Len(r.todo) > 1
  <2>1. n = [r EXCEPT !.at = "load", !.todo = Tail(r.todo), !.back = back] BY <1>8, <1>12, <1>13
  <2>2. n \in RequestRecord /\ n.at = "load" /\ n.about = r.about /\ n.todo = Tail(r.todo) /\ n.back = back
    BY <1>2, <1>9, <1>11, <2>1 DEF RequestRecord
  <2>3. n.todo # <<>> BY <1>11, <1>13, <2>2, TailOfSeq
  <2>4. RequestOK(n) BY <1>5, <1>9, <1>11, <2>2, <2>3 DEF RequestOK
  <2>5. CanistersOK' /\ OnlyMore BY <1>1, <1>2, <1>3, <1>10, <1>12, <2>4, StepOK
  <2>6. \A d \in Governed \ {c} : LeftAlone(d) BY <1>1, <1>4, <1>10 DEF LeftAlone
  <2>7. ASSUME ~ r.about \subseteq crossed PROVE StillHas(n)' /\ failed >= 1
    <3>1. failed >= 1 /\ \A i \in DOMAIN r.back : Has(r.back[i].c, r.back[i].id) BY <1>1, <1>2, <2>7 DEF StillHas
    <3>2. ASSUME NEW i \in DOMAIN back, NEW x, x = back[i].id, NEW d, d = back[i].c PROVE Has(d, x)'
      <4>1. Has(d, x) /\ d \in Behind(back) BY <1>9, <3>1, <3>2 DEF Behind
      <4>2. d \in Governed \ {c} BY <1>2, <1>5, <1>9, <4>1
      <4> QED BY <1>4, <4>1, <4>2 DEF Has
    <3> QED BY <1>1, <2>2, <3>1, <3>2 DEF StillHas
  <2>8. ASSUME ~ r.about \subseteq crossed, NEW d \in r.about \ crossed PROVE Says(n, d)'
    <3>1. Says(r, d) /\ d \in Governed BY <1>2, <2>8
    <3>2. ASSUME RowSays(r, d) PROVE RowSays(n, d)'
      <4>1. /\ d \notin ToSet(r.todo) => ToldRight(d)
            /\ d = c => code[d] = b.hash
            /\ \A i \in DOMAIN r.back : r.back[i].c = d => ShotOf(d, r.back[i].id).code = r.back[i].hash
        BY <1>r, <1>1, <3>2 DEF RowSays
      <4>2. d \notin ToSet(Tail(r.todo)) => ToldRight(d)'
        <5>1. CASE d = c BY <1>4, <1>10, <4>1, <5>1 DEF ToldRight
        <5>2. CASE d # c BY <1>4, <1>10, <1>11, <3>1, <4>1, <5>2 DEF ToldRight
        <5> QED BY <5>1, <5>2
      <4>3. ASSUME NEW i \in DOMAIN back, NEW x, x = back[i].id, back[i].c = d PROVE ShotOf(d, x)'.code = back[i].hash
        <5>1. d \in Governed \ {c} BY <1>9, <3>1, <4>3 DEF Behind
        <5>2. ShotOf(d, x)' = ShotOf(d, x) BY <1>4, <5>1 DEF ShotOf
        <5>3. ShotOf(d, x).code = back[i].hash BY <1>9, <4>1, <4>3
        <5> QED BY <5>2, <5>3
      <4> QED BY <2>2, <4>2, <4>3 DEF RowSays
    <3> QED BY <1>1, <1>2, <2>7, <2>8, <3>1, <3>2 DEF Says
  <2>9. n.about = request[q].about /\ \A d \in Governed \ request[q].about : LeftAlone(d) BY <1>r, <1>3, <2>2, <2>6
  <2> QED BY <1>r, <1>1, <1>12, <2>5, <2>7, <2>8, <2>9, RequestMoves
<1>14. CASE ~(Len(r.todo) > 1)
  <2>1. n = NoRequest /\ RequestOK(n) /\ n.at = "idle" /\ n.back = <<>> /\ n.todo = <<>> BY <1>12, <1>14, NoRequestOK
  <2>2. CanistersOK' /\ OnlyMore BY <1>1, <1>2, <1>3, <1>10, <1>12, <2>1, StepOK
  <2>3. \A d \in Governed \ {c} : LeftAlone(d) BY <1>1, <1>4, <1>10 DEF LeftAlone
  <2>4. ToSet(r.todo) = {c}
    <3>1. \A i \in DOMAIN Tail(r.todo) : FALSE BY <1>5, <1>11, <1>14
    <3>2. ToSet(Tail(r.todo)) = {} BY <3>1 DEF ToSet
    <3> QED BY <1>11, <3>2
  <2>5. ASSUME ~ r.about \subseteq crossed, NEW d \in r.about \ crossed PROVE Says(n, d)'
    <3>1. Says(r, d) /\ d \in Governed BY <1>2, <2>5
    <3>2. failed >= 1 BY <1>1, <1>2, <2>5 DEF StillHas
    <3>3. ASSUME RowSays(r, d) PROVE RowSays(n, d)'
      <4>1. d # c => ToldRight(d) BY <1>1, <2>4, <3>3 DEF RowSays
      <4>2. d = c => code[d] = b.hash BY <1>r, <1>1, <3>3 DEF RowSays
      <4>3. ToldRight(d)' BY <1>4, <1>10, <3>1, <4>1, <4>2 DEF ToldRight
      <4> QED BY <2>1, <4>3 DEF RowSays
    <3> QED BY <1>1, <1>2, <3>1, <3>2, <3>3 DEF Says
  <2>6. StillHas(n)' BY <2>1 DEF StillHas
  <2>7. \A d \in Governed \ request[q].about : LeftAlone(d) BY <1>r, <1>3, <2>3
  <2> QED BY <1>r, <1>1, <1>12, <2>1, <2>2, <2>5, <2>6, <2>7, RequestMoves
<1> QED BY <1>13, <1>14

LEMMA SnapshotTakenKeeps == ASSUME GovernedInv, NEW q \in Requests, SnapshotTaken(q) PROVE GovernedInv'
<1>r. PICK r, c, shot : r = request[q] /\ c = Head(r.todo) /\ shot = Shot(c) OBVIOUS
<1>1. r.at = "snapshot" /\ r.at # "idle" /\ ~ Impossible(q) /\ CallDone(q) /\ failed' = failed /\ crossed' = crossed
      /\ UNCHANGED hash
  BY <1>r DEF SnapshotTaken, Answer, At
<1>2. /\ RequestOK(r) /\ r.about \subseteq Governed /\ r \in RequestRecord /\ taken \in Nat /\ code \in [Governed -> Wasms]
      /\ hash \in [Governed -> Wasms] /\ labels \in [Governed -> SUBSET Nat] /\ newest \in [Governed -> Nat] /\ This(q) = c
      /\ \A d \in Governed : ShotsOK(shots[d], taken)
      /\ ~ r.about \subseteq crossed => StillHas(r) /\ \A d \in r.about \ crossed : Says(r, d)
  BY <1>r, <1>1, RequestIs
<1>3. PICK id \in Nat : id = taken + 1 BY <1>2
<1>4. /\ c \in r.about /\ c \in Governed /\ code' \in [Governed -> Wasms] /\ taken' = id /\ taken' \in Nat /\ DOMAIN shots' = Governed
      /\ \A d \in Governed : ShotsOK(shots'[d], taken')
      /\ restored \subseteq restored' /\ restored' \subseteq Governed /\ restored' = restored
  BY <1>r, <1>1, <1>3, CallDoneIs
<1>5. code' = code /\ \A d \in Governed \ {c} : shots'[d] = shots[d] BY <1>r, <1>1, CallDoneIs
<1>6. shots'[c] = Before(Shot(c), shots[c]) BY <1>r, <1>1, CallDoneIs
<1>7. /\ shots'[c] = Before(shot, shots[c]) /\ shot \in ShotRecord /\ shot.id = id /\ ShotsOK(shots[c], taken)
      /\ Len(shots[c]) \in Nat
  <2>1. shot \in ShotRecord /\ shot.id = id BY <1>3, <1>r, <1>2, <1>4 DEF Shot, ShotRecord
  <2>2. ShotsOK(shots[c], taken) BY <1>2, <1>4
  <2>3. shots[c] \in Seq(ShotRecord) BY <2>2 DEF ShotsOK
  <2>4. Len(shots[c]) \in Nat BY <2>3
  <2> QED BY <1>r, <1>6, <2>1, <2>2, <2>4
<1>a. /\ shots'[c] = Before(shot, shots[c]) /\ shot \in ShotRecord /\ shot.id = id /\ ShotsOK(shots[c], taken)
      /\ taken \in Nat /\ id = taken + 1
  BY <1>2, <1>3, <1>7
<1>8. IdsOf(c)' = IdsOf(c) \cup {id} /\ id \notin IdsOf(c)
  <2>1. ShotsOK(shots[c], taken) /\ taken \in Nat /\ shot \in ShotRecord /\ id = taken + 1 /\ shot.id = id BY <1>a
  <2>2. shots'[c] = Before(shot, shots[c]) BY <1>a
  <2> QED BY <2>1, <2>2, AfterTake
<1>9. shots'[c] # <<>> BY <1>a, AfterTake
<1>10. shots'[c][1] = shot
  <2>1. ShotsOK(shots[c], taken) /\ taken \in Nat /\ shot \in ShotRecord /\ id = taken + 1 /\ shot.id = id BY <1>a
  <2>2. shots'[c] = Before(shot, shots[c]) BY <1>a
  <2> QED BY <2>1, <2>2, AfterTake
<1>11. Len(shots'[c]) = Len(shots[c]) + 1 BY <1>a, AfterTake
<1>12. /\ labels' \in [Governed -> SUBSET Nat] /\ labels'[c] = labels[c] \cup {id} /\ \A d \in Governed \ {c} : labels'[d] = labels[d]
       /\ newest' \in [Governed -> Nat] /\ newest'[c] = id /\ \A d \in Governed \ {c} : newest'[d] = newest[d]
  BY <1>2, <1>3, <1>4 DEF SnapshotTaken
<1>13. PICK n : n = [r EXCEPT !.at = "list", !.kept = labels'[c]] /\ request' = [request EXCEPT ![q] = n]
  BY <1>r, <1>2 DEF SnapshotTaken, Goes
<1>14. n \in RequestRecord /\ n.at = "list" /\ n.about = r.about /\ n.todo = r.todo /\ n.back = r.back /\ n.kept = labels'[c]
  BY <1>2, <1>4, <1>12, <1>13 DEF RequestRecord
<1>15. Tail(r.todo) = <<>> /\ ToSet(Tail(r.todo)) = {} /\ ToSet(r.todo) = {c}
  <2>1. Tail(r.todo) = <<>> BY <1>1, <1>2 DEF RequestOK
  <2>2. \A i \in DOMAIN Tail(r.todo) : FALSE BY <2>1
  <2>3. ToSet(Tail(r.todo)) = {} BY <2>2 DEF ToSet
  <2>4. c \in ToSet(r.todo) /\ ToSet(Tail(r.todo)) = ToSet(r.todo) \ {c}
    <3>1. RequestOK(r) /\ r.at # "idle" /\ c = Head(r.todo) BY <1>r, <1>1, <1>2
    <3> QED BY <3>1, FirstOfRequest
  <2> QED BY <2>1, <2>3, <2>4
<1>16. RequestOK(n) BY <1>1, <1>2, <1>14, <1>15 DEF RequestOK
<1>17. CanistersOK' /\ OnlyMore BY <1>1, <1>2, <1>4, <1>12, <1>13, <1>16, StepOK
<1>18. \A d \in Governed \ {c} : LeftAlone(d) BY <1>1, <1>5, <1>12 DEF LeftAlone
<1>19. StillHas(n)' BY <1>14 DEF StillHas
<1>20. ASSUME ~ r.about \subseteq crossed, NEW d \in r.about \ crossed PROVE Says(n, d)'
  <2>1. Says(r, d) /\ d \in Governed BY <1>2, <1>20
  <2>2. ASSUME RowSays(r, d) PROVE RowSays(n, d)'
    <3>1. ToldRight(d)' BY <1>1, <1>5, <2>2 DEF ToldRight, RowSays
    <3> QED BY <1>14, <3>1 DEF RowSays
  <2>3. ASSUME ShotsSay(r, d) PROVE ShotsSay(n, d)'
    <3>1. Known(d) BY <1>1, <2>3 DEF ShotsSay
    <3>2. d # c => Known(d)' BY <1>5, <1>12, <2>1, <3>1 DEF Known, IdsOf
    <3>3. ASSUME d = c PROVE /\ newest'[d] = shots'[d][1].id /\ Len(shots'[d]) <= Keep + 1
                             /\ labels'[d] = IdsOf(d)' /\ n.kept = IdsOf(d)'
      <4>1. Len(shots[c]) <= Keep /\ labels[c] = IdsOf(c) BY <3>1, <3>3 DEF Known
      <4>2. Len(shots'[c]) <= Keep + 1 BY <1>7, <1>11, <4>1, GovernedAssumption
      <4> QED BY <1>7, <1>8, <1>10, <1>12, <1>14, <3>3, <4>1, <4>2
    <3> QED BY <1>r, <1>9, <1>14, <1>15, <3>2, <3>3 DEF ShotsSay
  <2> QED BY <1>1, <1>4, <2>1, <2>2, <2>3 DEF Says
<1>21. n.about = request[q].about /\ \A d \in Governed \ request[q].about : LeftAlone(d) BY <1>r, <1>4, <1>14, <1>18
<1> QED BY <1>r, <1>1, <1>13, <1>17, <1>19, <1>20, <1>21, RequestMoves

LEMMA SnapshotRestoredKeeps == ASSUME GovernedInv, NEW q \in Requests, SnapshotRestored(q) PROVE GovernedInv'
<1>r. PICK r, c : r = request[q] /\ c = Head(r.todo) OBVIOUS
<1>1. r.at = "restore" /\ r.at # "idle" /\ ~ Impossible(q) /\ CallDone(q) /\ failed' = failed /\ crossed' = crossed
      /\ UNCHANGED <<hash, labels, newest>>
  BY <1>r DEF SnapshotRestored, Answer, At
<1>2. /\ RequestOK(r) /\ r.about \subseteq Governed
      /\ hash \in [Governed -> Wasms] /\ labels \in [Governed -> SUBSET Nat] /\ newest \in [Governed -> Nat]
      /\ ~ r.about \subseteq crossed => StillHas(r) /\ \A d \in r.about \ crossed : Says(r, d)
  BY <1>r, <1>1, RequestIs
<1>3. /\ c \in r.about /\ c \in Governed /\ code' \in [Governed -> Wasms] /\ taken' \in Nat /\ DOMAIN shots' = Governed
      /\ \A d \in Governed : ShotsOK(shots'[d], taken')
      /\ restored \subseteq restored' /\ restored' \subseteq Governed
  BY <1>r, <1>1, CallDoneIs
<1>4. shots' = shots /\ c \in restored' /\ \A d \in Governed \ {c} : code'[d] = code[d] BY <1>r, <1>1, CallDoneIs
<1>5. PICK n : n = NoRequest /\ request' = [request EXCEPT ![q] = n] BY DEF SnapshotRestored, Goes
<1>6. RequestOK(n) /\ n.at = "idle" /\ n.back = <<>> /\ n.todo = <<>> BY <1>5, NoRequestOK
<1>7. CanistersOK' /\ OnlyMore BY <1>1, <1>2, <1>3, <1>5, <1>6, StepOK
<1>8. \A d \in Governed \ {c} : LeftAlone(d) BY <1>1, <1>4 DEF LeftAlone
<1>9. StillHas(n)' BY <1>6 DEF StillHas
<1>10. ASSUME ~ r.about \subseteq crossed, NEW d \in r.about \ crossed PROVE Says(n, d)'
  <2>1. Says(r, d) /\ d \in Governed BY <1>2, <1>10
  <2>2. ASSUME RowSays(r, d), d \notin restored' PROVE RowSays(n, d)'
    <3>1. ToldRight(d) /\ d # c BY <1>1, <1>4, <2>2 DEF RowSays
    <3>2. ToldRight(d)' BY <1>1, <1>4, <2>1, <3>1 DEF ToldRight
    <3> QED BY <1>6, <3>2 DEF RowSays
  <2>3. ASSUME ShotsSay(r, d) PROVE ShotsSay(n, d)'
    <3>1. Known(d) BY <1>1, <2>3 DEF ShotsSay
    <3>2. Known(d)' BY <1>1, <1>4, <3>1 DEF Known, IdsOf
    <3> QED BY <1>6, <3>2 DEF ShotsSay
  <2> QED BY <1>1, <1>3, <2>1, <2>2, <2>3 DEF Says
<1>11. \A d \in Governed \ request[q].about : LeftAlone(d) BY <1>r, <1>3, <1>8
<1> QED BY <1>r, <1>1, <1>5, <1>7, <1>9, <1>10, <1>11, RequestMoves

\* A call that failed, whether or not it was done.
LEMMA RequestFailsKeeps == ASSUME GovernedInv, NEW q \in Requests, RequestFails(q) PROVE GovernedInv'
<1>r. PICK r, c : r = request[q] /\ c = Head(r.todo) OBVIOUS
<1>1. /\ r.at # "idle" /\ crossed' = crossed /\ UNCHANGED <<hash, labels, newest>>
      /\ \/ Impossible(q) /\ UNCHANGED <<code, shots, taken, restored, failed>>
         \/ ~ Impossible(q) /\ failed' = failed + 1 /\ UNCHANGED <<code, shots, taken, restored>>
         \/ ~ Impossible(q) /\ failed' = failed + 1 /\ CallDone(q)
  BY <1>r DEF RequestFails, At
<1>2. /\ RequestOK(r) /\ r.about \subseteq Governed /\ r \in RequestRecord /\ r.back \in Seq(BackRecord)
      /\ code \in [Governed -> Wasms] /\ taken \in Nat /\ failed \in Nat /\ DOMAIN shots = Governed
      /\ \A d \in Governed : ShotsOK(shots[d], taken)
      /\ hash \in [Governed -> Wasms] /\ labels \in [Governed -> SUBSET Nat] /\ newest \in [Governed -> Nat]
      /\ This(q) = c /\ \A at : At(q, at) = (r.at = at)
  BY <1>r, <1>1, RequestIs
<1>3. ~ r.about \subseteq crossed => StillHas(r) /\ \A d \in r.about \ crossed : Says(r, d) BY <1>r, <1>1, RequestIs
<1>4. restored \subseteq Governed BY DEF GovernedInv, CanistersOK
<1>5. c \in r.about /\ c \in Governed /\ c \in ToSet(r.todo) BY <1>r, <1>1, <1>2, FirstOfRequest
<1>6. /\ code' \in [Governed -> Wasms] /\ taken' \in Nat /\ DOMAIN shots' = Governed
      /\ \A d \in Governed : ShotsOK(shots'[d], taken')
      /\ restored \subseteq restored' /\ restored' \subseteq Governed
      /\ \A d \in Governed \ {c} : code'[d] = code[d] /\ shots'[d] = shots[d]
      /\ r.at \notin {"take", "snapshot", "delete", "prune"} => shots' = shots
  <2>1. CASE UNCHANGED <<code, shots, taken, restored>> BY <1>2, <1>4, <2>1
  <2>2. CASE ~ Impossible(q) /\ CallDone(q) BY <1>r, <1>1, <2>2, CallDoneIs
  <2> QED BY <1>1, <2>1, <2>2
<1>7. \A d \in Governed \ {c} : LeftAlone(d) BY <1>1, <1>6 DEF LeftAlone
<1>8. PICK n : /\ n = IF r.at \in {"install", "status"} THEN [r EXCEPT !.at = "load", !.todo = BackList(r.back)] ELSE NoRequest
               /\ request' = [request EXCEPT ![q] = n]
  BY <1>r, <1>2 DEF RequestFails, Goes, RollBack, BackList
<1>9. CASE r.at \in {"install", "status"}
  <2>1. r.back # <<>> /\ r.about = Behind(r.back) /\ IsInjective(BackList(r.back)) BY <1>2, <1>9 DEF RequestOK
  <2>2. BackList(r.back) \in Seq(Governed) /\ BackList(r.back) # <<>> /\ ToSet(BackList(r.back)) = Behind(r.back)
    BY <1>2, <2>1, BackLists
  <2>3. n = [r EXCEPT !.at = "load", !.todo = BackList(r.back)] BY <1>8, <1>9
  <2>4. n \in RequestRecord /\ n.at = "load" /\ n.about = r.about /\ n.todo = BackList(r.back) /\ n.back = r.back
    BY <1>2, <2>2, <2>3 DEF RequestRecord
  <2>5. RequestOK(n) BY <2>1, <2>2, <2>4 DEF RequestOK
  <2>6. CanistersOK' /\ OnlyMore BY <1>1, <1>2, <1>6, <1>8, <2>5, StepOK
  <2>7. shots' = shots /\ failed' = failed + 1
    <3>1. ~ Impossible(q) BY <1>2, <1>9 DEF Impossible
    <3> QED BY <1>1, <1>6, <1>9, <3>1
  <2>8. ASSUME ~ r.about \subseteq crossed PROVE StillHas(n)'
    <3>1. \A d, id : Has(d, id)' = Has(d, id) BY <2>7 DEF Has
    <3>2. \A i \in DOMAIN r.back : Has(r.back[i].c, r.back[i].id) BY <1>3, <1>9, <2>8 DEF StillHas
    <3> QED BY <1>2, <2>4, <2>7, <3>1, <3>2 DEF StillHas
  <2>9. ASSUME ~ r.about \subseteq crossed, NEW d \in r.about \ crossed PROVE Says(n, d)'
    <3>1. Says(r, d) BY <1>3, <2>9
    <3>2. ASSUME RowSays(r, d) PROVE RowSays(n, d)'
      <4>1. \A id : ShotOf(d, id)' = ShotOf(d, id) BY <2>7 DEF ShotOf
      <4>2. d \in ToSet(n.todo) BY <2>1, <2>2, <2>4, <2>9
      <4>3. \A i \in DOMAIN r.back : r.back[i].c = d => ShotOf(d, r.back[i].id).code = r.back[i].hash BY <1>9, <3>2 DEF RowSays
      <4> QED BY <2>4, <4>1, <4>2, <4>3 DEF RowSays
    <3> QED BY <1>2, <1>6, <2>7, <3>1, <3>2 DEF Says
  <2>10. n.about = request[q].about /\ \A d \in Governed \ request[q].about : LeftAlone(d) BY <1>r, <1>5, <1>7, <2>4
  <2> QED BY <1>r, <1>1, <1>8, <2>6, <2>8, <2>9, <2>10, RequestMoves
<1>10. CASE r.at \notin {"install", "status"}
  <2>1. n = NoRequest /\ RequestOK(n) /\ n.at = "idle" /\ n.back = <<>> /\ n.todo = <<>> BY <1>8, <1>10, NoRequestOK
  <2>2. CanistersOK' /\ OnlyMore BY <1>1, <1>2, <1>6, <1>8, <2>1, StepOK
  <2>3. StillHas(n)' BY <2>1 DEF StillHas
  <2>4. ASSUME ~ r.about \subseteq crossed, NEW d \in r.about \ crossed PROVE Says(n, d)'
    <3>1. Says(r, d) /\ d \in Governed /\ StillHas(r) BY <1>2, <1>3, <2>4
    <3>2. CASE Impossible(q)
      <4>1. failed' = failed /\ UNCHANGED <<code, shots, restored>> BY <1>1, <3>2
      <4>2. r.at = "restore"
        <5>1. CASE r.at \in {"load", "delete"}
          <6>1. PICK b : b = Head(r.back) OBVIOUS
          <6>2. r.todo = BackList(r.back) /\ IsInjective(BackList(r.back)) /\ r.todo # <<>> BY <1>2, <5>1 DEF RequestOK
          <6>3. r.back # <<>>
            <7>1. ASSUME r.back = <<>> PROVE FALSE
              <8>1. BackList(r.back) = <<>> BY <7>1 DEF BackList
              <8> QED BY <6>2, <8>1
            <7> QED BY <7>1
          <6>4. b.c = c /\ r.back[1] = b /\ 1 \in DOMAIN r.back BY <1>r, <1>2, <6>1, <6>2, <6>3, BackLists
          <6>5. Has(c, b.id) BY <3>1, <5>1, <6>4 DEF StillHas
          <6>6. r.at = "delete" => r.shot = b.id BY <3>1, <6>1 DEF StillHas
          <6> QED BY <1>r, <1>2, <3>2, <5>1, <6>1, <6>5, <6>6 DEF Impossible
        <5>2. CASE r.at = "prune"
          <6>1. Has(c, r.shot) BY <1>r, <3>1, <5>2 DEF StillHas
          <6> QED BY <1>r, <1>2, <3>2, <5>2, <6>1 DEF Impossible
        <5> QED BY <1>2, <3>2, <5>1, <5>2 DEF Impossible
      <4>3. ASSUME RowSays(r, d) PROVE RowSays(n, d)'
        <5>1. ToldRight(d)' BY <1>1, <4>1, <4>2, <4>3 DEF RowSays, ToldRight
        <5> QED BY <2>1, <5>1 DEF RowSays
      <4>4. ASSUME ShotsSay(r, d) PROVE ShotsSay(n, d)'
        <5>1. Known(d)' BY <1>1, <4>1, <4>2, <4>4 DEF ShotsSay, Known, IdsOf
        <5> QED BY <2>1, <5>1 DEF ShotsSay
      <4> QED BY <3>1, <4>1, <4>3, <4>4 DEF Says
    <3>3. CASE ~ Impossible(q)
      <4>1. failed' = failed + 1 BY <1>1, <3>3
      <4>2. ASSUME failed' <= 1, d \notin restored' PROVE RowSays(n, d)'
        <5>1. failed = 0 /\ d \notin restored BY <1>2, <1>6, <4>1, <4>2
        <5>2. RowSays(r, d) BY <1>2, <3>1, <5>1 DEF Says
        <5>3. r.at \notin {"load", "delete"} BY <3>1, <5>1 DEF StillHas
        <5>4. ToldRight(d) BY <1>10, <5>2, <5>3 DEF RowSays
        <5>5. CASE d # c
          <6>1. ToldRight(d)' BY <1>1, <1>6, <3>1, <5>4, <5>5 DEF ToldRight
          <6> QED BY <2>1, <6>1 DEF RowSays
        <5>6. CASE d = c
          <6>1. code'[d] = code[d]
            <7>1. CASE UNCHANGED <<code, shots, taken, restored>> BY <7>1
            <7>2. CASE CallDone(q)
              <8>1. r.at # "restore" BY <1>r, <1>1, <3>3, <4>2, <5>6, <7>2, CallDoneIs
              <8>2. code' = code BY <1>r, <1>1, <1>10, <3>3, <5>3, <7>2, <8>1, CallDoneIs
              <8> QED BY <8>2
            <7> QED BY <1>1, <3>3, <7>1, <7>2
          <6>2. ToldRight(d)' BY <1>1, <5>4, <6>1 DEF ToldRight
          <6> QED BY <2>1, <6>2 DEF RowSays
        <5> QED BY <5>5, <5>6
      <4> QED BY <1>2, <4>1, <4>2 DEF Says
    <3> QED BY <3>2, <3>3
  <2>5. \A d \in Governed \ request[q].about : LeftAlone(d) BY <1>r, <1>5, <1>7
  <2> QED BY <1>r, <1>1, <1>8, <2>1, <2>2, <2>3, <2>4, <2>5, RequestMoves
<1> QED BY <1>9, <1>10
-----------------------------------------------------------------------------
\* Request r goes on as n, with the canisters of todo and the labels as they are now.
GoesOnTo(q, r, todo, now, n) ==
  /\ RequestOK(n) /\ request' = [request EXCEPT ![q] = n]
  /\ labels' \in [Governed -> SUBSET Nat] /\ newest' \in [Governed -> Nat]
  /\ todo = <<>> => n = NoRequest /\ labels' = now /\ newest' = newest
  /\ todo # <<>> =>
       /\ n.at = "list" /\ n.about = r.about /\ n.todo = todo /\ n.back = r.back /\ n.kept = labels'[Head(todo)]
       /\ Head(todo) \in r.about /\ Head(todo) \in ToSet(todo) /\ ToSet(Tail(todo)) = ToSet(todo) \ {Head(todo)}
       /\ \A d \in Governed \ {Head(todo)} : labels'[d] = now[d] /\ newest'[d] = newest[d]
       /\ \E i \in DOMAIN r.back :
            /\ r.back[i].c = Head(todo) /\ labels'[Head(todo)] = now[Head(todo)] \cup {r.back[i].id}
            /\ newest'[Head(todo)] = Max({r.back[i].id, newest[Head(todo)]})

\* The next canister of keep_newest, if there is one.
LEMMA KeepNewestIs ==
  ASSUME GovernedInv, NEW q \in Requests, NEW r, r = request[q], r.at # "idle",
         NEW todo \in Seq(Governed), IsInjective(todo), ToSet(todo) \subseteq Behind(r.back),
         NEW now \in [Governed -> SUBSET Nat], KeepNewest(q, todo, now)
  PROVE  \E n : GoesOnTo(q, r, todo, now, n)
<1>1. /\ RequestOK(r) /\ r.about \subseteq Governed /\ r \in RequestRecord /\ r.back \in Seq(BackRecord)
      /\ \A i \in DOMAIN r.back : r.back[i].c \in r.about /\ r.back[i] \in BackRecord
      /\ newest \in [Governed -> Nat]
  BY RequestIs
<1>2. CASE todo = <<>>
  <2>1. request' = [request EXCEPT ![q] = NoRequest] /\ labels' = now /\ newest' = newest BY <1>2 DEF KeepNewest, Goes
  <2>2. GoesOnTo(q, r, todo, now, NoRequest) BY <1>1, <1>2, <2>1, NoRequestOK DEF GoesOnTo
  <2> QED BY <2>2
<1>3. CASE todo # <<>>
  <2>1. PICK c : c = Head(todo) OBVIOUS
  <2>2. c \in Governed /\ c \in ToSet(todo) /\ ToSet(Tail(todo)) = ToSet(todo) \ {c} BY <1>3, <2>1, HeadAndTail
  <2>3. PICK i \in DOMAIN r.back : r.back[i].c = c BY <2>2 DEF Behind
  <2>4. PICK x : x = r.back[i].id OBVIOUS
  <2>5. {b.id : b \in {y \in ToSet(r.back) : y.c = c}} = {x}
    <3>1. \A j \in DOMAIN r.back : r.back[j].c = c => j = i BY <1>1, <2>3 DEF RequestOK, IsInjective, BackList
    <3>2. r.back[i] \in ToSet(r.back) BY DEF ToSet
    <3>3. {y \in ToSet(r.back) : y.c = c} = {r.back[i]} BY <2>3, <3>1, <3>2 DEF ToSet
    <3> QED BY <2>4, <3>3
  <2>6. PICK mine : mine = {b.id : b \in {y \in ToSet(r.back) : y.c = c}} OBVIOUS
  <2>7. /\ labels' = [now EXCEPT ![c] = @ \cup mine]
        /\ newest' = [newest EXCEPT ![c] = Max(mine \cup {@})]
        /\ request' = [request EXCEPT ![q] = [r EXCEPT !.at = "list", !.todo = todo, !.kept = labels'[c]]]
    BY <1>3, <2>1, <2>6 DEF KeepNewest, Goes
  <2>8. mine = {x} /\ mine \cup {newest[c]} = {x, newest[c]} BY <2>5, <2>6
  <2>9. x \in Nat /\ newest[c] \in Nat BY <1>1, <2>2, <2>4 DEF BackRecord
  <2>10. Max({x, newest[c]}) \in Nat
    <3>1. \E b \in Nat : x <= b /\ newest[c] <= b
      <4>1. CASE x <= newest[c] BY <2>9, <4>1
      <4>2. CASE ~(x <= newest[c]) BY <2>9, <4>2
      <4> QED BY <4>1, <4>2
    <3>2. PICK b \in Nat : x <= b /\ newest[c] <= b BY <3>1
    <3>3. {x, newest[c]} \subseteq 0..b /\ {x, newest[c]} # {} BY <2>9, <3>2
    <3> QED BY <2>9, <3>3, MaxOfBounded
  <2>11. labels' \in [Governed -> SUBSET Nat] /\ labels'[c] = now[c] \cup {x} /\ \A d \in Governed \ {c} : labels'[d] = now[d]
    BY <2>2, <2>7, <2>8, <2>9
  <2>12. newest'[c] = Max({x, newest[c]}) /\ \A d \in Governed \ {c} : newest'[d] = newest[d]
    BY <1>1, <2>2, <2>7, <2>8
  <2>13. newest' \in [Governed -> Nat]
    <3>1. newest' = [newest EXCEPT ![c] = Max({x, newest[c]})] BY <2>7, <2>8
    <3> QED BY <1>1, <2>10, <3>1
  <2>14. PICK n : n = [r EXCEPT !.at = "list", !.todo = todo, !.kept = labels'[c]] OBVIOUS
  <2>15. n \in RequestRecord /\ n.at = "list" /\ n.about = r.about /\ n.todo = todo /\ n.back = r.back /\ n.kept = labels'[c]
    BY <1>1, <2>2, <2>11, <2>14 DEF RequestRecord
  <2>16. Behind(r.back) \subseteq r.about /\ IsInjective(BackList(r.back)) BY <1>1 DEF RequestOK
  <2>17. ToSet(Tail(todo)) \subseteq Behind(r.back) BY <2>2
  <2>18. RequestOK(n) BY <1>3, <2>15, <2>16, <2>17 DEF RequestOK
  <2>19. c \in r.about BY <2>2, <2>16
  <2>20. request' = [request EXCEPT ![q] = n] BY <2>7, <2>14
  <2>21. /\ n.at = "list" /\ n.about = r.about /\ n.todo = todo /\ n.back = r.back /\ n.kept = labels'[c]
         /\ c \in r.about /\ c \in ToSet(todo) /\ ToSet(Tail(todo)) = ToSet(todo) \ {c}
         /\ \A d \in Governed \ {c} : labels'[d] = now[d] /\ newest'[d] = newest[d]
    BY <2>2, <2>11, <2>12, <2>15, <2>19
  <2>22. r.back[i].c = c /\ labels'[c] = now[c] \cup {r.back[i].id} /\ newest'[c] = Max({r.back[i].id, newest[c]})
    BY <2>3, <2>4, <2>11, <2>12
  <2>23. GoesOnTo(q, r, todo, now, n) BY <1>3, <2>1, <2>11, <2>13, <2>18, <2>20, <2>21, <2>22 DEF GoesOnTo
  <2> QED BY <2>23
<1> QED BY <1>2, <1>3

\* A canister that is given its own is known up to what is too many.
LEMMA GivenItsOwn ==
  ASSUME NEW n \in Nat, NEW d, ShotsOK(shots[d], n), newest[d] \in Nat, NEW id, OneNew(d, id),
         shots'[d] = shots[d], labels'[d] = labels[d] \cup {id}, newest'[d] = Max({id, newest[d]})
  PROVE  /\ shots'[d] # <<>> /\ newest'[d] = shots'[d][1].id /\ Len(shots'[d]) <= Keep + 1
         /\ labels'[d] = IdsOf(d)'
<1>1. PICK all : all = shots[d] OBVIOUS
<1>2. all # <<>> /\ Len(all) <= Keep + 1 /\ all[1].id = id /\ labels[d] = IdsOf(d) \ {id} /\ (newest[d] # 0 => newest[d] \in labels[d])
  BY <1>1 DEF OneNew
<1>3. ShotsOK(all, n) /\ all \in Seq(ShotRecord) /\ DOMAIN all = 1..Len(all) /\ Len(all) \in Nat BY <1>1 DEF ShotsOK
<1>4. 1 \in DOMAIN all BY <1>2, <1>3
<1>5. id \in Nat /\ \A i \in DOMAIN all : all[i].id <= id /\ all[i].id \in Nat
  <2>1. id \in 1..n BY <1>2, <1>3, <1>4 DEF ShotsOK
  <2>2. ASSUME NEW i \in DOMAIN all PROVE all[i].id <= id /\ all[i].id \in Nat
    <3>1. all[i].id \in 1..n BY <1>3 DEF ShotsOK
    <3>2. i = 1 \/ 1 < i BY <1>3
    <3>3. 1 < i => all[1].id > all[i].id BY <1>3, <1>4 DEF ShotsOK
    <3> QED BY <1>2, <2>1, <3>1, <3>2, <3>3
  <2> QED BY <2>1, <2>2
<1>6. IdsOf(d) = {all[i].id : i \in DOMAIN all} BY <1>1 DEF IdsOf
<1>7. id \in IdsOf(d) BY <1>2, <1>4, <1>6
<1>8. newest[d] \in 0..id BY <1>2, <1>5, <1>6
<1>9. Max({id, newest[d]}) = id
  <2>1. {id, newest[d]} \subseteq 0..id /\ {id, newest[d]} # {} BY <1>5, <1>8
  <2>2. Max({id, newest[d]}) \in {id, newest[d]} /\ id <= Max({id, newest[d]}) BY <1>5, <2>1, MaxOfBounded
  <2> QED BY <1>5, <1>8, <2>2
<1>10. IdsOf(d)' = IdsOf(d) BY DEF IdsOf
<1> QED BY <1>1, <1>2, <1>7, <1>9, <1>10

LEMMA CheckBuildKeeps == ASSUME GovernedInv, NEW q \in Requests, CheckBuild(q) PROVE GovernedInv'
<1>r. PICK r, c : r = request[q] /\ c = Head(r.todo) OBVIOUS
<1>1. r.at = "status" /\ r.at # "idle" /\ ~ Impossible(q) /\ CallDone(q) /\ failed' = failed /\ crossed' = crossed
  BY <1>r DEF CheckBuild, Answer, At
<1>2. /\ RequestOK(r) /\ r.about \subseteq Governed /\ r \in RequestRecord /\ r.back \in Seq(BackRecord) /\ r.w \in Wasms
      /\ code \in [Governed -> Wasms] /\ taken \in Nat /\ failed \in Nat /\ DOMAIN shots = Governed
      /\ \A d \in Governed : ShotsOK(shots[d], taken)
      /\ hash \in [Governed -> Wasms] /\ labels \in [Governed -> SUBSET Nat] /\ newest \in [Governed -> Nat]
      /\ This(q) = c
  BY <1>r, <1>1, RequestIs
<1>3. ~ r.about \subseteq crossed => StillHas(r) /\ \A d \in r.about \ crossed : Says(r, d) BY <1>r, <1>1, RequestIs
<1>4. restored \subseteq Governed BY DEF GovernedInv, CanistersOK
<1>5. UNCHANGED <<code, shots, taken, restored>> BY <1>r, <1>1, CallDoneIs
<1>6. /\ c \in r.about /\ c \in Governed /\ c \in ToSet(r.todo) /\ Tail(r.todo) \in Seq(Governed) /\ IsInjective(Tail(r.todo))
      /\ ToSet(Tail(r.todo)) = ToSet(r.todo) \ {c}
  BY <1>r, <1>1, <1>2, FirstOfRequest
<1>7. r.about = Behind(r.back) /\ r.back # <<>> /\ IsInjective(BackList(r.back)) /\ ToSet(r.todo) \subseteq r.about /\ r.todo \in Seq(Governed)
  BY <1>1, <1>2 DEF RequestOK, RequestRecord
<1>8. /\ BackList(r.back) \in Seq(Governed) /\ BackList(r.back) # <<>> /\ ToSet(BackList(r.back)) = Behind(r.back)
  BY <1>2, <1>7, BackLists
<1>9. /\ \A d \in Governed : \A id : ShotOf(d, id)' = ShotOf(d, id) /\ OneNew(d, id) /\ labels'[d] = labels[d] /\ newest'[d] = newest[d] => OneNew(d, id)'
      /\ \A d, id : Has(d, id)' = Has(d, id)
  BY <1>5 DEF ShotOf, OneNew, IdsOf, Has
<1>10. CASE code[c] = r.w /\ hash' = [hash EXCEPT ![c] = r.w]
  <2>1. hash' \in [Governed -> Wasms] /\ hash'[c] = r.w /\ \A d \in Governed \ {c} : hash'[d] = hash[d] BY <1>2, <1>6, <1>10
  <2>2. ASSUME NEW d \in Governed, RowSays(r, d) PROVE ToldRight(d)'
    <3>1. d # c => ToldRight(d) BY <1>r, <1>1, <2>2 DEF RowSays
    <3> QED BY <1>5, <1>10, <2>1, <2>2, <3>1 DEF ToldRight
  <2>3. CASE Len(r.todo) > 1 /\ request' = [request EXCEPT ![q] = [r EXCEPT !.at = "install", !.todo = Tail(@)]] /\ UNCHANGED <<labels, newest>>
    <3>1. PICK n : n = [r EXCEPT !.at = "install", !.todo = Tail(r.todo)] /\ request' = [request EXCEPT ![q] = n] BY <2>3
    <3>2. n \in RequestRecord /\ n.at = "install" /\ n.about = r.about /\ n.todo = Tail(r.todo) /\ n.back = r.back
      BY <1>2, <1>6, <3>1 DEF RequestRecord
    <3>3. n.todo # <<>> BY <1>7, <2>3, <3>2, TailOfSeq
    <3>4. RequestOK(n) BY <1>1, <1>2, <1>6, <1>7, <3>2, <3>3 DEF RequestOK
    <3>5. CanistersOK' /\ OnlyMore BY <1>1, <1>2, <1>4, <1>5, <2>1, <2>3, <3>1, <3>4, StepOK
    <3>6. \A d \in Governed \ {c} : LeftAlone(d) BY <1>5, <2>1, <2>3 DEF LeftAlone
    <3>7. ASSUME ~ r.about \subseteq crossed PROVE StillHas(n)' BY <1>1, <1>3, <1>9, <3>2, <3>7 DEF StillHas
    <3>8. ASSUME ~ r.about \subseteq crossed, NEW d \in r.about \ crossed PROVE Says(n, d)'
      <4>1. Says(r, d) /\ d \in Governed BY <1>2, <1>3, <3>8
      <4>2. ASSUME RowSays(r, d) PROVE RowSays(n, d)'
        <5>1. ToldRight(d)' BY <2>2, <4>1, <4>2
        <5>2. \A i \in DOMAIN r.back : r.back[i].c = d => ShotOf(d, r.back[i].id).code = r.back[i].hash BY <1>1, <4>2 DEF RowSays
        <5>3. \A id : ShotOf(d, id)' = ShotOf(d, id) BY <1>5 DEF ShotOf
        <5> QED BY <3>2, <5>1, <5>2, <5>3 DEF RowSays
      <4>3. ASSUME ShotsSay(r, d) PROVE ShotsSay(n, d)'
        <5>1. \A id : OneNew(d, id)' = OneNew(d, id) BY <1>5, <2>3 DEF OneNew, IdsOf
        <5> QED BY <1>1, <3>2, <4>3, <5>1 DEF ShotsSay
      <4> QED BY <1>1, <1>5, <4>1, <4>2, <4>3 DEF Says
    <3>9. n.about = request[q].about /\ \A d \in Governed \ request[q].about : LeftAlone(d) BY <1>r, <1>6, <3>2, <3>6
    <3> QED BY <1>r, <1>1, <3>1, <3>5, <3>7, <3>8, <3>9, RequestMoves
  <2>4. CASE KeepNewest(q, BackList(r.back), labels)
    <3>1. PICK todo : todo = BackList(r.back) OBVIOUS
    <3>2. todo \in Seq(Governed) /\ IsInjective(todo) /\ ToSet(todo) = Behind(r.back) /\ todo # <<>> BY <1>7, <1>8, <3>1
    <3>3. PICK now \in [Governed -> SUBSET Nat] : now = labels BY <1>2
    <3>4. KeepNewest(q, todo, now) BY <2>4, <3>1, <3>3
    <3>a. PICK n : GoesOnTo(q, r, todo, now, n) BY <1>r, <1>1, <3>2, <3>4, KeepNewestIs
    <3>5. /\ RequestOK(n) /\ request' = [request EXCEPT ![q] = n]
          /\ labels' \in [Governed -> SUBSET Nat] /\ newest' \in [Governed -> Nat]
          /\ n.at = "list" /\ n.about = r.about /\ n.todo = todo /\ n.back = r.back /\ n.kept = labels'[Head(todo)]
          /\ Head(todo) \in r.about /\ Head(todo) \in ToSet(todo) /\ ToSet(Tail(todo)) = ToSet(todo) \ {Head(todo)}
          /\ \A d \in Governed \ {Head(todo)} : labels'[d] = now[d] /\ newest'[d] = newest[d]
          /\ \E i \in DOMAIN r.back :
               /\ r.back[i].c = Head(todo) /\ labels'[Head(todo)] = now[Head(todo)] \cup {r.back[i].id}
               /\ newest'[Head(todo)] = Max({r.back[i].id, newest[Head(todo)]})
      BY <3>2, <3>a DEF GoesOnTo
    <3>6. PICK first \in r.about : first = Head(todo) BY <3>5
    <3>7. CanistersOK' /\ OnlyMore BY <1>1, <1>2, <1>4, <1>5, <2>1, <3>5, StepOK
    <3>8. \A d \in Governed \ r.about : LeftAlone(d) BY <1>5, <1>6, <2>1, <3>3, <3>5 DEF LeftAlone
    <3>9. StillHas(n)' BY <3>5 DEF StillHas
    <3>10. ASSUME ~ r.about \subseteq crossed, NEW d \in r.about \ crossed PROVE Says(n, d)'
      <4>1. Says(r, d) /\ d \in Governed BY <1>2, <1>3, <3>10
      <4>2. ASSUME RowSays(r, d) PROVE RowSays(n, d)'
        <5>1. ToldRight(d)' BY <2>2, <4>1, <4>2
        <5> QED BY <3>5, <5>1 DEF RowSays
      <4>3. ASSUME ShotsSay(r, d) PROVE ShotsSay(n, d)'
        <5>1. ASSUME NEW i \in DOMAIN r.back, r.back[i].c = d, NEW id, id = r.back[i].id PROVE OneNew(d, id)
          BY <1>1, <4>3, <5>1 DEF ShotsSay
        <5>2. CASE d = first
          <6>1. PICK i \in DOMAIN r.back : /\ r.back[i].c = first /\ labels'[first] = now[first] \cup {r.back[i].id}
                                           /\ newest'[first] = Max({r.back[i].id, newest[first]})
            BY <3>5, <3>6
          <6>2. PICK id : id = r.back[i].id OBVIOUS
          <6>3. OneNew(d, id) BY <5>1, <5>2, <6>1, <6>2
          <6>4. ShotsOK(shots[d], taken) /\ newest[d] \in Nat /\ shots'[d] = shots[d] BY <1>2, <1>5, <4>1
          <6>5. labels'[d] = labels[d] \cup {id} /\ newest'[d] = Max({id, newest[d]}) BY <3>3, <5>2, <6>1, <6>2
          <6>6. shots'[d] # <<>> /\ newest'[d] = shots'[d][1].id /\ Len(shots'[d]) <= Keep + 1 /\ labels'[d] = IdsOf(d)'
            BY <1>2, <6>3, <6>4, <6>5, GivenItsOwn
          <6>7. d \notin ToSet(Tail(todo)) /\ d \in ToSet(todo) /\ Head(todo) = d /\ n.kept = IdsOf(d)' BY <3>5, <3>6, <5>2, <6>6
          <6> QED BY <3>5, <6>6, <6>7 DEF ShotsSay
        <5>3. CASE d # first
          <6>1. labels'[d] = labels[d] /\ newest'[d] = newest[d] BY <3>3, <3>5, <3>6, <4>1, <5>3
          <6>2. \A id : OneNew(d, id)' = OneNew(d, id) BY <1>5, <6>1 DEF OneNew, IdsOf
          <6>3. d \in ToSet(todo) BY <1>7, <3>2, <3>10
          <6> QED BY <3>5, <3>6, <5>1, <5>3, <6>2, <6>3 DEF ShotsSay
        <5> QED BY <5>2, <5>3
      <4> QED BY <1>1, <1>5, <4>1, <4>2, <4>3 DEF Says
    <3>11. n.about = request[q].about /\ \A d \in Governed \ request[q].about : LeftAlone(d) BY <1>r, <3>5, <3>8
    <3> QED BY <1>r, <1>1, <3>5, <3>7, <3>9, <3>10, <3>11, RequestMoves
  <2> QED BY <1>r, <1>2, <1>10, <2>3, <2>4 DEF CheckBuild, Goes, BackList
<1>11. CASE code[c] # r.w /\ UNCHANGED <<hash, labels, newest>>
  <2>1. PICK n : n = [r EXCEPT !.at = "load", !.todo = BackList(r.back)] /\ request' = [request EXCEPT ![q] = n]
    BY <1>r, <1>2, <1>11 DEF CheckBuild, Goes, RollBack, BackList
  <2>2. n \in RequestRecord /\ n.at = "load" /\ n.about = r.about /\ n.todo = BackList(r.back) /\ n.back = r.back
    BY <1>2, <1>8, <2>1 DEF RequestRecord
  <2>3. RequestOK(n) BY <1>7, <1>8, <2>2 DEF RequestOK
  <2>4. CanistersOK' /\ OnlyMore BY <1>1, <1>2, <1>4, <1>5, <1>11, <2>1, <2>3, StepOK
  <2>5. \A d \in Governed : LeftAlone(d) BY <1>5, <1>11 DEF LeftAlone
  <2>6. r.about \subseteq crossed
    <3>1. StillHas(r) => code[c] = r.w BY <1>r, <1>1 DEF StillHas
    <3> QED BY <1>3, <1>11, <3>1
  <2>7. n.about = request[q].about /\ request[q].about \subseteq crossed BY <1>r, <2>2, <2>6
  <2> QED BY <1>r, <1>1, <2>1, <2>4, <2>5, <2>7, RequestMoves
<1> QED BY <1>r, <1>2, <1>10, <1>11 DEF CheckBuild

\* The labels of a canister are written back, and keep_newest goes on with the next.
LEMMA KeepNewestKeeps ==
  ASSUME GovernedInv, NEW q \in Requests, NEW r, r = request[q], r.at \in {"list", "prune"}, NEW c, c = Head(r.todo),
         KeepNewest(q, Tail(r.todo), [labels EXCEPT ![c] = r.kept]),
         UNCHANGED <<code, hash, failed, crossed, restored, taken>>, DOMAIN shots' = Governed,
         \A d \in Governed : ShotsOK(shots'[d], taken), \A d \in Governed \ {c} : shots'[d] = shots[d],
         ~ r.about \subseteq crossed /\ c \notin crossed /\ failed = 0 =>
           r.kept = IdsOf(c)' /\ Len(shots'[c]) <= Keep /\ newest[c] \in r.kept
  PROVE  GovernedInv'
<1>1. /\ RequestOK(r) /\ r.about \subseteq Governed /\ r.todo \in Seq(Governed) /\ r.kept \in SUBSET Nat
      /\ code \in [Governed -> Wasms] /\ hash \in [Governed -> Wasms] /\ labels \in [Governed -> SUBSET Nat]
      /\ newest \in [Governed -> Nat] /\ taken \in Nat /\ \A d \in Governed : ShotsOK(shots[d], taken)
  BY RequestIs
<1>2. ~ r.about \subseteq crossed => \A d \in r.about \ crossed : Says(r, d) BY RequestIs
<1>3. restored \subseteq Governed BY DEF GovernedInv, CanistersOK
<1>4. PICK todo : todo = Tail(r.todo) OBVIOUS
<1>5. /\ c \in r.about /\ c \in Governed /\ todo \in Seq(Governed) /\ IsInjective(todo)
      /\ ToSet(todo) = ToSet(r.todo) \ {c} /\ c \in ToSet(r.todo)
  BY <1>1, <1>4, FirstOfRequest
<1>6. ToSet(todo) \subseteq Behind(r.back) BY <1>1, <1>4 DEF RequestOK
<1>7. PICK now \in [Governed -> SUBSET Nat] : now = [labels EXCEPT ![c] = r.kept] BY <1>1
<1>8. now[c] = r.kept /\ \A d \in Governed \ {c} : now[d] = labels[d] BY <1>1, <1>5, <1>7
<1>9. KeepNewest(q, todo, now) BY <1>4, <1>7
<1>10. PICK n : GoesOnTo(q, r, todo, now, n) BY <1>5, <1>6, <1>9, KeepNewestIs
<1>11. /\ RequestOK(n) /\ request' = [request EXCEPT ![q] = n]
       /\ labels' \in [Governed -> SUBSET Nat] /\ newest' \in [Governed -> Nat]
  BY <1>10 DEF GoesOnTo
<1>12. CanistersOK' /\ OnlyMore BY <1>1, <1>3, <1>11, StepOK
<1>13. todo = <<>> => ToSet(todo) = {}
  <2>1. DOMAIN <<>> = {} OBVIOUS
  <2> QED BY <2>1 DEF ToSet
<1>14. \A d \in Governed : d \notin ToSet(todo) => labels'[d] = now[d] /\ newest'[d] = newest[d]
  BY <1>10 DEF GoesOnTo
<1>15. \/ n.at = "idle" /\ n = NoRequest /\ todo = <<>>
       \/ n.at = "list" /\ n.about = r.about /\ n.todo = todo /\ n.back = r.back /\ todo # <<>>
  BY <1>10, NoRequestOK DEF GoesOnTo
<1>16. ASSUME ~ r.about \subseteq crossed, NEW d \in r.about \ crossed PROVE Says(n, d)'
  <2>1. Says(r, d) /\ d \in Governed BY <1>1, <1>2, <1>16
  <2>2. ASSUME RowSays(r, d) PROVE RowSays(n, d)'
    <3>1. ToldRight(d)' BY <2>2 DEF ToldRight, RowSays
    <3> QED BY <1>15, <3>1 DEF RowSays
  <2>3. ASSUME ShotsSay(r, d), failed = 0 PROVE ShotsSay(n, d)'
    <3>1. CASE d \notin ToSet(todo)
      <4>1. labels'[d] = now[d] /\ newest'[d] = newest[d] BY <1>14, <2>1, <3>1
      <4>2. Known(d)'
        <5>1. CASE d = c
          <6>1. r.kept = IdsOf(c)' /\ Len(shots'[c]) <= Keep /\ newest[c] \in r.kept BY <1>16, <2>3, <5>1
          <6> QED BY <1>8, <4>1, <5>1, <6>1 DEF Known
        <5>2. CASE d # c
          <6>1. d \notin ToSet(r.todo) BY <1>5, <3>1, <5>2
          <6>2. Known(d) BY <2>3, <6>1 DEF ShotsSay
          <6>3. shots'[d] = shots[d] /\ labels'[d] = labels[d] BY <1>8, <2>1, <4>1, <5>2
          <6> QED BY <4>1, <6>2, <6>3 DEF Known, IdsOf
        <5> QED BY <5>1, <5>2
      <4>3. n.at = "list" => d # Head(n.todo) /\ d \notin ToSet(Tail(n.todo)) BY <1>10, <1>15, <3>1 DEF GoesOnTo
      <4> QED BY <1>15, <4>2, <4>3 DEF ShotsSay
    <3>2. CASE d \in ToSet(todo)
      <4>1. d # c /\ todo # <<>> /\ n.at = "list" /\ n.todo = todo /\ n.back = r.back BY <1>5, <1>13, <1>15, <3>2
      <4>2. shots'[d] = shots[d] /\ now[d] = labels[d] BY <1>8, <2>1, <4>1
      <4>3. ASSUME NEW i \in DOMAIN r.back, r.back[i].c = d, NEW id, id = r.back[i].id PROVE OneNew(d, id)
        BY <1>4, <2>3, <3>2, <4>3 DEF ShotsSay
      <4>4. CASE d = Head(todo)
        <5>1. PICK i \in DOMAIN r.back : /\ r.back[i].c = d /\ labels'[d] = now[d] \cup {r.back[i].id}
                                         /\ newest'[d] = Max({r.back[i].id, newest[d]})
          BY <1>10, <4>1, <4>4 DEF GoesOnTo
        <5>2. PICK id : id = r.back[i].id OBVIOUS
        <5>3. OneNew(d, id) BY <4>3, <5>1, <5>2
        <5>4. ShotsOK(shots[d], taken) /\ newest[d] \in Nat BY <1>1, <2>1
        <5>5. labels'[d] = labels[d] \cup {id} /\ newest'[d] = Max({id, newest[d]}) BY <4>2, <5>1, <5>2
        <5>6. shots'[d] # <<>> /\ newest'[d] = shots'[d][1].id /\ Len(shots'[d]) <= Keep + 1 /\ labels'[d] = IdsOf(d)'
          BY <1>1, <4>2, <5>3, <5>4, <5>5, GivenItsOwn
        <5>7. d \notin ToSet(Tail(todo)) /\ n.kept = labels'[d] BY <1>10, <4>1, <4>4 DEF GoesOnTo
        <5> QED BY <3>2, <4>1, <4>4, <5>6, <5>7 DEF ShotsSay
      <4>5. CASE d # Head(todo)
        <5>1. labels'[d] = labels[d] /\ newest'[d] = newest[d] BY <1>10, <2>1, <4>1, <4>2, <4>5 DEF GoesOnTo
        <5>2. \A id : OneNew(d, id)' = OneNew(d, id) BY <4>2, <5>1 DEF OneNew, IdsOf
        <5> QED BY <3>2, <4>1, <4>3, <4>5, <5>2 DEF ShotsSay
      <4> QED BY <4>4, <4>5
    <3> QED BY <3>1, <3>2
  <2> QED BY <2>1, <2>2, <2>3 DEF Says
<1>17. StillHas(n)' BY <1>15 DEF StillHas
<1>18. n = NoRequest \/ n.about = request[q].about BY <1>15
<1>19. \A d \in Governed \ request[q].about : LeftAlone(d)
  <2> SUFFICES ASSUME NEW d \in Governed \ request[q].about PROVE LeftAlone(d) OBVIOUS
  <2>1. d # c /\ d \notin ToSet(todo)
    <3>1. ToSet(r.todo) \subseteq r.about BY <1>1 DEF RequestOK
    <3> QED BY <1>5, <3>1
  <2> QED BY <1>8, <1>14, <2>1 DEF LeftAlone
<1> QED BY <1>11, <1>12, <1>16, <1>17, <1>18, <1>19, RequestMoves

\* The surplus of canister c is its own, and the only one of them is the oldest.
TooMany(r, c, surplus) ==
  /\ ~ r.about \subseteq crossed => IsInjective(surplus) /\ \A x \in ToSet(surplus) : Has(c, x)'
  /\ ~ r.about \subseteq crossed /\ c \notin crossed /\ failed = 0 =>
       /\ shots'[c] # <<>> /\ newest[c] = shots'[c][1].id /\ Len(shots'[c]) = Keep + 1
       /\ Head(surplus) = shots'[c][Keep + 1].id /\ Tail(surplus) = <<>> /\ r.kept = IdsOf(c)'

\* One of too many is to be deleted.
LEMMA PruneNextKeeps ==
  ASSUME GovernedInv, NEW q \in Requests, NEW r, r = request[q], r.at \in {"list", "prune"}, NEW c, c = Head(r.todo),
         NEW surplus \in Seq(Nat), surplus # <<>>, NEW n,
         n = [r EXCEPT !.at = "prune", !.shot = Head(surplus), !.kept = @ \ {Head(surplus)}, !.surplus = Tail(surplus)],
         request' = [request EXCEPT ![q] = n],
         UNCHANGED <<code, hash, labels, newest, failed, crossed, restored, taken>>, DOMAIN shots' = Governed,
         \A d \in Governed : ShotsOK(shots'[d], taken), \A d \in Governed \ {c} : shots'[d] = shots[d],
         TooMany(r, c, surplus)
  PROVE  GovernedInv'
<1>1. /\ RequestOK(r) /\ r.about \subseteq Governed /\ r.todo \in Seq(Governed) /\ r.kept \in SUBSET Nat /\ r \in RequestRecord
      /\ code \in [Governed -> Wasms] /\ hash \in [Governed -> Wasms] /\ labels \in [Governed -> SUBSET Nat]
      /\ newest \in [Governed -> Nat] /\ taken \in Nat
  BY RequestIs
<1>2. ~ r.about \subseteq crossed => \A d \in r.about \ crossed : Says(r, d) BY RequestIs
<1>3. restored \subseteq Governed BY DEF GovernedInv, CanistersOK
<1>4. /\ c \in r.about /\ c \in Governed /\ c \notin ToSet(Tail(r.todo)) /\ c \in ToSet(r.todo)
      /\ ToSet(Tail(r.todo)) = ToSet(r.todo) \ {c}
  BY <1>1, FirstOfRequest
<1>5. PICK first, rest : first = Head(surplus) /\ rest = Tail(surplus) OBVIOUS
<1>6. /\ first \in Nat /\ first \in ToSet(surplus) /\ rest \in Seq(Nat) /\ ToSet(surplus) = {first} \cup ToSet(rest)
      /\ IsInjective(surplus) => IsInjective(rest) /\ ToSet(rest) = ToSet(surplus) \ {first}
  BY <1>5, HeadAndTail
<1>7. n = [r EXCEPT !.at = "prune", !.shot = first, !.kept = r.kept \ {first}, !.surplus = rest] BY <1>5
<1>8. /\ n \in RequestRecord /\ n.at = "prune" /\ n.about = r.about /\ n.todo = r.todo /\ n.back = r.back /\ n.shot = first
      /\ n.kept = r.kept \ {first} /\ n.surplus = rest
  <2>1. n \in RequestRecord
    <3>1. r.kept \ {first} \in SUBSET Nat BY <1>1
    <3> QED BY <1>1, <1>6, <1>7, <3>1 DEF RequestRecord
  <2>2. n.at = "prune" /\ n.about = r.about /\ n.todo = r.todo /\ n.back = r.back BY <1>1, <1>7 DEF RequestRecord
  <2>3. n.shot = first /\ n.kept = r.kept \ {first} /\ n.surplus = rest BY <1>1, <1>7 DEF RequestRecord
  <2> QED BY <2>1, <2>2, <2>3
<1>9. RequestOK(n) BY <1>1, <1>8 DEF RequestOK
<1>10. CanistersOK' /\ OnlyMore BY <1>1, <1>3, <1>9, StepOK
<1>11. ASSUME ~ r.about \subseteq crossed PROVE StillHas(n)'
  <2>1. IsInjective(surplus) /\ \A x \in ToSet(surplus) : Has(c, x)' BY <1>11 DEF TooMany
  <2>2. \A x \in ToSet(rest) : x # first /\ x \in ToSet(surplus) BY <1>6, <2>1
  <2> QED BY <1>6, <1>8, <2>1, <2>2 DEF StillHas
<1>12. ASSUME ~ r.about \subseteq crossed, NEW d \in r.about \ crossed PROVE Says(n, d)'
  <2>1. Says(r, d) /\ d \in Governed BY <1>1, <1>2, <1>12
  <2>2. ASSUME RowSays(r, d) PROVE RowSays(n, d)'
    <3>1. ToldRight(d)' BY <2>2 DEF ToldRight, RowSays
    <3> QED BY <1>8, <3>1 DEF RowSays
  <2>3. ASSUME ShotsSay(r, d), failed = 0 PROVE ShotsSay(n, d)'
    <3>1. CASE d = c
      <4>1. /\ shots'[c] # <<>> /\ newest[c] = shots'[c][1].id /\ Len(shots'[c]) = Keep + 1
            /\ first = shots'[c][Keep + 1].id /\ rest = <<>> /\ r.kept = IdsOf(c)'
        BY <1>5, <1>12, <2>3, <3>1 DEF TooMany
      <4> QED BY <1>4, <1>8, <3>1, <4>1 DEF ShotsSay
    <3>2. CASE d # c
      <4>1. shots'[d] = shots[d] BY <2>1, <3>2
      <4>2. Known(d)' = Known(d) /\ \A id : OneNew(d, id)' = OneNew(d, id) BY <4>1 DEF Known, OneNew, IdsOf
      <4>3. d \notin ToSet(r.todo) => Known(d) BY <2>3 DEF ShotsSay
      <4>4. d \in ToSet(Tail(r.todo)) => \A i \in DOMAIN r.back : r.back[i].c = d => OneNew(d, r.back[i].id)
        BY <2>3 DEF ShotsSay
      <4> QED BY <1>4, <1>8, <3>2, <4>2, <4>3, <4>4 DEF ShotsSay
    <3> QED BY <3>1, <3>2
  <2> QED BY <2>1, <2>2, <2>3 DEF Says
<1>13. n.about = request[q].about /\ \A d \in Governed \ request[q].about : LeftAlone(d) BY <1>4, <1>8 DEF LeftAlone
<1> QED BY <1>10, <1>11, <1>12, <1>13, RequestMoves

\* What is too many.
LEMMA SurplusIs ==
  ASSUME NEW n \in Nat, NEW all, ShotsOK(all, n), NEW s, s = Surplus(Ids(all))
  PROVE  /\ s \in Seq(Nat) /\ IsInjective(s) /\ \A x \in ToSet(s) : \E i \in DOMAIN all : all[i].id = x
         /\ s = <<>> => Len(all) <= Keep
         /\ s # <<>> /\ Len(all) <= Keep + 1 => Len(all) = Keep + 1 /\ Head(s) = all[Keep + 1].id /\ Tail(s) = <<>>
<1>1. all \in Seq(ShotRecord) /\ DOMAIN all = 1..Len(all) /\ Len(all) \in Nat /\ \A i \in DOMAIN all : all[i].id \in Nat
  BY DEF ShotsOK
<1>2. Keep \in Nat /\ Keep >= 1 BY GovernedAssumption
<1>3. PICK ids : ids = [i \in 1..Len(all) |-> all[i].id] OBVIOUS
<1>4. Ids(all) = ids BY <1>1, <1>3 DEF Ids
<1>5. ids \in Seq(Nat) /\ Len(ids) = Len(all) BY <1>1, <1>3
<1>6. s = SubSeq(ids, Keep + 1, Len(all)) BY <1>4, <1>5 DEF Surplus
<1>7. CASE Len(all) <= Keep
  <2>1. s = <<>> BY <1>1, <1>2, <1>5, <1>6, <1>7
  <2>2. DOMAIN s = {} BY <2>1
  <2> QED BY <1>7, <2>1, <2>2 DEF IsInjective, ToSet
<1>8. CASE ~(Len(all) <= Keep)
  <2>a. PICK k \in Nat, m \in Nat : k = Keep /\ m = Len(all) BY <1>1, <1>2
  <2>b. k \in 1..m /\ k >= 1 /\ ~(m <= k) BY <1>2, <1>8, <2>a
  <2>c. ids \in Seq(Nat) /\ Len(ids) = m BY <1>5, <2>a
  <2>d. PICK t : t = SubSeq(ids, k + 1, m) OBVIOUS
  <2>e. /\ t \in Seq(Nat) /\ Len(t) = m - k /\ DOMAIN t = 1..(m - k)
        /\ \A j \in 1..(m - k) : t[j] = ids[k + j]
    BY <2>b, <2>c, <2>d
  <2>1. /\ s \in Seq(Nat) /\ Len(s) = Len(all) - Keep /\ DOMAIN s = 1..(Len(all) - Keep)
        /\ \A j \in 1..(Len(all) - Keep) : s[j] = ids[Keep + j]
    BY <1>6, <2>a, <2>d, <2>e
  <2>2. \A j \in 1..(Len(all) - Keep) : Keep + j \in DOMAIN all /\ s[j] = all[Keep + j].id BY <1>1, <1>2, <1>3, <2>1
  <2>3. IsInjective(s)
    <3>1. ASSUME NEW j \in DOMAIN s, NEW i \in DOMAIN s, s[j] = s[i] PROVE j = i
      <4>1. Keep + j \in DOMAIN all /\ Keep + i \in DOMAIN all /\ all[Keep + j].id = all[Keep + i].id BY <2>1, <2>2, <3>1
      <4>2. Keep + j = Keep + i BY <4>1, ShotIsOne
      <4> QED BY <1>1, <1>2, <2>1, <4>2
    <3> QED BY <3>1 DEF IsInjective
  <2>4. \A x \in ToSet(s) : \E i \in DOMAIN all : all[i].id = x BY <2>1, <2>2 DEF ToSet
  <2>5. s # <<>> BY <1>1, <1>2, <1>8, <2>1
  <2>6. ASSUME Len(all) <= Keep + 1 PROVE Len(all) = Keep + 1 /\ Head(s) = all[Keep + 1].id /\ Tail(s) = <<>>
    <3>1. Len(all) = Keep + 1
      <4>1. m <= k + 1 BY <2>6, <2>a
      <4>2. m = k + 1 BY <2>b, <4>1
      <4> QED BY <2>a, <4>2
    <3>2. Len(s) = 1 /\ s[1] = all[Keep + 1].id BY <1>2, <2>1, <2>2, <3>1
    <3>3. Tail(s) = <<>>
      <4>1. s \in Seq(Nat) /\ Len(s) = 1 BY <2>1, <3>2
      <4>2. Tail(s) \in Seq(Nat) /\ Len(Tail(s)) = 0 BY <4>1
      <4>3. PICK tail \in Seq(Nat) : tail = Tail(s) /\ Len(tail) = 0 BY <4>2
      <4>4. tail = <<>> BY <4>3
      <4> QED BY <4>3, <4>4
    <3>4. Head(s) = s[1] BY <2>1, <2>5
    <3>5. Head(s) = all[Keep + 1].id BY <3>2, <3>4
    <3> QED BY <3>1, <3>3, <3>5
  <2> QED BY <1>8, <2>1, <2>3, <2>4, <2>5, <2>6
<1> QED BY <1>7, <1>8

LEMMA ListShotsKeeps == ASSUME GovernedInv, NEW q \in Requests, ListShots(q) PROVE GovernedInv'
<1>r. PICK r, c, surplus : r = request[q] /\ c = Head(r.todo) /\ surplus = Surplus(Ids(shots[c])) OBVIOUS
<1>1. r.at = "list" /\ r.at # "idle" /\ ~ Impossible(q) /\ CallDone(q) /\ failed' = failed /\ crossed' = crossed /\ hash' = hash
  BY <1>r DEF ListShots, Answer, At
<1>2. /\ RequestOK(r) /\ This(q) = c /\ taken \in Nat /\ DOMAIN shots = Governed /\ \A d \in Governed : ShotsOK(shots[d], taken)
  BY <1>r, <1>1, RequestIs
<1>3. ~ r.about \subseteq crossed => StillHas(r) /\ \A d \in r.about \ crossed : Says(r, d) BY <1>r, <1>1, RequestIs
<1>4. UNCHANGED <<code, shots, taken, restored>> BY <1>r, <1>1, CallDoneIs
<1>5. c \in r.about /\ c \in Governed BY <1>r, <1>1, <1>2, FirstOfRequest
<1>6. PICK all : all = shots[c] OBVIOUS
<1>7. /\ surplus \in Seq(Nat) /\ IsInjective(surplus) /\ \A x \in ToSet(surplus) : \E i \in DOMAIN all : all[i].id = x
      /\ surplus = <<>> => Len(all) <= Keep
      /\ surplus # <<>> /\ Len(all) <= Keep + 1 =>
           Len(all) = Keep + 1 /\ Head(surplus) = all[Keep + 1].id /\ Tail(surplus) = <<>>
  <2>1. ShotsOK(all, taken) BY <1>2, <1>5, <1>6
  <2>2. surplus = Surplus(Ids(all)) BY <1>r, <1>6
  <2>3. taken \in Nat BY <1>2
  <2>4. surplus \in Seq(Nat) /\ IsInjective(surplus) BY <2>1, <2>2, <2>3, SurplusIs
  <2>5. \A x \in ToSet(surplus) : \E i \in DOMAIN all : all[i].id = x BY <2>1, <2>2, <2>3, SurplusIs
  <2>6. surplus = <<>> => Len(all) <= Keep BY <2>1, <2>2, <2>3, SurplusIs
  <2>7. surplus # <<>> /\ Len(all) <= Keep + 1 =>
          Len(all) = Keep + 1 /\ Head(surplus) = all[Keep + 1].id /\ Tail(surplus) = <<>>
    BY <2>1, <2>2, <2>3, SurplusIs
  <2> QED BY <2>4, <2>5, <2>6, <2>7
<1>8. ASSUME ~ r.about \subseteq crossed, c \notin crossed, failed = 0
      PROVE  all # <<>> /\ newest[c] = all[1].id /\ Len(all) <= Keep + 1 /\ r.kept = IdsOf(c) /\ newest[c] \in r.kept
  <2>1. ShotsSay(r, c) BY <1>3, <1>5, <1>8 DEF Says
  <2>2. all # <<>> /\ newest[c] = all[1].id /\ Len(all) <= Keep + 1 /\ r.kept = IdsOf(c) BY <1>r, <1>1, <1>6, <2>1 DEF ShotsSay
  <2>3. all \in Seq(ShotRecord) BY <1>2, <1>5, <1>6 DEF ShotsOK
  <2>4. 1 \in DOMAIN all BY <2>2, <2>3
  <2> QED BY <1>6, <2>2, <2>4 DEF IdsOf
<1>9. IdsOf(c)' = IdsOf(c) BY <1>4 DEF IdsOf
<1>10. KeepNext(q, surplus) BY <1>r, <1>2 DEF ListShots
<1>11. CASE surplus = <<>>
  <2>1. KeepNewest(q, Tail(r.todo), [labels EXCEPT ![c] = r.kept]) BY <1>r, <1>2, <1>10, <1>11 DEF KeepNext
  <2>2. ~ r.about \subseteq crossed /\ c \notin crossed /\ failed = 0 =>
           r.kept = IdsOf(c)' /\ Len(shots'[c]) <= Keep /\ newest[c] \in r.kept
    BY <1>4, <1>6, <1>7, <1>8, <1>9, <1>11
  <2>3. DOMAIN shots' = Governed /\ \A d \in Governed : ShotsOK(shots'[d], taken) /\ shots'[d] = shots[d] BY <1>2, <1>4
  <2> QED BY <1>r, <1>1, <1>4, <2>1, <2>2, <2>3, KeepNewestKeeps
<1>12. CASE surplus # <<>>
  <2>1. PICK n : /\ n = [r EXCEPT !.at = "prune", !.shot = Head(surplus), !.kept = @ \ {Head(surplus)}, !.surplus = Tail(surplus)]
                 /\ request' = [request EXCEPT ![q] = n]
    BY <1>r, <1>10, <1>12 DEF KeepNext, Goes
  <2>2. UNCHANGED <<labels, newest>> BY <1>r, <1>10, <1>12 DEF KeepNext
  <2>3. \A x \in ToSet(surplus) : Has(c, x)' BY <1>4, <1>6, <1>7 DEF Has, ToSet
  <2>4. ~ r.about \subseteq crossed /\ c \notin crossed /\ failed = 0 =>
           /\ shots'[c] # <<>> /\ newest[c] = shots'[c][1].id /\ Len(shots'[c]) = Keep + 1
           /\ Head(surplus) = shots'[c][Keep + 1].id /\ Tail(surplus) = <<>> /\ r.kept = IdsOf(c)'
    BY <1>4, <1>6, <1>7, <1>8, <1>9, <1>12
  <2>5. DOMAIN shots' = Governed /\ \A d \in Governed : ShotsOK(shots'[d], taken) /\ shots'[d] = shots[d] BY <1>2, <1>4
  <2>6. TooMany(r, c, surplus) BY <1>7, <2>3, <2>4 DEF TooMany
  <2> QED BY <1>r, <1>1, <1>4, <1>7, <1>12, <2>1, <2>2, <2>5, <2>6, PruneNextKeeps
<1> QED BY <1>11, <1>12

LEMMA PruneShotKeeps == ASSUME GovernedInv, NEW q \in Requests, PruneShot(q) PROVE GovernedInv'
<1>r. PICK r, c, surplus : r = request[q] /\ c = Head(r.todo) /\ surplus = r.surplus OBVIOUS
<1>1. r.at = "prune" /\ r.at # "idle" /\ ~ Impossible(q) /\ CallDone(q) /\ failed' = failed /\ crossed' = crossed /\ hash' = hash
  BY <1>r DEF PruneShot, Answer, At
<1>2. /\ RequestOK(r) /\ This(q) = c /\ taken \in Nat /\ surplus \in Seq(Nat) /\ \A d \in Governed : ShotsOK(shots[d], taken)
  BY <1>r, <1>1, RequestIs
<1>3. ~ r.about \subseteq crossed => StillHas(r) /\ \A d \in r.about \ crossed : Says(r, d) BY <1>r, <1>1, RequestIs
<1>4. /\ code' = code /\ taken' = taken /\ restored' = restored /\ DOMAIN shots' = Governed
      /\ \A d \in Governed \ {c} : shots'[d] = shots[d]
      /\ shots'[c] = Dropped(shots[c], r.shot) /\ Has(c, r.shot)
  BY <1>r, <1>1, CallDoneIs
<1>a. \A d \in Governed : ShotsOK(shots'[d], taken)
  <2>1. \A d \in Governed : ShotsOK(shots'[d], taken') BY <1>r, <1>1, CallDoneIs
  <2> QED BY <1>4, <2>1
<1>5. c \in r.about /\ c \in Governed BY <1>r, <1>1, <1>2, FirstOfRequest
<1>6. ShotsOK(shots[c], taken) /\ taken \in Nat BY <1>2, <1>5
<1>7. /\ IdsOf(c)' = IdsOf(c) \ {r.shot} /\ Len(shots'[c]) = Len(shots[c]) - 1
      /\ \A x : x # r.shot /\ Has(c, x) => Has(c, x)'
  BY <1>4, <1>6, AfterDrop
<1>8. ASSUME ~ r.about \subseteq crossed
      PROVE  IsInjective(surplus) /\ \A x \in ToSet(surplus) : Has(c, x)'
  <2>1. IsInjective(surplus) /\ \A x \in ToSet(surplus) : x # r.shot /\ Has(c, x) BY <1>r, <1>1, <1>3, <1>8 DEF StillHas
  <2> QED BY <1>7, <2>1
<1>9. ASSUME ~ r.about \subseteq crossed, c \notin crossed, failed = 0
      PROVE  surplus = <<>> /\ r.kept = IdsOf(c)' /\ Len(shots'[c]) <= Keep /\ newest[c] \in r.kept
  <2>1. ShotsSay(r, c) BY <1>3, <1>5, <1>9 DEF Says
  <2>2. PICK all : all = shots[c] OBVIOUS
  <2>3. /\ newest[c] = all[1].id /\ Len(all) = Keep + 1 /\ r.shot = all[Keep + 1].id /\ r.surplus = <<>>
        /\ r.kept = IdsOf(c) \ {r.shot}
    BY <1>r, <1>1, <2>1, <2>2 DEF ShotsSay
  <2>4. all \in Seq(ShotRecord) /\ DOMAIN all = 1..Len(all) BY <1>6, <2>2 DEF ShotsOK
  <2>a. PICK k \in Nat : k = Keep /\ 1 < k + 1 BY GovernedAssumption
  <2>b. 1 \in 1..(k + 1) /\ k + 1 \in 1..(k + 1) /\ (k + 1) - 1 <= k BY <2>a
  <2>5. 1 \in DOMAIN all /\ Keep + 1 \in DOMAIN all /\ 1 < Keep + 1 /\ Len(shots'[c]) <= Keep
    BY <1>7, <2>2, <2>3, <2>4, <2>a, <2>b
  <2>6. all[1].id # all[Keep + 1].id
    <3>1. all[1].id > all[Keep + 1].id /\ all[1].id \in Nat /\ all[Keep + 1].id \in Nat BY <1>6, <2>2, <2>5 DEF ShotsOK
    <3> QED BY <3>1
  <2>7. newest[c] \in IdsOf(c) BY <2>2, <2>3, <2>5 DEF IdsOf
  <2> QED BY <1>r, <1>7, <2>3, <2>5, <2>6, <2>7
<1>10. KeepNext(q, surplus) BY <1>r DEF PruneShot
<1>11. CASE surplus = <<>>
  <2>1. KeepNewest(q, Tail(r.todo), [labels EXCEPT ![c] = r.kept]) BY <1>r, <1>2, <1>10, <1>11 DEF KeepNext
  <2>2. ~ r.about \subseteq crossed /\ c \notin crossed /\ failed = 0 =>
           r.kept = IdsOf(c)' /\ Len(shots'[c]) <= Keep /\ newest[c] \in r.kept
    BY <1>9
  <2> QED BY <1>r, <1>1, <1>4, <1>a, <2>1, <2>2, KeepNewestKeeps
<1>12. CASE surplus # <<>>
  <2>1. PICK n : /\ n = [r EXCEPT !.at = "prune", !.shot = Head(surplus), !.kept = @ \ {Head(surplus)}, !.surplus = Tail(surplus)]
                 /\ request' = [request EXCEPT ![q] = n]
    BY <1>r, <1>10, <1>12 DEF KeepNext, Goes
  <2>2. UNCHANGED <<labels, newest>> BY <1>r, <1>10, <1>12 DEF KeepNext
  <2>3. ~ r.about \subseteq crossed /\ c \notin crossed /\ failed = 0 =>
           /\ shots'[c] # <<>> /\ newest[c] = shots'[c][1].id /\ Len(shots'[c]) = Keep + 1
           /\ Head(surplus) = shots'[c][Keep + 1].id /\ Tail(surplus) = <<>> /\ r.kept = IdsOf(c)'
    BY <1>9, <1>12
  <2>4. UNCHANGED <<code, hash, labels, newest, failed, crossed, restored, taken>> BY <1>1, <1>4, <2>2
  <2>5. TooMany(r, c, surplus) BY <1>8, <2>3 DEF TooMany
  <2>6. surplus \in Seq(Nat) /\ r.at \in {"list", "prune"} /\ DOMAIN shots' = Governed
        /\ \A d \in Governed \ {c} : shots'[d] = shots[d]
    BY <1>1, <1>2, <1>4
  <2>7. r = request[q] /\ c = Head(r.todo) BY <1>r
  <2> QED BY <1>a, <1>12, <2>1, <2>4, <2>5, <2>6, <2>7, PruneNextKeeps
<1> QED BY <1>11, <1>12
-----------------------------------------------------------------------------
Fresh(at, T, w, todo, id) == [NoRequest EXCEPT !.at = at, !.about = T, !.w = w, !.todo = todo, !.shot = id]

\* A request that is about to begin is sound.
LEMMA FreshRequestOK ==
  ASSUME NEW at \in {"take", "snapshot", "restore"}, NEW T \in SUBSET Governed, NEW w \in Wasms, NEW todo \in Seq(Governed),
         todo # <<>>, IsInjective(todo), ToSet(todo) = T, at = "snapshot" => Len(todo) = 1, NEW id \in Nat,
         NEW n, n = Fresh(at, T, w, todo, id)
  PROVE  RequestOK(n) /\ n.at = at /\ n.about = T /\ n.back = <<>>
<1>1. NoRequest \in RequestRecord /\ NoRequest.back = <<>> BY NoRequestOK
<1>2. n \in RequestRecord /\ n.at = at /\ n.about = T /\ n.todo = todo /\ n.back = <<>> BY <1>1 DEF RequestRecord, Fresh
<1>3. Behind(n.back) = {} /\ IsInjective(BackList(n.back))
  <2>1. DOMAIN <<>> = {} OBVIOUS
  <2> QED BY <1>2, <2>1 DEF Behind, BackList, IsInjective
<1>4. ASSUME at = "snapshot" PROVE Tail(todo) = <<>>
  <2>1. Tail(todo) \in Seq(Governed) /\ Len(Tail(todo)) = 0 BY <1>4
  <2>2. PICK tail \in Seq(Governed) : tail = Tail(todo) /\ Len(tail) = 0 BY <2>1
  <2>3. tail = <<>> BY <2>2
  <2> QED BY <2>2, <2>3
<1> QED BY <1>2, <1>3, <1>4 DEF RequestOK

LEMMA BeginUpgradeKeeps == ASSUME GovernedInv, NEW q \in Requests, BeginUpgrade(q) PROVE GovernedInv'
<1>1. PICK T \in {{c} : c \in Governed} \cup {Governed}, w \in Builds :
        Begins(q, T, [NoRequest EXCEPT !.at = "take", !.about = T, !.w = w, !.todo = Ascending(T)])
  BY DEF BeginUpgrade
<1>2. T \in SUBSET Governed /\ T # {} /\ IsFiniteSet(T) /\ T \subseteq Nat
  <2>1. T \in SUBSET Governed /\ T # {} BY GovernedAssumption
  <2> QED BY <2>1, GovernedAssumption, FS_Subset
<1>3. PICK todo : todo = Ascending(T) OBVIOUS
<1>4. todo \in Seq(T) /\ ToSet(todo) = T /\ \A i, j \in 1..Len(todo) : i < j => todo[i] < todo[j] BY <1>2, <1>3, AscendingLists
<1>5. todo \in Seq(Governed) /\ DOMAIN todo = 1..Len(todo) /\ Len(todo) \in Nat BY <1>2, <1>4, SeqOfSubset
<1>6. IsInjective(todo)
  <2>1. ASSUME NEW i \in DOMAIN todo, NEW j \in DOMAIN todo, todo[i] = todo[j] PROVE i = j
    <3>1. todo[i] \in Nat /\ todo[j] \in Nat
      <4>1. todo[i] \in T /\ todo[j] \in T BY <1>4 DEF ToSet
      <4> QED BY <1>2, <4>1
    <3>2. ~(i < j) /\ ~(j < i) BY <1>4, <1>5, <2>1, <3>1
    <3> QED BY <1>5, <3>2
  <2> QED BY <2>1 DEF IsInjective
<1>7. todo # <<>>
  <2>1. \E i \in DOMAIN todo : TRUE BY <1>2, <1>4 DEF ToSet
  <2> QED BY <2>1
<1>8. w \in Wasms BY DEF Wasms
<1>b. PICK id \in Nat, at \in {"take"} : id = 0 OBVIOUS
<1>9. PICK n : n = Fresh(at, T, w, todo, id) OBVIOUS
<1>10. NoRequest \in RequestRecord /\ NoRequest.shot = 0 BY NoRequestOK
<1>11. n = [NoRequest EXCEPT !.at = "take", !.about = T, !.w = w, !.todo = todo] BY <1>b, <1>9, <1>10 DEF RequestRecord, Fresh
<1>a. at \in {"take", "snapshot", "restore"} /\ at # "snapshot" BY <1>b
<1>12. RequestOK(n) /\ n.at = "take" /\ n.about = T /\ n.back = <<>>
  <2>1. RequestOK(n) /\ n.at = at /\ n.about = T /\ n.back = <<>>
    BY <1>2, <1>4, <1>5, <1>6, <1>7, <1>8, <1>9, <1>a, FreshRequestOK
  <2> QED BY <1>b, <2>1
<1>13. Begins(q, T, n) BY <1>1, <1>3, <1>11
<1> QED BY <1>2, <1>12, <1>13, BeginsKeeps

\* One canister's.
LEMMA BeginOneKeeps ==
  ASSUME GovernedInv, NEW q \in Requests, NEW c \in Governed, NEW at \in {"snapshot", "restore"}, NEW id \in Nat, NEW n,
         n = [NoRequest EXCEPT !.at = at, !.about = {c}, !.todo = <<c>>, !.shot = id], Begins(q, {c}, n)
  PROVE  GovernedInv'
<1>1. PICK T, todo : T = {c} /\ T \in SUBSET Governed /\ todo = <<c>> OBVIOUS
<1>2. todo \in Seq(Governed) /\ todo # <<>> /\ Len(todo) = 1 /\ ToSet(todo) = T BY <1>1, SeqOfOne
<1>3. IsInjective(todo)
  <2>1. DOMAIN todo = {1} BY <1>1
  <2> QED BY <2>1 DEF IsInjective
<1>4. NoRequest \in RequestRecord /\ NoRequest.w \in Wasms BY NoRequestOK DEF RequestRecord
<1>5. PICK w \in Wasms : w = NoRequest.w BY <1>4
<1>6. n = [NoRequest EXCEPT !.at = at, !.about = T, !.w = w, !.todo = todo, !.shot = id]
  BY <1>1, <1>4, <1>5 DEF RequestRecord
<1>a. n = Fresh(at, T, w, todo, id) BY <1>6 DEF Fresh
<1>b. at \in {"take", "snapshot", "restore"} /\ T \in SUBSET Governed /\ w \in Wasms /\ id \in Nat BY <1>1
<1>7. RequestOK(n) /\ n.at = at /\ n.about = T /\ n.back = <<>> 
  <2>1. PICK kind : kind = at OBVIOUS
  <2>2. PICK m : m = Fresh(kind, T, w, todo, id) OBVIOUS
  <2>3. kind \in {"take", "snapshot", "restore"} BY <1>b, <2>1
  <2>4. todo \in Seq(Governed) /\ todo # <<>> /\ IsInjective(todo) /\ ToSet(todo) = T /\ (kind = "snapshot" => Len(todo) = 1)
    BY <1>2, <1>3
  <2>5. RequestOK(m) /\ m.at = kind /\ m.about = T /\ m.back = <<>> BY <1>b, <2>2, <2>3, <2>4, FreshRequestOK
  <2>6. m = n BY <1>a, <2>1, <2>2
  <2> QED BY <2>1, <2>5, <2>6
<1> QED BY <1>1, <1>7, BeginsKeeps

LEMMA BeginSnapshotKeeps == ASSUME GovernedInv, NEW q \in Requests, BeginSnapshot(q) PROVE GovernedInv'
<1>1. PICK c \in Governed : Begins(q, {c}, [NoRequest EXCEPT !.at = "snapshot", !.about = {c}, !.todo = <<c>>])
  BY DEF BeginSnapshot
<1>2. NoRequest \in RequestRecord /\ NoRequest.shot = 0 BY NoRequestOK
<1>3. PICK n : n = [NoRequest EXCEPT !.at = "snapshot", !.about = {c}, !.todo = <<c>>, !.shot = 0] OBVIOUS
<1>4. n = [NoRequest EXCEPT !.at = "snapshot", !.about = {c}, !.todo = <<c>>] BY <1>2, <1>3 DEF RequestRecord
<1>5. Begins(q, {c}, n) BY <1>1, <1>4
<1> QED BY <1>3, <1>5, BeginOneKeeps

LEMMA BeginRestoreKeeps == ASSUME GovernedInv, NEW q \in Requests, BeginRestore(q) PROVE GovernedInv'
<1>c. PICK c \in Governed : \E s \in ToSet(shots[c]) :
        Begins(q, {c}, [NoRequest EXCEPT !.at = "restore", !.about = {c}, !.todo = <<c>>, !.shot = s.id])
  BY DEF BeginRestore
<1>1. PICK s \in ToSet(shots[c]) :
        Begins(q, {c}, [NoRequest EXCEPT !.at = "restore", !.about = {c}, !.todo = <<c>>, !.shot = s.id])
  BY <1>c
<1>2. s.id \in Nat
  <2>1. ShotsOK(shots[c], taken) BY DEF GovernedInv, CanistersOK
  <2> QED BY <2>1 DEF ShotsOK, ToSet
<1>3. PICK id \in Nat : id = s.id BY <1>2
<1>4. PICK n : n = [NoRequest EXCEPT !.at = "restore", !.about = {c}, !.todo = <<c>>, !.shot = id] OBVIOUS
<1>5. Begins(q, {c}, n) BY <1>1, <1>3, <1>4
<1> QED BY <1>4, <1>5, BeginOneKeeps

\* Every step of what the conductor does to its canisters keeps the invariant.
LEMMA GovernedKept == ASSUME GovernedInv, [CanistersNext]_canisterVars PROVE GovernedInv'
<1>1. CASE UNCHANGED canisterVars
  <2>1. UNCHANGED <<code, shots, taken, hash, labels, request, failed, crossed, restored, newest>> BY <1>1 DEF canisterVars
  <2>2. CanistersOK' /\ Apart' BY <2>1 DEF GovernedInv, CanistersOK, Apart
  <2>3. OnlyMore /\ \A c \in Governed : LeftAlone(c) BY <2>1 DEF GovernedInv, CanistersOK, OnlyMore, LeftAlone
  <2>4. ASSUME NEW p \in Requests, ~ request[p].about \subseteq crossed
        PROVE  (StillHas(request[p]) /\ \A c \in request[p].about \ crossed : Says(request[p], c))'
    <3>1. PICK r : r = request[p] OBVIOUS
    <3>2. RequestOK(r) /\ r.about \subseteq Governed BY <3>1 DEF GovernedInv, CanistersOK, RequestRecord
    <3>3. StillHas(r) /\ \A c \in r.about \ crossed : Says(r, c) BY <2>4, <3>1 DEF GovernedInv
    <3>4. StillHas(r)' BY <2>3, <3>2, <3>3, HoldsStays
    <3>5. \A c \in r.about \ crossed : Says(r, c)' BY <2>3, <3>2, <3>3, SaysStays
    <3> QED BY <2>1, <3>1, <3>4, <3>5
  <2>5. ASSUME NEW c \in Governed \ crossed, About(c) = {} PROVE Says(NoRequest, c)'
    <3>1. Says(NoRequest, c) BY <2>5 DEF GovernedInv
    <3> QED BY <2>3, <3>1, SaysStays
  <2>6. \A c \in Governed \ crossed' : About(c)' = {} => Says(NoRequest, c)' BY <2>1, <2>5 DEF About
  <2>7. \A p \in Requests : ~ request'[p].about \subseteq crossed' =>
          (StillHas(request[p]) /\ \A c \in request[p].about \ crossed : Says(request[p], c))'
    BY <2>1, <2>4
  <2> QED BY <2>2, <2>6, <2>7 DEF GovernedInv
<1>2. CASE CanistersNext
  <2>1. PICK q \in Requests :
          \/ BeginUpgrade(q) \/ BeginSnapshot(q) \/ BeginRestore(q)
          \/ TakeShot(q) \/ InstallBuild(q) \/ CheckBuild(q) \/ LoadShot(q) \/ DropShot(q)
          \/ SnapshotTaken(q) \/ SnapshotRestored(q) \/ ListShots(q) \/ PruneShot(q)
          \/ RequestFails(q)
    BY <1>2 DEF CanistersNext
  <2>2. CASE BeginUpgrade(q) \/ BeginSnapshot(q) \/ BeginRestore(q) BY <2>2, BeginUpgradeKeeps, BeginSnapshotKeeps, BeginRestoreKeeps
  <2>3. CASE TakeShot(q) \/ InstallBuild(q) \/ CheckBuild(q) \/ LoadShot(q) \/ DropShot(q)
    BY <2>3, TakeShotKeeps, InstallBuildKeeps, CheckBuildKeeps, LoadShotKeeps, DropShotKeeps
  <2>4. CASE SnapshotTaken(q) \/ SnapshotRestored(q) \/ ListShots(q) \/ PruneShot(q) \/ RequestFails(q)
    BY <2>4, SnapshotTakenKeeps, SnapshotRestoredKeeps, ListShotsKeeps, PruneShotKeeps, RequestFailsKeeps
  <2> QED BY <2>1, <2>2, <2>3, <2>4
<1> QED BY <1>1, <1>2

LEMMA GovernedBegins == CanistersInit => GovernedInv
<1> SUFFICES ASSUME CanistersInit PROVE GovernedInv OBVIOUS
<1>1. /\ code = [c \in Governed |-> NoRequest.w] /\ hash = code
      /\ shots = [c \in Governed |-> <<>>] /\ taken = 0 /\ labels = [c \in Governed |-> {}]
      /\ request = [q \in Requests |-> NoRequest] /\ failed = 0
      /\ crossed = {} /\ restored = {} /\ newest = [c \in Governed |-> 0]
  BY DEF CanistersInit
<1>2. NoRequest \in RequestRecord /\ RequestOK(NoRequest) /\ NoRequest.about = {} /\ NoRequest.at = "idle" /\ NoRequest.w \in Wasms
  BY NoRequestOK DEF Wasms
<1>3. <<>> \in Seq(ShotRecord) /\ DOMAIN <<>> = {} /\ Len(<<>>) = 0 OBVIOUS
<1>4. ShotsOK(<<>>, 0) BY <1>3 DEF ShotsOK
<1>5. CanistersOK
  <2>1. code \in [Governed -> Wasms] /\ hash \in [Governed -> Wasms] BY <1>1, <1>2
  <2>2. DOMAIN shots = Governed /\ taken \in Nat /\ \A c \in Governed : ShotsOK(shots[c], taken) BY <1>1, <1>4
  <2>3. labels \in [Governed -> SUBSET Nat] /\ newest \in [Governed -> Nat] BY <1>1
  <2>4. request \in [Requests -> RequestRecord] /\ \A q \in Requests : RequestOK(request[q]) BY <1>1, <1>2
  <2> QED BY <1>1, <2>1, <2>2, <2>3, <2>4 DEF CanistersOK
<1>6. \A q \in Requests : request[q].about = {} BY <1>1, <1>2
<1>7. ASSUME NEW c \in Governed PROVE Says(NoRequest, c)
  <2>1. ToldRight(c) BY <1>1 DEF ToldRight
  <2>2. Known(c)
    <3>1. shots[c] = <<>> /\ labels[c] = {} /\ newest[c] = 0 BY <1>1
    <3>2. IdsOf(c) = {} BY <1>3, <3>1 DEF IdsOf
    <3>3. Len(shots[c]) <= Keep BY <1>3, <3>1, GovernedAssumption
    <3> QED BY <3>1, <3>2, <3>3 DEF Known
  <2>3. RowSays(NoRequest, c) BY <1>2, <2>1 DEF RowSays
  <2>4. ShotsSay(NoRequest, c) BY <1>2, <2>2 DEF ShotsSay
  <2> QED BY <2>3, <2>4 DEF Says
<1> QED BY <1>5, <1>6, <1>7 DEF GovernedInv, Apart

\* What the invariant says of the rows.
LEMMA GovernedInvRows == GovernedInv => RowsAreTrue
<1> SUFFICES ASSUME GovernedInv PROVE RowsAreTrue OBVIOUS
<1>1. ASSUME NEW c \in Governed, Settled(c) PROVE Says(NoRequest, c) BY <1>1 DEF GovernedInv, Settled
<1>2. NoRequest.at = "idle" BY NoRequestOK
<1>3. RowsTellTheCode
  <2> SUFFICES ASSUME NEW c \in Governed, Settled(c), c \notin restored, failed <= 1 PROVE hash[c] = code[c]
    BY DEF RowsTellTheCode
  <2>1. RowSays(NoRequest, c) BY <1>1 DEF Says
  <2> QED BY <1>2, <2>1 DEF RowSays, ToldRight
<1>4. SnapshotsAreKnown
  <2> SUFFICES ASSUME NEW c \in Governed, Settled(c), failed = 0
               PROVE  /\ Len(shots[c]) <= Keep /\ labels[c] = {s.id : s \in ToSet(shots[c])}
                      /\ newest[c] # 0 => newest[c] \in labels[c]
    BY DEF SnapshotsAreKnown
  <2>1. ShotsSay(NoRequest, c) BY <1>1 DEF Says
  <2>2. Known(c) BY <1>2, <2>1 DEF ShotsSay
  <2>3. {s.id : s \in ToSet(shots[c])} = IdsOf(c) BY DEF ToSet, IdsOf
  <2> QED BY <2>2, <2>3 DEF Known
<1> QED BY <1>3, <1>4 DEF RowsAreTrue

\* However its calls fail, what an operation leaves of a canister once it is over is what
\* the row says of it: the module it runs, unless the way back failed as well, and, when
\* nothing failed, the snapshots it has, no more than are kept and the last that was taken
\* among them (canister_upgrade and its siblings of src/canisters.py, keep_newest of
\* src/snapshots.py).
THEOREM RowsStayTrue == CanistersSpec => []RowsAreTrue
<1>1. CanistersInit => GovernedInv BY GovernedBegins
<1>2. GovernedInv /\ [CanistersNext]_canisterVars => GovernedInv' BY GovernedKept
<1> QED BY <1>1, <1>2, GovernedInvRows, PTL DEF CanistersSpec
=============================================================================
