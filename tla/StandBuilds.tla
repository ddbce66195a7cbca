----------------------------- MODULE StandBuilds -----------------------------
(***************************************************************************)
(* What the conductor builds (src/stands.py, src/up.py, provision and      *)
(* hand_off of src/canisters.py): a stand's canisters are created,         *)
(* installed, filled with their content, configured and handed over, one   *)
(* round after the other.  The `stand` job builds one stand, the `up` job  *)
(* the stands of a sheet: first the canisters of all, then each stand.     *)
(*                                                                         *)
(* A round waits at every call; in between people create, grow, rename and *)
(* retry stands, and the conductor may be upgraded.  A row is one object:  *)
(* a round that holds it across a call sees what others wrote.             *)
(*                                                                         *)
(* A canister is found by its name, which its template row derives from    *)
(* the stand's name at the time of the build.  A rename leaves the rows    *)
(* that are there, the members asked for and the queued job with the old   *)
(* name.                                                                   *)
(***************************************************************************)
EXTENDS Rounds, FiniteSetsExt

CONSTANTS
  Stands,        \* 1..n: the stands' rows, in the order of their ids
  Canisters,     \* 1..n: the rows there may be, one for each template row and name of its stand
  StandOf,       \* Canisters -> the stand
  RowOf,         \* Canisters -> the template row
  NameOf,        \* Canisters -> the stand's name that the canister's derives from
  Optional,      \* canisters a stand gets only when asked for
  HandedAway,    \* canisters whose controllers do not keep the conductor
  Sheet,         \* stands `casals up` brings
  Files,         \* Canisters -> rounds its content takes
  MaxRetries,    \* bound: builds asked for
  MaxChanges     \* bound: stands renamed and upgrades of the conductor

ASSUME RowsAssumption ==
  /\ Stands \subseteq Nat \ {0} /\ Canisters \subseteq Nat \ {0} /\ IsFiniteSet(Stands) /\ IsFiniteSet(Canisters)
  /\ StandOf \in [Canisters -> Stands] /\ Optional \subseteq Canisters /\ Sheet \subseteq Stands
  /\ Files \in [Canisters -> Nat]
  /\ MaxRetries \in Nat /\ MaxChanges \in Nat

\* A template row gives a canister under every name its stand may have.
ASSUME TemplateAssumption ==
  /\ NameOf \in [Canisters -> 0..MaxChanges]
  /\ \A c, d \in Canisters : RowOf[c] = RowOf[d] => StandOf[c] = StandOf[d] /\ (c \in Optional <=> d \in Optional)
  /\ \A c \in Canisters, n \in 0..MaxChanges : \E d \in Canisters : RowOf[d] = RowOf[c] /\ NameOf[d] = n

VARIABLES
  stand,     \* Stands -> its row
  canister,  \* Canisters -> its row
  made,      \* Canisters -> how many were created on the IC for its row
  filled,    \* <<c, i>>: the i-th of them has code
  handed,    \* <<c, i>>: it is not the conductor's any more
  files,     \* Canisters -> rounds its content still takes
  up,        \* the orchestra: "new", "called" (it has a deployer) or "built"
  cursor,    \* are the sheet's grants still to be resolved?
  build,     \* Slots -> where the round in it waits
  grown,     \* history: stands that were asked for more under their build
  haunted,   \* history: stands a round worked on after it was given up
  astray,    \* history: stands renamed before they were built, and not scheduled since
  left,      \* history: members asked for that had no row when their stand was renamed
  retries, changes

chain == <<made, filled, handed, files>>
counts == <<retries, changes>>
history == <<grown, haunted, astray, left>>
vars == <<roundVars, stand, canister, chain, up, cursor, build, history, counts>>

Stand == [state : {"absent", "pending", "failed", "built"}, name : 0..MaxChanges, members : SUBSET Canisters]
Canister == [status : {"absent", "created", "installed", "ready"}, id : Nat, hash : BOOLEAN]
Position == [at : {"commit", "create", "install", "status", "settings", "sync", "config", "controllers", "share"},
             s : Stands \cup {0}, c : Canisters \cup {0}]

StandJob(s) == <<"stand", s, stand[s].name>>
UpJob == <<"up", 0, 0>>
ASSUME JobsAssumption ==
  /\ UpJob \in Jobs
  /\ \A s \in Stands, n \in 0..MaxChanges : <<"stand", s, n>> \in Jobs
Pending == {s \in Stands : stand[s].state = "pending"}
Unbuilt == {s \in Stands : stand[s].state \in {"pending", "failed"}}
OnIC(c) == <<c, canister[c].id>>
Own(s) == {c \in Canisters : StandOf[c] = s}
There(c) == canister[c].status # "absent"
With(s, status) == {c \in Canisters : StandOf[c] = s /\ canister'[c].status = status}

TypeOK ==
  /\ RoundsTypeOK
  /\ stand \in [Stands -> Stand] /\ canister \in [Canisters -> Canister]
  /\ filled \cup handed \subseteq Canisters \X Nat /\ made \in [Canisters -> Nat] /\ files \in [Canisters -> Nat]
  /\ up \in {"new", "called", "built"} /\ cursor \in BOOLEAN
  /\ build \in [Slots -> Position] /\ grown \cup haunted \cup astray \subseteq Stands /\ left \subseteq Canisters
  /\ retries \in 0..MaxRetries /\ changes \in 0..MaxChanges

Start == [at |-> "commit", s |-> 0, c |-> 0]
Init ==
  /\ RoundsInit
  /\ stand = [s \in Stands |-> [state |-> "absent", name |-> 0, members |-> {}]]
  /\ canister = [c \in Canisters |-> [status |-> "absent", id |-> 0, hash |-> FALSE]]
  /\ made = [c \in Canisters |-> 0] /\ filled = {} /\ handed = {} /\ files = Files
  /\ up = "new" /\ cursor = FALSE
  /\ build = [r \in Slots |-> Start]
  /\ grown = {} /\ haunted = {} /\ astray = {} /\ left = {} /\ retries = 0 /\ changes = 0
-----------------------------------------------------------------------------
(* Failing *)

\* The stand `fail` of job j marks: the one of that name, if there still is one;
\* for `up`, the first that is pending.
Blamed(rows, j) ==
  IF j = UpJob
  THEN LET pending == {s \in Stands : rows[s].state = "pending"} IN IF pending = {} THEN {} ELSE {Min(pending)}
  ELSE {s \in Stands : rows[s].state # "absent" /\ j = <<"stand", s, rows[s].name>>}
Fail(rows, S) == [s \in Stands |-> IF s \in S THEN [rows[s] EXCEPT !.state = "failed"] ELSE rows[s]]
GiveUp(rows, S) == Fail(rows, UNION {Blamed(rows, round[r].job) : r \in S})

\* The stands' rows after the kick every update call begins with.
Kicked == GiveUp(stand, GivenUp)

\* The round is over, and kicks.
Returns(r, rows, finished) ==
  /\ RoundEnds(r, finished)
  /\ stand' = GiveUp(rows, GivenUp \ {r})
  /\ UNCHANGED build

\* An exception: `fail`, which itself raises when the job's stand is not found.
Raises(r) ==
  \/ /\ round[r].job # UpJob => Blamed(stand, round[r].job) # {}
     /\ Returns(r, Fail(stand, Blamed(stand, round[r].job)), TRUE)
  \/ /\ round[r].job # UpJob /\ Blamed(stand, round[r].job) = {}
     /\ RoundTraps(r) /\ UNCHANGED <<stand, build>>
-----------------------------------------------------------------------------
(* The rounds *)

WaitsAt(r, at) == round[r].alive /\ build[r].at = at
Wait(r, at, s, c) ==
  build' = [build EXCEPT ![r] = [at |-> at, s |-> s, c |-> c]] /\ UNCHANGED <<roundVars, stand>>

\* provision: a canister is created unless its id is known.
Provision(r, s, c) == Wait(r, IF canister[c].id = 0 THEN "create" ELSE "install", s, c)

\* members: the template's rows under the stand's name; the optional ones that were
\* asked for under that name.
Members(s) == {c \in Own(s) : NameOf[c] = stand[s].name /\ (c \in Optional => c \in stand[s].members)}

\* member_row, for the members that have no row yet.
AddRows(s) ==
  canister' = [c \in Canisters |-> IF c \in Members(s) /\ ~There(c)
                                   THEN [canister[c] EXCEPT !.status = "created"] ELSE canister[c]]

\* Mutant: the stand is built once one canister is handed over.
HandOverOne(r, s) ==
  IF With(s, "installed") # {} /\ build[r].at # "controllers" THEN Wait(r, "config", s, Min(With(s, "installed")))
  ELSE Returns(r, [stand EXCEPT ![s].state = "built"], round[r].job # UpJob)

\* The last part of build: the next canister is handed over, or none is left.
HandOver(r, s) ==
  IF With(s, "installed") # {} THEN Wait(r, "config", s, Min(With(s, "installed")))
  ELSE Returns(r, [stand EXCEPT ![s].state = "built"], round[r].job # UpJob)

\* build: at most one canister is provisioned in a round, then the files, then
\* the hand-over.
Build(r, s) ==
  LET unsynced == {c \in With(s, "installed") : Files[c] > 0}
  IN IF With(s, "created") # {} THEN Provision(r, s, Min(With(s, "created")))
     ELSE IF unsynced # {} THEN Wait(r, "sync", s, Min(unsynced))
     ELSE HandOver(r, s)

BeginStand(r) ==
  /\ WaitsAt(r, "commit") /\ round[r].job # UpJob
  /\ \/ Blamed(stand, round[r].job) = {} /\ Raises(r) /\ UNCHANGED canister
     \/ \E s \in Blamed(stand, round[r].job) : AddRows(s) /\ Build(r, s)
  /\ UNCHANGED <<faults, chain, up, cursor, counts>>

\* unprovisioned: pending stands with a canister that is not on the chain yet.
Unprovisioned ==
  {s \in Pending : \/ \E c \in Members(s) : ~There(c)
                   \/ \E c \in Own(s) : canister[c].status = "created"}

\* build_all. A failed stand holds up those after it.
BeginUp(r) ==
  /\ WaitsAt(r, "commit") /\ round[r].job = UpJob
  /\ \/ /\ Unbuilt # {} /\ Min(Unbuilt) \notin Pending
        /\ Returns(r, stand, TRUE) /\ UNCHANGED <<canister, cursor>>
     \/ /\ Unbuilt # {} /\ Min(Unbuilt) \in Pending /\ Unprovisioned # {}
        /\ LET s == Min(Unprovisioned) IN AddRows(s) /\ Provision(r, s, Min(With(s, "created")))
        /\ UNCHANGED cursor
     \/ /\ Unbuilt # {} /\ Min(Unbuilt) \in Pending /\ Unprovisioned = {}
        /\ UNCHANGED <<canister, cursor>> /\ Build(r, Min(Unbuilt))
     \/ Unbuilt = {} /\ cursor /\ cursor' = FALSE /\ Returns(r, stand, FALSE) /\ UNCHANGED canister
     \/ Unbuilt = {} /\ ~cursor /\ Wait(r, "share", 0, 0) /\ UNCHANGED <<canister, cursor>>
  /\ UNCHANGED <<faults, chain, up, counts>>

\* What the call a round waits for does, when it is done.
Done(r) ==
  LET at == build[r].at
      c == build[r].c
  IN /\ made' = IF at = "create" THEN [made EXCEPT ![c] = @ + 1] ELSE made
     /\ filled' = IF at = "install" THEN filled \cup {OnIC(c)} ELSE filled
     /\ handed' = IF at = "controllers" /\ c \in HandedAway THEN handed \cup {OnIC(c)} ELSE handed
     /\ files' = IF at = "sync" /\ files[c] > 0 THEN [files EXCEPT ![c] = @ - 1] ELSE files

\* Not the conductor's any more; or "install" where there is code already: only a
\* canister whose hash is known is reinstalled.
Refused(r) ==
  LET at == build[r].at
      c == build[r].c
  IN \/ at \in {"install", "status", "settings", "sync", "controllers"} /\ OnIC(c) \in handed
     \/ at = "install" /\ OnIC(c) \in filled /\ ~canister[c].hash

Answers(r, at) == WaitsAt(r, at) /\ ~Refused(r) /\ Done(r) /\ UNCHANGED <<counts, faults>>

CreateCanister(r) ==
  /\ Answers(r, "create")
  /\ canister' = [canister EXCEPT ![build[r].c].id = made'[build[r].c]]
  /\ Wait(r, "install", build[r].s, build[r].c)
  /\ UNCHANGED <<up, cursor>>

\* install: the code, and then the module's hash, which is recorded once read.
InstallCode(r) ==
  /\ Answers(r, "install")
  /\ Wait(r, "status", build[r].s, build[r].c)
  /\ UNCHANGED <<canister, up, cursor>>

CheckHash(r) ==
  /\ Answers(r, "status")
  /\ canister' = [canister EXCEPT ![build[r].c].hash = TRUE]
  /\ Wait(r, "settings", build[r].s, build[r].c)
  /\ UNCHANGED <<up, cursor>>

\* The end of provision ends the round: it was one canister's.
ShareViewers(r) ==
  /\ Answers(r, "settings")
  /\ canister' = [canister EXCEPT ![build[r].c].status = "installed"]
  /\ Returns(r, stand, FALSE)
  /\ UNCHANGED <<up, cursor>>

\* sync writes a batch; the round goes on with the next canister's once none is left.
SyncFiles(r) ==
  /\ Answers(r, "sync") /\ UNCHANGED <<canister, up, cursor>>
  /\ LET s == build[r].s
         rest == {c \in With(s, "installed") : c > build[r].c /\ Files[c] > 0}
     IN IF files'[build[r].c] > 0 THEN Returns(r, stand, FALSE)
        ELSE IF rest # {} THEN Wait(r, "sync", s, Min(rest)) ELSE HandOver(r, s)

\* hand_off: a canister's configuration, then its controllers.
Configure(r) ==
  /\ Answers(r, "config")
  /\ Wait(r, "controllers", build[r].s, build[r].c)
  /\ UNCHANGED <<canister, up, cursor>>

HandOff(r) ==
  /\ Answers(r, "controllers")
  /\ canister' = [canister EXCEPT ![build[r].c].status = "ready"]
  /\ HandOver(r, build[r].s)
  /\ UNCHANGED <<up, cursor>>

\* share_status collects the canisters it cannot change, and `up` is over.
ShareStatus(r) ==
  /\ Answers(r, "share")
  /\ up' = "built" /\ Returns(r, stand, TRUE)
  /\ UNCHANGED <<canister, cursor>>

\* build_all blames the canister's stand for what provision raises.
ProvisionFailed(r) == Returns(r, Fail(stand, {build[r].s}), TRUE)

\* A call answers an error, though what it asked for may be done.
CallFails(r) ==
  /\ round[r].alive /\ build[r].at \notin {"commit", "share"}
  /\ \/ Refused(r) /\ UNCHANGED <<chain, faults>>
     \/ ~Refused(r) /\ Fault /\ (Done(r) \/ UNCHANGED chain)
  /\ IF round[r].job = UpJob /\ build[r].at \in {"create", "install", "status", "settings"}
     THEN ProvisionFailed(r) ELSE Raises(r)
  /\ UNCHANGED <<canister, up, cursor, counts>>

\* A round traps, or its call never answers.
LoseRound(r) ==
  /\ RoundDies(r)
  /\ \/ build[r].at \notin {"commit", "share"} /\ ~Refused(r) /\ Done(r)
     \/ UNCHANGED chain
  /\ UNCHANGED <<stand, canister, up, cursor, build, history, counts>>
-----------------------------------------------------------------------------
(* Timers *)

Tick1 ==
  /\ LET r == CHOOSE s \in Slots : Vacant(s)
     IN Tick(r) /\ build' = [build EXCEPT ![r] = Start]
  /\ UNCHANGED <<stand, canister, chain, up, cursor, history, counts>>

Quiet == UNCHANGED <<stand, canister, chain, up, cursor, build, history, counts>>
Spare == SpareTick /\ Quiet
Late(r) == OutlastWatchdog(r) /\ Quiet
Stale == TimerStale /\ Quiet
Unwatched(r) == DropWatchdog(r) /\ Quiet

\* What `fail` raises is swallowed here: the queue goes on.
WatchdogFires(r) ==
  /\ Watchdog(r) /\ stand' = Kicked
  /\ UNCHANGED <<canister, chain, up, cursor, build, history, counts>>
-----------------------------------------------------------------------------
(* Update calls *)

Asked == retries < MaxRetries /\ retries' = retries + 1 /\ UNCHANGED changes
Held(s) == \E r \in Alive : build[r].at # "commit" /\ build[r].s = s
Calls(j, rows) == Call(j) /\ stand' = rows /\ UNCHANGED <<canister, chain, build>>

\* Any update call.
AnyCall == Calls(None, Kicked) /\ UNCHANGED <<up, cursor, history, counts>>

\* orchestra_up, on a sheet whose stands are there or not; failed builds start again.
OrchestraUp ==
  /\ up # "built" /\ up' = "called" /\ cursor' = TRUE /\ Asked
  /\ Calls(UpJob, [s \in Stands |->
       IF Kicked[s].state = "failed" \/ (Kicked[s].state = "absent" /\ s \in Sheet)
       THEN [Kicked[s] EXCEPT !.state = "pending"] ELSE Kicked[s]])
  /\ UNCHANGED history

\* What may be asked for: the optional rows under the stand's name.
Growth(s) == {c \in Own(s) \cap Optional : NameOf[c] = stand[s].name}

\* grow: the members are recorded, and what is missing is to be built.
Grow(s, more) ==
  /\ Calls(StandJob(s), [Kicked EXCEPT ![s].state = "pending", ![s].members = @ \cup more])
  /\ grown' = IF Held(s) /\ (\E c \in Members(s) \cup more : ~There(c)) THEN grown \cup {s} ELSE grown
  /\ astray' = astray \ {s}
  /\ UNCHANGED <<haunted, left>>

\* stand_create, also of a stand that is there: grow builds it again if it failed.
StandCreate(s) ==
  /\ stand[s].state = "absent" => s \notin Sheet
  /\ Kicked[s].state \in {"absent", "failed"} /\ Asked
  /\ \E more \in SUBSET Growth(s) : Grow(s, more)
  /\ UNCHANGED <<up, cursor>>

\* stand_grow, by a member the stand does not have.
StandGrow(s) ==
  /\ stand[s].state # "absent" /\ Asked
  /\ \E c \in Growth(s) \ stand[s].members : Grow(s, {c})
  /\ UNCHANGED <<up, cursor>>

\* stand_set with a name no stand had.  A queued or running build keeps the old one.
StandRename(s) ==
  /\ stand[s].state # "absent"
  /\ changes < MaxChanges /\ changes' = changes + 1
  /\ Calls(None, [Kicked EXCEPT ![s].name = @ + 1])
  /\ astray' = IF Kicked[s].state = "built" THEN astray ELSE astray \cup {s}
  /\ left' = left \cup {c \in stand[s].members : ~There(c)}
  /\ UNCHANGED <<up, cursor, grown, haunted, retries>>

\* Mutant: after an upgrade only the sheet is taken up again.
PendingJobsUpOnly == IF up = "called" THEN <<UpJob>> ELSE <<>>

\* resume: unbuilt and up_pending.
PendingJobs ==
  SetToSeq({StandJob(s) : s \in Pending}) \o (IF up = "called" THEN <<UpJob>> ELSE <<>>)

UpgradeConductor ==
  /\ changes < MaxChanges /\ changes' = changes + 1
  /\ Upgrade(PendingJobs)
  /\ \/ UNCHANGED chain
     \/ \E r \in Alive : build[r].at \notin {"commit", "share"} /\ ~Refused(r) /\ Done(r)
  /\ astray' = {}
  /\ UNCHANGED <<stand, canister, up, cursor, build, grown, haunted, left, retries>>

Advance(r) ==
  \/ BeginStand(r) \/ BeginUp(r) \/ CreateCanister(r) \/ InstallCode(r) \/ CheckHash(r) \/ ShareViewers(r)
  \/ SyncFiles(r) \/ Configure(r) \/ HandOff(r) \/ ShareStatus(r) \/ CallFails(r)
RoundGoesOn(r) ==
  /\ Advance(r)
  /\ haunted' = haunted \cup (IF round[r].running THEN {}
                             ELSE IF build[r].at = "share" THEN Stands ELSE {build[r].s, build'[r].s} \ {0})
  /\ UNCHANGED <<grown, astray, left>>

Next ==
  \/ Tick1 \/ Spare \/ Stale
  \/ \E r \in Slots : RoundGoesOn(r) \/ LoseRound(r) \/ WatchdogFires(r) \/ Late(r) \/ Unwatched(r)
  \/ AnyCall \/ OrchestraUp
  \/ \E s \in Stands : StandCreate(s) \/ StandGrow(s) \/ StandRename(s)
  \/ UpgradeConductor

Spec == Init /\ [][Next]_vars

\* Timers fire unless the IC drops them, calls answer unless the round is lost,
\* and somebody calls the conductor now and then.
FairSpec ==
  /\ Spec
  /\ WF_vars(Tick1) /\ WF_vars(AnyCall)
  /\ \A r \in Slots : WF_vars(RoundGoesOn(r)) /\ WF_vars(~round[r].alive /\ Late(r))
-----------------------------------------------------------------------------
(* Properties *)

Finished(c) ==
  /\ canister[c].status = "ready" /\ OnIC(c) \in filled /\ files[c] = 0
  /\ c \in HandedAway => OnIC(c) \in handed

\* Every row is finished, every template row a stand always gets has one, and so has
\* every member asked for, but for those that had none when the stand was renamed.
Whole(s) ==
  /\ \A c \in Own(s) : There(c) => Finished(c)
  /\ \A c \in Own(s) \ Optional : \E d \in Own(s) : RowOf[d] = RowOf[c] /\ There(d)
  /\ \A c \in stand[s].members \ left : There(c)
Working(j) == Waiting(j) \/ \E r \in Slots : round[r].running /\ round[r].job = j
Undisturbed(s) == s \notin grown \cup haunted

\* A stand that shows built is whole: it has what its template gives it and what it was
\* asked for, with code and files, configured and handed over.  A stand asked for more
\* under its build is not judged, nor one that a given-up round came back to; and a member a rename
\* left without a row is one the code forgets (see the README).
BuiltIsWhole == \A s \in Stands : stand[s].state = "built" /\ Undisturbed(s) => Whole(s)

\* No stand is left pending with nothing to build it: its job waits or runs, or
\* the orchestra is not built and `up` may be called again.  Two kinds of stand the code
\* does leave so, and they are excepted: one renamed before it was built, whose job goes
\* by the old name, until somebody asks for the stand or the conductor is upgraded; and
\* one that a given-up round came back to (an `up` may declare the orchestra built over it).
PendingIsCovered == \A s \in Pending \ (haunted \cup astray) : Working(StandJob(s)) \/ up = "called"

\* "Calling create_stand on the stand again clears it and retries": a canister the
\* conductor still controls does not refuse the install of the next attempt.
FailedIsRetryable ==
  \A r \in Alive : build[r].at = "install" /\ OnIC(build[r].c) \notin handed => ~Refused(r)

\* Once the orchestra is built, a stand that is to be built is built or has failed,
\* unless it is renamed before, or a given-up round comes back to it.
BuildsSettle ==
  \A s \in Stands : (stand[s].state = "pending" /\ up = "built")
                    ~> (stand[s].state # "pending" \/ s \in astray \cup haunted)
=============================================================================
