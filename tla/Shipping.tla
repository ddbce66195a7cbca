------------------------------ MODULE Shipping -------------------------------
(***************************************************************************)
(* `casals upgrade' (casals_cli/upgrade.py, release.py, multisig.py and    *)
(* ic.py's `call_update'): a process on the operator's machine that ships  *)
(* a module, a stand release or a bundle to canisters that exist, through  *)
(* whoever controls them.                                                  *)
(*                                                                         *)
(* A call that ends in a transient error may have been carried out, may be *)
(* carried out later or never, and is made again.  What the conductor, the *)
(* committee and the baton do with a call is an outcome here; how they     *)
(* come to it is in the modules about them.                                *)
(***************************************************************************)
EXTENDS Naturals, Sequences, SequencesExt, Ordered

CONSTANTS
  Fleet,              \* canisters of one stand that run the family, in the order of the run
  Keepers,            \* who may control them: functions to "conductor", "committee", "baton"
  TRANSIENT_ATTEMPTS,
  MaxShips,           \* bound: times the command is run
  MaxBlips,           \* bound: transient errors, commands that end on an error, actions brought back,
                      \* deploys of another operator
  MaxActs             \* bound: actions of the baton, and proposals of the committee

Ship == ToSet(Fleet)

ASSUME KeepersAssumption == Keepers \subseteq [Ship -> {"conductor", "committee", "baton"}]
ASSUME FleetAssumption == Fleet \in Seq(Ship)
ASSUME AttemptsAssumption == TRANSIENT_ATTEMPTS \in Nat \ {0}

VARIABLES
  keeper,    \* who controls each canister
  afloat,    \* what the IC holds: see ShippingInit
  ship,      \* the running command
  under,     \* calls given up that may be carried out yet
  reports,   \* the rows the last command printed
  asked,     \* proposals the command meant to file (history)
  shipped, blips

shipVars == <<keeper, afloat, ship, under, reports, asked, shipped, blips>>

\* The statuses a release can end with (baton/src/release.py).
ReleaseEnds ==
  {"COMPLETE", "ROLLED_BACK", "NEEDS_ATTENTION", "ABORTED", "FAILED_STAGING", "REJECTED", "REJECTED_PREFLIGHT", "EXPIRED"}

\* Mutant: a wait that does not know that an action expires.
TERMINALWithoutExpired == ReleaseEnds \ {"EXPIRED"}

TERMINAL ==
  {"COMPLETE", "ROLLED_BACK", "NEEDS_ATTENTION", "ABORTED", "FAILED_STAGING", "REJECTED", "REJECTED_PREFLIGHT", "EXPIRED"}

NoShip == [at |-> "idle"]
NoReport == [result |-> "none"]

ShippingInit ==
  /\ keeper \in Keepers
  /\ afloat = [build |-> [c \in Ship |-> "old"],
               ran |-> {},            \* canisters that ran the new module at some time (history)
               catalog |-> FALSE,     \* the module is authorized
               proposals |-> <<>>,    \* the committee's, of this module
               acts |-> <<>>,         \* the baton's actions
               deploy |-> "none",     \* what the conductor remembers of the frontend's deploy,
               whose |-> "ours",      \* whose bundle that is,
               served |-> FALSE,      \* whether one of ours was carried out (history),
               theirs |-> FALSE,      \* another operator's content_deploy is under way,
               crossed |-> FALSE]     \* and one was while a command waited for its own (history)
  /\ ship = NoShip /\ under = {}
  /\ reports = [c \in Ship |-> NoReport] /\ asked = 0
  /\ shipped = 0 /\ blips = 0
-----------------------------------------------------------------------------
(* What comes of a call: what it makes of `afloat', and its answer *)

Done(w) == [afloat |-> w, ok |-> TRUE, n |-> 0]
Fails(w) == [afloat |-> w, ok |-> FALSE, n |-> 0]
NowRunning(w, C) == [w EXCEPT !.build = [c \in Ship |-> IF c \in C THEN "new" ELSE w.build[c]], !.ran = @ \cup C]
BatonBusy == \E i \in DOMAIN afloat.acts : afloat.acts[i].status = "open"

Authorized == {Done([afloat EXCEPT !.catalog = TRUE]), Fails(afloat)}

\* canister_upgrade: done, or rolled back.
Upgraded(c) == {Fails(afloat)} \cup (IF afloat.catalog THEN {Done(NowRunning(afloat, {c}))} ELSE {})

\* propose: one signer's approval may be enough, and then it is over with the call.
Decided(w, c, status) == IF status = "executed" THEN NowRunning(w, {c}) ELSE w
Proposed(c) ==
  {Fails(afloat)} \cup
  (IF Len(afloat.proposals) < MaxActs
   THEN {[afloat |-> Decided([afloat EXCEPT !.proposals = Append(@, [of |-> c, status |-> s])], c, s), ok |-> TRUE,
          n |-> Len(afloat.proposals) + 1] : s \in {"pending", "executed", "failed"}}
   ELSE {})

\* baton_propose_upgrade, baton_propose_release: the baton takes one action at a time;
\* the action may be filed and the vote on it fail.
FiledActs(kind, C) ==
  LET filed == [afloat EXCEPT !.acts = Append(@, [kind |-> kind, of |-> C, status |-> "open", ends |-> {}])]
  IN {Fails(afloat)} \cup
     (IF ~BatonBusy /\ afloat.catalog /\ Len(afloat.acts) < MaxActs
      THEN {Fails(filed), [Done(filed) EXCEPT !.n = Len(filed.acts)]} ELSE {})

\* content_deploy is refused beside a deploy that runs; one that was not is a call of its
\* own here, since the others' deploys may begin and end before it does.
Deploy == [op |-> "deploy"]
Sync == [op |-> "copy"]
Afresh(req) == IF req = Sync THEN Deploy ELSE req

\* One `sync' of the bundle has ended; the rest of a large bundle follows.
Running(w, whose) == [w EXCEPT !.deploy = "running", !.whose = whose]
Deployed(w, whose) == [w EXCEPT !.deploy = "done", !.whose = whose, !.served = @ \/ whose = "ours"]
BundleSynced == {Fails(afloat), Done(Running(afloat, "ours")), Done(Deployed(afloat, "ours"))}

Outcomes(req) ==
  CASE req.op = "authorize" -> Authorized
    [] req.op = "upgrade"   -> Upgraded(req.of)
    [] req.op = "propose"   -> Proposed(req.of)
    [] req.op = "file"      -> FiledActs(req.kind, req.of)
    [] req.op = "deploy"    -> {Fails(afloat)}
    [] req.op = "copy"      -> BundleSynced
    [] OTHER                -> {Done(afloat), Fails(afloat)}   \* baton_sync, baton_release_settle: see BatonSync
-----------------------------------------------------------------------------
(* call_update *)

\* r, and the fields of more that it has not.
Joined(r, more) == [k \in DOMAIN r \cup DOMAIN more |-> IF k \in DOMAIN r THEN r[k] ELSE more[k]]
Sends(at, req, rest) == ship' = Joined([at |-> at, req |-> req, tries |-> 1], rest)
Rest == [k \in DOMAIN ship \ {"at", "req", "tries"} |-> ship[k]]
On(at) == ship.at = at
ShipStep == UNCHANGED <<keeper, under, asked, shipped, blips>>

\* The answer arrives; then(r) is what the command makes of it.
Answered(at, then(_)) ==
  /\ On(at)
  /\ \E r \in Outcomes(ship.req) : afloat' = r.afloat /\ then(r)
  /\ ShipStep

\* A transient error: the call is made again, up to TRANSIENT_ATTEMPTS times.
TriesAgain ==
  /\ "req" \in DOMAIN ship /\ ship.tries < TRANSIENT_ATTEMPTS
  /\ blips < MaxBlips /\ blips' = blips + 1
  /\ under' = under \cup {ship.req}
  /\ ship' = [ship EXCEPT !.tries = @ + 1, !.req = Afresh(@)]
  /\ UNCHANGED <<keeper, afloat, reports, asked, shipped>>

\* Any other error ends the command, as the operator may.
GivesUp ==
  /\ ~On("idle")
  /\ blips < MaxBlips /\ blips' = blips + 1
  /\ under' = under \cup (IF "req" \in DOMAIN ship THEN {ship.req} ELSE {})
  /\ ship' = NoShip
  /\ UNCHANGED <<keeper, afloat, reports, asked, shipped>>

\* A call given up is carried out after all, or never.
CarriedOut ==
  \E req \in under :
    /\ under' = under \ {req}
    /\ \E r \in Outcomes(req) : afloat' = r.afloat
    /\ UNCHANGED <<keeper, ship, reports, asked, shipped, blips>>
-----------------------------------------------------------------------------
(* casals upgrade --wasm *)

ShipBegins == On("idle") /\ shipped < MaxShips /\ shipped' = shipped + 1 /\ reports' = [c \in Ship |-> NoReport]
              /\ UNCHANGED <<keeper, under, asked, blips>>
Authorize == [op |-> "authorize"]

\* The artifact is in the store (see Publishing); the operator may name some canisters.
BeginWasm ==
  /\ ShipBegins /\ UNCHANGED afloat
  /\ \E S \in SUBSET Ship :
       Sends("authorize", Authorize, [todo |-> Having(Fleet, S), batch |-> {}, kind |-> "wasm"])

\* The catalog knows the module, or the command ends.
WasmAuthorized ==
  /\ On("authorize") /\ ship.kind = "wasm"
  /\ Answered("authorize", LAMBDA r : ship' = IF r.ok THEN Joined(Rest, [at |-> "next"]) ELSE NoShip)
  /\ UNCHANGED reports

Reports(c, row) == reports' = [reports EXCEPT ![c] = row]
Turn == Head(ship.todo)
Later(batch) == [at |-> "next", kind |-> "wasm", todo |-> Tail(ship.todo), batch |-> batch]

\* _ship_wasm: by the hash it runs, then by who controls it.
ShipWasm ==
  /\ On("next") /\ ship.todo # <<>>
  /\ \/ /\ afloat.build[Turn] = "new"
        /\ Reports(Turn, [result |-> "skipped"]) /\ ship' = Later(ship.batch) /\ UNCHANGED asked
     \/ /\ afloat.build[Turn] # "new" /\ keeper[Turn] = "conductor"
        /\ Sends("upgrade", [op |-> "upgrade", of |-> Turn], Rest) /\ UNCHANGED <<reports, asked>>
     \/ /\ afloat.build[Turn] # "new" /\ keeper[Turn] = "committee"
        /\ Sends("propose", [op |-> "propose", of |-> Turn], Rest) /\ asked' = asked + 1 /\ UNCHANGED reports
     \/ /\ afloat.build[Turn] # "new" /\ keeper[Turn] = "baton"
        /\ ship' = Later(ship.batch \cup {Turn}) /\ UNCHANGED <<reports, asked>>
  /\ UNCHANGED <<keeper, afloat, under, shipped, blips>>

UpgradeAnswered ==
  Answered("upgrade", LAMBDA r :
    /\ Reports(Turn, [result |-> IF r.ok THEN "upgraded" ELSE "failed"])
    /\ ship' = Later(ship.batch))

\* An error of `propose' is a row, not the end.
ProposeAnswered ==
  Answered("propose", LAMBDA r :
    \/ r.ok /\ ship' = Joined(Rest, [at |-> "decided", n |-> r.n]) /\ UNCHANGED reports
    \/ ~r.ok /\ Reports(Turn, [result |-> "failed"]) /\ ship' = Later(ship.batch))

\* _upgrade_via_multisig: the hash is read again.
CommitteeReport(status, build) ==
  IF status = "executed" /\ build = "new" THEN "upgraded" ELSE IF status = "pending" THEN "pending" ELSE "failed"

ReadDecision ==
  /\ On("decided")
  /\ Reports(Turn, [result |-> CommitteeReport(afloat.proposals[ship.n].status, afloat.build[Turn]),
                    by |-> "committee", n |-> ship.n])
  /\ ship' = Later(ship.batch)
  /\ UNCHANGED afloat /\ ShipStep

\* The stand's members in one action.
ProposeBatch ==
  /\ On("next") /\ ship.todo = <<>>
  /\ \/ ship.batch = {} /\ ship' = NoShip
     \/ ship.batch # {} /\ Sends("batch", [op |-> "file", kind |-> "upgrade", of |-> ship.batch], Rest)
  /\ UNCHANGED <<afloat, reports>> /\ ShipStep

\* _propose: busy is what the baton's refusal says.
BatchAnswered ==
  Answered("batch", LAMBDA r :
    /\ reports' = [c \in Ship |->
         IF c \notin ship.batch THEN reports[c]
         ELSE IF r.ok THEN [result |-> "pending", by |-> "baton", n |-> r.n]
         ELSE [result |-> IF BatonBusy THEN "deferred" ELSE "failed"]]
    /\ ship' = NoShip)
-----------------------------------------------------------------------------
(* casals upgrade --release --wait *)

\* The stand is synced first, and its baton must be recent enough.
BeginRelease == ShipBegins /\ UNCHANGED afloat /\ Sends("sync", [op |-> "sync"], [kind |-> "release"])

SyncAnswered ==
  /\ Answered("sync", LAMBDA r : ship' = Joined(Rest, [at |-> "check"]))
  /\ UNCHANGED reports

\* Nothing is filed when the stand has no baton, or one too old; a dry run asks for a
\* preview and ends.
CheckBaton ==
  /\ On("check")
  /\ ship' = NoShip \/ Sends("authorize", Authorize, Rest)
  /\ UNCHANGED <<afloat, reports>> /\ ShipStep

\* Each module of the release is known, then the action is proposed.
ReleaseAuthorized ==
  /\ On("authorize") /\ ship.kind = "release"
  /\ Answered("authorize", LAMBDA r :
       IF r.ok THEN Sends("file", [op |-> "file", kind |-> "release", of |-> {c \in Ship : keeper[c] = "baton"}], Rest)
       ELSE ship' = NoShip)
  /\ UNCHANGED reports

ReportsStand(row) == reports' = [c \in Ship |-> IF keeper[c] = "baton" THEN row ELSE reports[c]]

ReleaseAnswered ==
  Answered("file", LAMBDA r :
    \/ r.ok /\ ship' = Joined(Rest, [at |-> "poll", n |-> r.n, seen |-> "?"]) /\ UNCHANGED reports
    \/ ~r.ok /\ ReportsStand([result |-> "failed"]) /\ ship' = NoShip)

\* _wait: until it hears an end; what cannot be read is asked again.
Poll ==
  /\ On("poll") /\ ship.seen \notin TERMINAL
  /\ LET status == afloat.acts[ship.n].status
     IN \/ /\ status \notin TERMINAL \ {"COMPLETE"}
           /\ ship' = [ship EXCEPT !.seen = status] /\ UNCHANGED reports
        \/ /\ status \in TERMINAL \ {"COMPLETE"}
           /\ ReportsStand([result |-> "ended", by |-> "baton", n |-> ship.n, status |-> status]) /\ ship' = NoShip
  /\ UNCHANGED afloat /\ ShipStep

\* A release the conductor cannot record is complete all the same.
Settle ==
  /\ On("poll") /\ ship.seen = "COMPLETE"
  /\ Sends("settle", [op |-> "settle"], [kind |-> "release", n |-> ship.n])
  /\ UNCHANGED <<afloat, reports>> /\ ShipStep

SettleAnswered ==
  Answered("settle", LAMBDA r :
    ReportsStand([result |-> "ended", by |-> "baton", n |-> ship.n, status |-> "COMPLETE"]) /\ ship' = NoShip)
-----------------------------------------------------------------------------
(* casals upgrade --content *)

ReportsPage(result) == reports' = [c \in Ship |-> [result |-> result]]
TheirsIsOut(w) == w.theirs \/ (w.deploy = "running" /\ w.whose = "theirs")
BeginContent ==
  /\ ShipBegins /\ Sends("deploy", Deploy, [kind |-> "content"])
  /\ afloat' = [afloat EXCEPT !.crossed = @ \/ TheirsIsOut(afloat)]

\* content_deploy finds no deploy running, whether the command still waits for it or not.
NoneRuns ==
  /\ afloat.deploy # "running"
  /\ \/ On("deploy") /\ ship.req = Deploy /\ ship' = [ship EXCEPT !.req = Sync] /\ UNCHANGED under
     \/ Deploy \in under /\ under' = (under \ {Deploy}) \cup {Sync} /\ UNCHANGED ship
  /\ UNCHANGED <<keeper, afloat, reports, asked, shipped, blips>>

DeployAnswered ==
  Answered("deploy", LAMBDA r :
    \/ r.ok /\ r.afloat.deploy = "running" /\ ship' = [at |-> "status"] /\ UNCHANGED reports
    \/ r.ok /\ r.afloat.deploy = "done" /\ ReportsPage("synced") /\ ship' = NoShip
    \/ ~r.ok /\ ReportsPage("failed") /\ ship' = NoShip)

\* content_status; a deploy the conductor has forgotten ends the command.
ReadDeploy ==
  /\ On("status") /\ afloat.deploy # "running"
  /\ \/ afloat.deploy = "none" /\ UNCHANGED reports
     \/ afloat.deploy = "done" /\ ReportsPage("synced")
     \/ afloat.deploy = "failed" /\ ReportsPage("failed")
  /\ ship' = NoShip
  /\ UNCHANGED afloat /\ ShipStep
-----------------------------------------------------------------------------
(* The others *)

Meanwhile == UNCHANGED <<keeper, ship, under, reports, asked, shipped, blips>>

\* How an action may end.  No command reads the end of one that is no release, so there two
\* stand for all: done, and not.
EndsOf(kind) == IF kind = "release" THEN ReleaseEnds ELSE {"COMPLETE", "REJECTED"}

\* The baton's actions end (BatonActions, StandRelease, BatonPhases).
ActEnds(i) ==
  /\ afloat.acts[i].status = "open"
  /\ \E status \in EndsOf(afloat.acts[i].kind) :
       LET ended == [afloat EXCEPT !.acts[i].status = status, !.acts[i].ends = @ \cup {status}]
       IN afloat' = IF status = "COMPLETE" THEN NowRunning(ended, afloat.acts[i].of) ELSE ended
  /\ Meanwhile

\* An end need not be the last: the first phase of a release that has EXPIRED meanwhile, or
\* any phase whose claim has gone stale, saves its copy of the action over it.  (Of
\* a release only: see EndsOf.)
ActReturns(i) ==
  /\ afloat.acts[i].kind = "release" /\ afloat.acts[i].status \notin {"open", "REJECTED"}
  /\ blips < MaxBlips /\ blips' = blips + 1
  /\ afloat' = [afloat EXCEPT !.acts[i].status = "open"]
  /\ UNCHANGED <<keeper, ship, under, reports, asked, shipped>>

\* A signer's vote decides a proposal (Multisig).
ProposalDecided(i) ==
  /\ afloat.proposals[i].status = "pending"
  /\ \E status \in {"executed", "failed", "rejected", "expired"} :
       afloat' = Decided([afloat EXCEPT !.proposals[i].status = status], afloat.proposals[i].of, status)
  /\ Meanwhile

\* The rounds of a deploy end (ContentDeploys), or an upgrade of the conductor forgets it.
DeployEnds ==
  /\ afloat.deploy = "running"
  /\ \/ afloat' = Deployed(afloat, afloat.whose)
     \/ \E state \in {"failed", "none"} : afloat' = [afloat EXCEPT !.deploy = state]
  /\ Meanwhile

\* Another operator deploys other content to the canister: deploys are kept by canister, so
\* its record is the one the command reads.
OthersDeploy ==
  /\ ~afloat.theirs /\ afloat.deploy # "running"
  /\ blips < MaxBlips /\ blips' = blips + 1
  /\ afloat' = [afloat EXCEPT !.theirs = TRUE, !.crossed = @ \/ ship.at \in {"deploy", "status"}]
  /\ UNCHANGED <<keeper, ship, under, reports, asked, shipped>>
OthersDeployed ==
  /\ afloat.theirs
  /\ LET over == [afloat EXCEPT !.theirs = FALSE] IN afloat' \in {over, Running(over, "theirs"), Deployed(over, "theirs")}
  /\ Meanwhile

\* Somebody else's proposal, from the dashboard.
OthersFile ==
  /\ ~BatonBusy /\ Len(afloat.acts) < MaxActs
  /\ afloat' = [afloat EXCEPT !.acts = Append(@, [kind |-> "other", of |-> {}, status |-> "open", ends |-> {}])]
  /\ Meanwhile

ShippingNext ==
  \/ BeginWasm \/ WasmAuthorized \/ ShipWasm \/ UpgradeAnswered \/ ProposeAnswered \/ ReadDecision
  \/ ProposeBatch \/ BatchAnswered
  \/ BeginRelease \/ SyncAnswered \/ CheckBaton \/ ReleaseAuthorized \/ ReleaseAnswered \/ Poll \/ Settle \/ SettleAnswered
  \/ BeginContent \/ NoneRuns \/ DeployAnswered \/ ReadDeploy
  \/ TriesAgain \/ GivesUp \/ CarriedOut
  \/ DeployEnds \/ OthersFile \/ OthersDeploy \/ OthersDeployed
  \/ \E i \in DOMAIN afloat.acts : ActEnds(i) \/ ActReturns(i)
  \/ \E i \in DOMAIN afloat.proposals : ProposalDecided(i)
-----------------------------------------------------------------------------
(* Properties *)

\* Whatever is retried, carried out late or done by others meanwhile, the rows tell the
\* truth: what is reported upgraded or skipped did run the module, what is pending waits
\* for a proposal that is about it, a release is reported with an end it had, a page that
\* is reported synced had the bundle deployed to it, and a wait that heard of an end does
\* not go on.  The end need not be the last: a release reported `expired' may complete
\* (ActReturns).  And nothing is said of a page that another operator deployed to while the
\* command waited: its row may tell of the other's deploy.
RowIsTrue(c) ==
  LET row == reports[c]
  IN /\ row.result \in {"upgraded", "skipped"} => c \in afloat.ran
     /\ row.result = "pending" /\ row.by = "baton" => c \in afloat.acts[row.n].of
     /\ row.result = "pending" /\ row.by = "committee" => afloat.proposals[row.n].of = c
     /\ row.result = "ended" => row.status \in afloat.acts[row.n].ends
     /\ row.result = "synced" => afloat.served \/ afloat.crossed
ReportsAreTrue ==
  /\ \A c \in Ship : RowIsTrue(c)
  /\ On("poll") => ship.seen \in {"?", "open", "COMPLETE"}

\* "the operations that are safe to repeat (calls, status, settings, balance)"
\* (docs/OPERATIONS.md): a proposal the command means to file once is filed once.
\* It does not hold (see the README).
FiledOnce == Len(afloat.proposals) <= asked

ShippingSpec == ShippingInit /\ [][ShippingNext]_shipVars
=============================================================================
