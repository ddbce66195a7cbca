--------------------------- MODULE ManagedUpgrade ---------------------------
(***************************************************************************)
(* The phases of a managed upgrade (baton/src/pipeline.py) and the part of *)
(* _run_phase_gen (baton/src/main.py) that runs one and saves its outcome: *)
(* check every canister, stop them, snapshot them, install one after the   *)
(* other, start them, verify them, bake, prune the old snapshots.          *)
(***************************************************************************)
EXTENDS CanisterCalls

CONSTANTS
  Pieces,   \* a module's pieces: one message uploads each (STORE_CHUNKS_PER_EXECUTE)
  Probed    \* canisters with a smoke test or a health check

ASSUME PiecesAssumption == Pieces \in Nat \ {0}
ASSUME ProbedAssumption == Probed \subseteq Canister

HasRef(r, c) == r.refs[c] # 0
Referred(r, cs) == Having(cs, {c \in Canister : HasRef(r, c)})

\* restart_canisters_gen, revert_upgraded_gen and full_revert_and_restart_gen:
\* calls whose errors are all passed over.
RestartCanisters(cs) == Calls("start", cs)
RevertUpgraded(r, count) == Calls("load", Referred(r, SubSeq(Canisters, 1, count)))

\* Mutant: only the last canister is put back.
RevertLast(r) ==
  Calls("stop", Canisters) \o Calls("load", Referred(r, <<Last(Canisters)>>)) \o Calls("start", Canisters)

FullRevertAndRestart(r) ==
  Calls("stop", Canisters) \o Calls("load", Referred(r, Canisters)) \o Calls("start", Canisters)

UndoCall ==
  /\ Calling("undo")
  /\ \/ /\ Succeeds
        /\ \/ Call.op = "stop" /\ StopCanister(Call.cid)
           \/ Call.op = "load" /\ LoadSnapshot(Call.cid, run.mem.refs[Call.cid])
           \/ Call.op = "start" /\ StartCanister(Call.cid)
     \/ Swallows /\ UNCHANGED canisters
  /\ Answered(run)
  /\ UNCHANGED <<assets, store, origins, filed, before, rec>>

UndoDone ==
  /\ Called("undo")
  /\ Ends(run.mem, run.end)
  /\ UNCHANGED <<canisters, assets, store, origins, filed, before, budget>>

\* The status the next message finds is saved, and its timer armed.
PhaseDone(from, to) ==
  /\ Called(from)
  /\ Ends(run.mem, to)
  /\ UNCHANGED <<canisters, assets, store, origins, filed, before, budget>>
-----------------------------------------------------------------------------
(* PRE_FLIGHT: nothing is changed. An error of the call itself leaves the   *)
(* action where it is; a canister that drifted, does not run or lacks       *)
(* cycles rejects it.                                                       *)

PhasePreFlight ==
  /\ Calling("PRE_FLIGHT")
  /\ \/ Call.cid \in running /\ Answered(run) /\ Succeeds /\ UNCHANGED rec
     \/ FailsOr(Call.cid \notin running) /\ Ends(run.mem, "REJECTED_PREFLIGHT")
     \/ Fails /\ run' = None /\ UNCHANGED rec
  /\ UNCHANGED <<canisters, assets, store, origins, filed, before>>

\* STOPPING: what was stopped is started again when one does not stop.
PhaseStop ==
  /\ Calling("STOPPING")
  /\ \/ StopCanister(Call.cid) /\ Succeeds /\ Answered([run EXCEPT !.noted = @ \cup {Call.cid}])
     \/ Swallows /\ Answered([run EXCEPT !.noted = @ \cup {Call.cid}]) /\ UNCHANGED canisters
     \/ Fails /\ run' = Undoing(run.mem, RestartCanisters(Having(Canisters, run.noted)), "FAILED_STOP")
              /\ UNCHANGED canisters
  /\ UNCHANGED <<assets, store, origins, filed, before, rec>>

\* SNAPSHOTTING: the snapshots are named in the copy, saved at the end.
PhaseSnapshot ==
  /\ Calling("SNAPSHOTTING")
  /\ \/ /\ TakeSnapshot(Call.cid) /\ Succeeds
        /\ Answered([run EXCEPT !.mem.refs[Call.cid] = Len(taken'[Call.cid])])
     \/ /\ FailsOr(~CanTake(Call.cid))
        /\ run' = Undoing(run.mem, RestartCanisters(Canisters), "FAILED_SNAPSHOT")
        /\ UNCHANGED canisters
  /\ UNCHANGED <<assets, store, origins, filed, before, rec>>
-----------------------------------------------------------------------------
(* UPGRADING: a piece of the module of the canister at the index per        *)
(* message; the message that uploads the last one installs it.              *)

Target(r) == Canisters[r.index + 1]

\* _store_install_step_gen.
InstallStepCalls(r) ==
  (IF r.load = 0 THEN Calls("clear", <<Target(r)>>) ELSE <<>>)
    \o Calls("upload", <<Target(r)>>)
    \o (IF r.load + 1 < Pieces THEN <<>> ELSE Calls("install", <<Target(r)>>) \o Calls("clear", <<Target(r)>>))

\* The step failed: it is saved as it is, what was installed before goes back
\* to its snapshot and every canister is started.
UpgradeFailed ==
  LET mem == [run.mem EXCEPT !.load = 0] IN
  /\ rec' = mem
  /\ run' = Undoing(mem, RevertUpgraded(mem, mem.index) \o RestartCanisters(Canisters), "REVERTED_PARTIAL_FAILURE")
  /\ UNCHANGED canisters

PhaseUpgradeStep ==
  /\ Calling("UPGRADING")
  /\ \/ /\ Call.op = "clear"
        /\ \/ ClearChunkStore(Call.cid) /\ Succeeds
           \/ UNCHANGED canisters /\ Swallows
        /\ Answered(run) /\ UNCHANGED rec
     \/ /\ Call.op = "upload"
        /\ \/ /\ UploadChunk(Call.cid, run.mem.load + 1) /\ Succeeds
              /\ Answered([run EXCEPT !.mem.load = @ + 1]) /\ UNCHANGED rec
           \/ Fails /\ UpgradeFailed
     \/ /\ Call.op = "install"
        /\ \/ /\ chunks[Call.cid] = 1..Pieces /\ Succeeds
              /\ InstallChunkedCode(Call.cid, run.mem.version) /\ Answered(run) /\ UNCHANGED rec
           \/ /\ FailsOr(chunks[Call.cid] # 1..Pieces)
              /\ UpgradeFailed
  /\ UNCHANGED <<assets, store, origins, filed, before>>

\* The message after the last canister's finds nothing left to install.
UpgradeStepDone ==
  /\ Called("UPGRADING")
  /\ \/ run.mem.index >= Len(Canisters) /\ Ends(run.mem, "STARTING")
     \/ /\ run.mem.index < Len(Canisters) /\ run.mem.load < Pieces /\ Saves(run.mem)
     \/ /\ run.mem.index < Len(Canisters) /\ run.mem.load = Pieces
        /\ Saves([run.mem EXCEPT !.index = @ + 1, !.load = 0])
  /\ UNCHANGED <<canisters, assets, store, origins, filed, before, budget>>
-----------------------------------------------------------------------------
\* STARTING: a canister that does not start ends the action; nothing is reverted.
PhaseStart ==
  /\ Calling("STARTING")
  /\ \/ StartCanister(Call.cid) /\ Succeeds /\ Answered(run) /\ UNCHANGED rec
     \/ UNCHANGED canisters /\ Swallows /\ Answered(run) /\ UNCHANGED rec
     \/ UNCHANGED canisters /\ Fails /\ Ends(run.mem, "REVERTED_PARTIAL_FAILURE")
  /\ UNCHANGED <<assets, store, origins, filed, before>>

\* A smoke test or health check is a call, which a canister that does not run cannot
\* answer.
Healthy(c) == c \in Probed => c \in running

\* The module hash, and the probe.
Verified(c) == module[c] = run.mem.version /\ Healthy(c)

\* VERIFYING: an error of the status call leaves the action where it is.
PhaseVerify ==
  /\ Calling("VERIFYING")
  /\ \/ Verified(Call.cid) /\ Succeeds /\ Answered(run)
     \/ /\ FailsOr(~Verified(Call.cid))
        /\ run' = Undoing(run.mem, FullRevertAndRestart(run.mem), "REVERTED_FAILED_VERIFY")
     \/ Fails /\ run' = None
  /\ UNCHANGED <<canisters, assets, store, origins, filed, before, rec>>

\* Mutant: the oldest snapshots are kept.
OldestKept(ids) ==
  CHOOSE S \in SUBSET ids : Cardinality(S) = Min({SnapshotsKept, Cardinality(ids)}) /\ \A i \in ids \ S, j \in S : j < i

NewestKept(ids) ==
  CHOOSE S \in SUBSET ids : Cardinality(S) = Min({SnapshotsKept, Cardinality(ids)}) /\ \A i \in ids \ S, j \in S : i < j

\* prune_snapshots_gen, newest first: when a delete fails the deleted ones' ids
\* are lost to the caller, and the older ones stay.
PruneSnapshots(c) ==
  LET old == kept[c] \ NewestKept(kept[c]) IN
  /\ \/ /\ Succeeds
        /\ kept' = [kept EXCEPT ![c] = @ \ old]
        /\ origins' = origins \ {<<c, i>> : i \in old}
     \/ /\ Fails
        /\ \E gone \in SUBSET old :
             /\ \A i \in old \ gone, j \in gone : i < j
             /\ kept' = [kept EXCEPT ![c] = @ \ gone]
        /\ UNCHANGED origins
  /\ UNCHANGED <<module, running, chunks, taken>>

\* _remember_snapshots: at once, in stable memory.
RememberSnapshots(r) == {<<c, r.refs[c]>> : c \in {d \in Canister : HasRef(r, d)}}

\* FINALIZING once the bake is over; _post_upgrade_hook is None and passes.
\* _keep_newest_snapshots_gen never fails the action.
KeepNewestSnapshots ==
  /\ Calling("FINALIZING")
  /\ PruneSnapshots(Call.cid)
  /\ Answered(run)
  /\ UNCHANGED <<assets, store, filed, before, rec>>
-----------------------------------------------------------------------------
\* _run_phase_gen: a message loads the record and begins the phase its status
\* names; the first saves PRE_FLIGHT.
PhaseCalls(r) ==
  CASE r.status = "PRE_FLIGHT"   -> Calls("status", Canisters)
    [] r.status = "STOPPING"     -> Calls("stop", Canisters)
    [] r.status = "SNAPSHOTTING" -> Calls("snapshot", Canisters)
    [] r.status = "UPGRADING"    -> IF r.index < Len(Canisters) THEN InstallStepCalls(r) ELSE <<>>
    [] r.status = "STARTING"     -> Calls("start", Canisters)
    [] r.status = "VERIFYING"    -> Calls("verify", Canisters)
    [] r.status = "FINALIZING"   -> Calls("prune", Canisters)

BeginUpgradePhase ==
  /\ Open /\ run = None /\ rec.kind = "upgrade"
  /\ LET r == [rec EXCEPT !.status = IF @ = "APPROVED" THEN "PRE_FLIGHT" ELSE @] IN
     /\ rec' = r
     /\ run' = Doing(r.status, r, PhaseCalls(r))
     /\ origins' = IF r.status = "FINALIZING" THEN origins \cup RememberSnapshots(r) ELSE origins
  /\ UNCHANGED <<canisters, assets, store, filed, before, budget>>

UpgradePhaseDone ==
  \/ PhaseDone("PRE_FLIGHT", "STOPPING") \/ PhaseDone("STOPPING", "SNAPSHOTTING")
  \/ PhaseDone("SNAPSHOTTING", "UPGRADING") \/ PhaseDone("STARTING", "VERIFYING")
  \/ PhaseDone("VERIFYING", "FINALIZING") \/ PhaseDone("FINALIZING", "COMPLETE")

UpgradeNext ==
  \/ BeginUpgradePhase \/ UpgradePhaseDone
  \/ PhasePreFlight \/ PhaseStop \/ PhaseSnapshot \/ PhaseUpgradeStep \/ UpgradeStepDone
  \/ PhaseStart \/ PhaseVerify \/ KeepNewestSnapshots \/ UndoCall \/ UndoDone
=============================================================================
