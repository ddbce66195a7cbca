--------------------------- MODULE SnapshotRestore ---------------------------
(***************************************************************************)
(* A snapshot restore: restore_gen (baton/src/snapshots.py) and what       *)
(* _execute_restore_gen (baton/src/main.py) makes of it.  It runs in one   *)
(* go, stops every target, takes a fresh snapshot of each, loads the       *)
(* chosen ones and starts the targets; what was loaded before a failure is *)
(* put back on its fresh snapshot.                                         *)
(***************************************************************************)
EXTENDS ManagedUpgrade

Targets(r) == Having(Canisters, {c \in Canister : r.choice[c] # 0})
StartTargets(r) == Calls("start", Targets(r))
RestoreCalls(r) ==
  Calls("stop", Targets(r)) \o Calls("snapshot", Targets(r)) \o Calls("load", Targets(r))

\* validate_restore_payload and the snapshot list read when it was filed: each
\* target is named with a snapshot of its own that existed then.
RestoreChoices == {f \in [Canister -> UNION {{0} \cup kept[c] : c \in Canister}] :
              /\ \A c \in Canister : f[c] \in {0} \cup kept[c]
              /\ \E c \in Canister : f[c] # 0}

\* A restore found RESTORING was interrupted: it is not run again blindly.
BeginRestore ==
  /\ Open /\ run = None /\ rec.kind = "restore"
  /\ \/ /\ rec.status = "APPROVED"
        /\ rec' = [rec EXCEPT !.status = "RESTORING"]
        /\ run' = Doing("RESTORING", rec', RestoreCalls(rec))
     \/ /\ rec.status = "RESTORING"
        /\ rec' = [rec EXCEPT !.status = "NEEDS_ATTENTION"]
        /\ UNCHANGED run
  /\ UNCHANGED <<canisters, assets, store, origins, filed, before, budget>>

\* noted: the targets whose chosen snapshot was loaded.
RestoreCallSucceeds ==
  /\ Calling("RESTORING")
  /\ Succeeds
  /\ \/ Call.op = "stop" /\ StopCanister(Call.cid) /\ Answered(run)
     \/ /\ Call.op = "snapshot" /\ TakeSnapshot(Call.cid)
        /\ Answered([run EXCEPT !.mem.refs[Call.cid] = Len(taken'[Call.cid])])
     \/ /\ Call.op = "load" /\ LoadSnapshot(Call.cid, run.mem.choice[Call.cid])
        /\ Answered([run EXCEPT !.noted = @ \cup {Call.cid}])
  /\ UNCHANGED <<assets, store, origins, filed, before, rec>>

CannotRestore ==
  \/ Call.op = "snapshot" /\ ~CanTake(Call.cid)
  \/ Call.op = "load" /\ run.mem.choice[Call.cid] \notin kept[Call.cid]

\* The first failure ends the try and undoes what was loaded.
RestoreCallFails ==
  /\ Calling("RESTORING")
  /\ FailsOr(CannotRestore)
  /\ run' = [run EXCEPT !.at = "RESTORE_UNDO", !.problems = 1,
               !.todo = Calls("load", Having(Targets(run.mem), run.noted)) \o StartTargets(run.mem)]
  /\ UNCHANGED <<canisters, assets, store, origins, filed, before, rec>>

\* The undo and the starts: every error is one more problem.
RestoreUndoCall ==
  /\ Calling("RESTORE_UNDO") \/ Calling("RESTORE_START")
  /\ \/ /\ Succeeds /\ Answered(run)
        /\ \/ Call.op = "load" /\ LoadSnapshot(Call.cid, run.mem.refs[Call.cid])
           \/ Call.op = "start" /\ StartCanister(Call.cid)
     \/ Fails /\ Answered([run EXCEPT !.problems = Min({2, @ + 1})]) /\ UNCHANGED canisters
  /\ UNCHANGED <<assets, store, origins, filed, before, rec>>

RestoreLoaded ==
  /\ Called("RESTORING")
  /\ run' = [run EXCEPT !.at = "RESTORE_START", !.todo = StartTargets(run.mem)]
  /\ UNCHANGED <<canisters, assets, store, origins, filed, before, rec, budget>>

\* All loaded and started: each target's module hash is read. An error there
\* leaves the record RESTORING.
RestoreStarted ==
  /\ Called("RESTORE_START") /\ run.problems = 0
  /\ \/ /\ Succeeds
        /\ run' = [run EXCEPT !.at = "RESTORE_PRUNE", !.todo = Calls("prune", Targets(run.mem))]
        /\ origins' = origins \cup RememberSnapshots(run.mem)
     \/ Fails /\ run' = None /\ UNCHANGED origins
  /\ UNCHANGED <<canisters, assets, store, filed, before, rec>>

RestorePrune ==
  /\ Calling("RESTORE_PRUNE")
  /\ PruneSnapshots(Call.cid)
  /\ Answered(run)
  /\ UNCHANGED <<assets, store, filed, before, rec>>

\* Mutant: whatever was undone is reported rolled back.
RestoreOutcomeLax(phase, problems) ==
  CASE phase = "RESTORE_PRUNE" -> "COMPLETE"
    [] phase = "RESTORE_UNDO"  -> "ROLLED_BACK"
    [] phase = "RESTORE_START" -> "NEEDS_ATTENTION"

\* "undone" with the one problem that started it, "broken" with more.
RestoreOutcome(phase, problems) ==
  CASE phase = "RESTORE_PRUNE" -> "COMPLETE"
    [] phase = "RESTORE_UNDO"  -> IF problems = 1 THEN "ROLLED_BACK" ELSE "NEEDS_ATTENTION"
    [] phase = "RESTORE_START" -> "NEEDS_ATTENTION"

RestoreDone ==
  /\ \/ Called("RESTORE_PRUNE") \/ Called("RESTORE_UNDO")
     \/ Called("RESTORE_START") /\ run.problems > 0
  /\ Ends(run.mem, RestoreOutcome(run.at, run.problems))
  /\ UNCHANGED <<canisters, assets, store, origins, filed, before, budget>>

RestoreNext ==
  \/ BeginRestore \/ RestoreCallSucceeds \/ RestoreCallFails \/ RestoreLoaded
  \/ RestoreUndoCall \/ RestoreStarted \/ RestorePrune \/ RestoreDone
=============================================================================
