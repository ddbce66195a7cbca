--------------------------- MODULE AssetProvision ---------------------------
(***************************************************************************)
(* An asset provision: asset_provision_step_gen (baton/src/assets.py) and  *)
(* _execute_asset_provision_gen (baton/src/main.py).  The files of a       *)
(* bundle are pinned by hash when the action is filed; the wasm store may  *)
(* change under the action, between its messages and between its calls.   *)
(* A message ships the next files of the canister at the cursor; the       *)
(* literal extra files go last, so that they win.                          *)
(***************************************************************************)
EXTENDS CanisterCalls

CONSTANTS
  Files,            \* the bundle's files in the order of their paths
  Extra,            \* the literal extra files of the proposal
  FilesPerExecute   \* files one message ships

File == ToSet(Files)
ASSUME FilesAssumption ==
  Files \in Seq(File) /\ IsInjective(Files) /\ Files # <<>> /\ FilesPerExecute \in Nat \ {0}

\* What the store holds of a file, and what an asset canister serves.
InStore == {"approved", "newer", "lost"}
Served == {"old", "approved", "newer", "extra"}

\* Somebody uploads to the store, or removes a file, after the pinning.
StoreChanges(f) ==
  /\ "provision" \in Kinds /\ store[f] = "approved"
  /\ \E v \in {"newer", "lost"} : store' = [store EXCEPT ![f] = v]
  /\ UNCHANGED <<canisters, assets, origins, filed, before, rec, run, budget>>

\* pin_manifests_gen: the record holds the hashes the store had when the action
\* was filed; the model names that content "approved".
Provisioned(r) == Canisters[r.index + 1]
Batch(r) == SubSeq(Files, r.load + 1, Min({r.load + FilesPerExecute, Len(Files)}))

\* One message: the grants and the listing of a canister's first batch, a batch
\* of files, and after the last of them the extra files.
ProvisionCalls(r) ==
  (IF r.listed THEN <<>> ELSE <<[op |-> "list", cid |-> Provisioned(r)]>>)
    \o [i \in 1..Len(Batch(r)) |-> [op |-> "ship", cid |-> Provisioned(r), file |-> Batch(r)[i]]]
    \o (IF r.load + Len(Batch(r)) = Len(Files) THEN Calls("extra", <<Provisioned(r)>>) ELSE <<>>)

BeginProvision ==
  /\ Open /\ run = None /\ rec.kind = "provision"
  /\ rec' = [rec EXCEPT !.status = "PROVISIONING"]
  /\ run' = Doing("PROVISIONING", rec', ProvisionCalls(rec))
  /\ UNCHANGED <<canisters, assets, store, origins, filed, before, budget>>

\* grant_permission and list_registry_files_gen: a pinned file that is gone fails
\* the action, one added since is not looked at.
ListBundle ==
  /\ Calling("PROVISIONING") /\ Call.op = "list"
  /\ \A f \in File : store[f] # "lost"
  /\ Answered([run EXCEPT !.mem.listed = TRUE])
  /\ Succeeds
  /\ UNCHANGED <<canisters, assets, store, origins, filed, before, rec>>

\* Mutant: the store's hash is not compared with the pinned one.
MatchesFound(f) == store[f] # "lost"

\* pull_registry_file_hashed_gen and the comparison with the pinned hash.
MatchesManifest(f) == store[f] = "approved"

ShipFile ==
  /\ Calling("PROVISIONING") /\ Call.op = "ship"
  /\ MatchesManifest(Call.file)
  /\ assets' = [assets EXCEPT ![Call.cid][Call.file] = store[Call.file]]
  /\ Answered([run EXCEPT !.mem.load = @ + 1])
  /\ Succeeds
  /\ UNCHANGED <<canisters, store, origins, filed, before, rec>>

ShipExtra ==
  /\ Calling("PROVISIONING") /\ Call.op = "extra"
  /\ assets' = [assets EXCEPT ![Call.cid] = [f \in File |-> IF f \in Extra THEN "extra" ELSE @[f]]]
  /\ Answered(run)
  /\ Succeeds
  /\ UNCHANGED <<canisters, store, origins, filed, before, rec>>

CannotShip ==
  \/ Call.op = "list" /\ \E f \in File : store[f] = "lost"
  \/ Call.op = "ship" /\ ~MatchesManifest(Call.file)

\* Any error fails the action; what was shipped stays.
ProvisionFails ==
  /\ Calling("PROVISIONING")
  /\ FailsOr(CannotShip)
  /\ Ends(run.mem, "FAILED_PROVISION")
  /\ UNCHANGED <<canisters, assets, store, origins, filed, before>>

\* The batch is saved, the next canister begun, or the action complete.
BatchDone ==
  /\ Called("PROVISIONING")
  /\ \/ run.mem.load < Len(Files) /\ Saves(run.mem)
     \/ /\ run.mem.load = Len(Files) /\ run.mem.index + 1 < Len(Canisters)
        /\ Saves([run.mem EXCEPT !.index = @ + 1, !.load = 0, !.listed = FALSE])
     \/ /\ run.mem.load = Len(Files) /\ run.mem.index + 1 = Len(Canisters)
        /\ Ends(run.mem, "COMPLETE")
  /\ UNCHANGED <<canisters, assets, store, origins, filed, before, budget>>

ProvisionNext ==
  \/ BeginProvision \/ ListBundle \/ ShipFile \/ ShipExtra \/ ProvisionFails \/ BatchDone
  \/ \E f \in File : StoreChanges(f)
=============================================================================
