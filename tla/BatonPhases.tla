----------------------------- MODULE BatonPhases -----------------------------
(***************************************************************************)
(* A baton's actions one after the other over the same canisters: each is  *)
(* approved when the one before has ended, and what one leaves behind      *)
(* (stopped canisters, snapshots, mixed versions) the next one finds.      *)
(***************************************************************************)
EXTENDS SnapshotRestore, AssetProvision

\* What an action is saved as while it is open, and when it has ended.
Status ==
  Terminal \cup {"APPROVED", "PRE_FLIGHT", "STOPPING", "SNAPSHOTTING", "UPGRADING", "STARTING", "VERIFYING",
                "FINALIZING", "RESTORING", "PROVISIONING"}

Record == [kind : {"upgrade", "restore", "provision"}, status : Status, version : Version,
           refs : [Canister -> Nat], choice : [Canister -> Nat], index : Nat, load : Nat, listed : BOOLEAN]

\* What an executor asks of a canister, and where it is.
Asks ==
  [op : {"status", "stop", "snapshot", "clear", "upload", "install", "start", "verify", "prune", "load", "list",
         "extra"}, cid : Canister] \cup [op : {"ship"}, cid : Canister, file : File]
Phase ==
  {"PRE_FLIGHT", "STOPPING", "SNAPSHOTTING", "UPGRADING", "STARTING", "VERIFYING", "FINALIZING", "undo",
   "RESTORING", "RESTORE_UNDO", "RESTORE_START", "RESTORE_PRUNE", "PROVISIONING"}

Executor == [at : Phase, mem : Record, todo : Seq(Asks), noted : SUBSET Canister, problems : 0..2,
             end : Terminal \cup {None}]

ASSUME NoneAssumption == None \notin Record /\ None \notin Executor

NewRecord(kind, choice) ==
  [kind |-> kind, status |-> "APPROVED", version |-> filed + 1, refs |-> [c \in Canister |-> 0],
   choice |-> choice, index |-> 0, load |-> 0, listed |-> FALSE]

TypeOK ==
  /\ module \in [Canister -> Version] /\ running \subseteq Canister
  /\ chunks \in [Canister -> SUBSET (1..Pieces)]
  /\ \A c \in Canister : kept[c] \subseteq DOMAIN taken[c] /\ Cardinality(kept[c]) <= SnapshotLimit
  /\ assets \in [Canister -> [File -> Served]] /\ store \in [File -> InStore]
  /\ rec # None => rec \in Record /\ rec.index <= Len(Canisters)
                   /\ rec.load <= Max({Pieces, Len(Files)})
  /\ run # None => Open /\ run \in Executor

Init ==
  /\ module = [c \in Canister |-> 0] /\ running = Canister
  /\ chunks = [c \in Canister |-> {}]
  /\ taken = [c \in Canister |-> <<>>] /\ kept = [c \in Canister |-> {}]
  /\ assets = [c \in Canister |-> [f \in File |-> "old"]]
  /\ store = [f \in File |-> "approved"]
  /\ origins = {} /\ filed = 0 /\ before = [module |-> module, running |-> running]
  /\ rec = None /\ run = None
  /\ failures = 0 /\ swallowed = 0 /\ losses = 0

\* The next action is filed and approved (see BatonActions) once the last ended.
Approves(r) ==
  /\ run = None /\ ~Open
  /\ filed < MaxActions /\ filed' = filed + 1
  /\ r.kind \in Kinds /\ rec' = r
  /\ before' = [module |-> module, running |-> running]
  /\ UNCHANGED <<canisters, assets, origins, run, budget>>

NoChoice == [c \in Canister |-> 0]
ProposeManagedUpgrade == Approves(NewRecord("upgrade", NoChoice)) /\ UNCHANGED store

\* The hashes the store has when a provision is filed are pinned, and approved
\* with it.
ProposeAssetProvision ==
  Approves(NewRecord("provision", NoChoice)) /\ store' = [f \in File |-> "approved"]

ProposeSnapshotRestore ==
  \E choice \in RestoreChoices : Approves(NewRecord("restore", choice)) /\ UNCHANGED store

Next ==
  \/ ProposeManagedUpgrade \/ ProposeAssetProvision \/ ProposeSnapshotRestore
  \/ UpgradeNext \/ RestoreNext \/ ProvisionNext
  \/ LoseExecutor

Spec == Init /\ [][Next]_vars
-----------------------------------------------------------------------------
(* Properties *)

Was(kind, status) == rec # None /\ rec.kind = kind /\ rec.status = status
\* COMPLETE means what was approved: whatever failed, was lost or went unnoticed
\* on the way, every canister runs the approved module.
CompleteIsNew ==
  Was("upgrade", "COMPLETE") => \A c \in Canister : module[c] = rec.version

\* A stand is "upgraded and rolled back as a unit": an upgrade that ended any
\* other way left no mixture of releases. Every canister is back on what it ran
\* before, or (one did not start) all are on the new module.
EndsUniform ==
  rec # None /\ rec.kind = "upgrade" /\ rec.status \in Terminal \ {"COMPLETE"} =>
    \/ module = before.module
    \/ \A c \in Canister : module[c] = rec.version

\* What ran before an upgrade runs again, unless one did not start.
EndsRunning ==
  rec # None /\ rec.kind = "upgrade" /\ rec.status \in Terminal \ {"REVERTED_PARTIAL_FAILURE"} =>
    before.running \subseteq running

\* An upgrade ends with the whole stand on the approved module, or with all of it where
\* it was and running. The latter holds whichever calls answer an error the code looks
\* at, unless an executor died on the way.
UpgradeEndsWhole ==
  /\ CompleteIsNew
  /\ swallowed = 0 /\ losses = 0 => EndsUniform /\ EndsRunning

\* The snapshots the open upgrade would go back to still exist and hold what the
\* canisters ran when it began.
WayBackExists ==
  Open /\ rec.kind = "upgrade" =>
    \A c \in Canister : HasRef(rec, c) =>
      rec.refs[c] \in kept[c] /\ taken[c][rec.refs[c]].module = before.module[c]

\* A restore tells the truth about where it left its targets.
RestoreOutcomeIsTrue ==
  /\ Was("restore", "COMPLETE") =>
       \A c \in ToSet(Targets(rec)) : c \in running /\ module[c] = taken[c][rec.choice[c]].module
  /\ Was("restore", "ROLLED_BACK") =>
       module = before.module /\ ToSet(Targets(rec)) \subseteq running

\* No user is served a file nobody approved, and a provision that is complete
\* serves exactly the approved bundle under its extra files.
ProvisionedAsApproved ==
  /\ \A c \in Canister, f \in File : assets[c][f] # "newer"
  /\ Was("provision", "COMPLETE") =>
       \A c \in Canister, f \in File : assets[c][f] = (IF f \in Extra THEN "extra" ELSE "approved")
=============================================================================
