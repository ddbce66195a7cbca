---------------------------- MODULE CanisterCalls ----------------------------
(***************************************************************************)
(* What the baton's executors work with: the managed canisters as the      *)
(* management canister shows and changes them, the saved record of the one *)
(* open action, and the executor that makes the calls of a phase one after *)
(* the other on its copy of the record.  BatonActions is about who may run *)
(* a phase; the modules that extend this one are about what a phase does.  *)
(*                                                                         *)
(* Each call is one step: it succeeds, or it answers an error.  Some of the *)
(* baton's calls look at the answer (_unwrap) and some do not: an Err       *)
(* answer to those goes unnoticed (swallowed), and only a call that raises  *)
(* is noticed.  The executor may also die between two calls.               *)
(***************************************************************************)
EXTENDS Naturals, Sequences, FiniteSets, SequencesExt, FiniteSetsExt, Ordered

CONSTANTS
  None,
  Canisters,      \* the managed canisters, in the order of the proposals
  Kinds,          \* kinds of action in this instance: "upgrade", "restore", "provision"
  SnapshotLimit,  \* snapshots of one canister the IC keeps
  SnapshotsKept,  \* snapshots_keep
  MaxActions,     \* bound: actions approved one after the other
  MaxFailures,    \* bound: calls that answer an error the code looks at
  MaxSwallowed,   \* bound: errors the code does not look at
  MaxLosses       \* bound: executors that die in the middle of a phase

Canister == ToSet(Canisters)

ASSUME CanistersAssumption == Canisters \in Seq(Canister) /\ IsInjective(Canisters) /\ Canisters # <<>>
ASSUME KindAssumption == Kinds \subseteq {"upgrade", "restore", "provision"}
ASSUME KeepAssumption == SnapshotsKept \in 1..SnapshotLimit /\ SnapshotLimit \in Nat
ASSUME CallBoundsAssumption ==
  MaxActions \in Nat /\ MaxFailures \in Nat /\ MaxSwallowed \in Nat /\ MaxLosses \in Nat

\* The n-th action installs version n; 0 is what the canisters ran before.
Version == 0..MaxActions

VARIABLES
  module,    \* Canister -> the version of the code and state it runs
  running,   \* the canisters that are running
  chunks,    \* Canister -> the pieces of a module in its chunk store
  taken,     \* Canister -> what its snapshots hold, in the order taken
  kept,      \* Canister -> the snapshots (their places in taken) that still exist
  assets,    \* Canister -> what an asset canister serves
  store,     \* the wasm store: file -> what it holds
  origins,   \* _snapshot_origins: the snapshots list_snapshots has a label for
  filed,     \* actions approved so far
  before,    \* what the canisters ran when the open action was approved
  rec,       \* the saved record of the last action, or None
  run,       \* the executor, or None
  failures, swallowed, losses

canisters == <<module, running, chunks, taken, kept>>
budget == <<failures, swallowed, losses>>
vars == <<canisters, assets, store, origins, filed, before, rec, run, budget>>

Terminal == {"COMPLETE", "REJECTED_PREFLIGHT", "FAILED_STOP", "FAILED_SNAPSHOT", "REVERTED_PARTIAL_FAILURE",
             "REVERTED_FAILED_VERIFY", "ROLLED_BACK", "NEEDS_ATTENTION", "FAILED_PROVISION"}
Open == rec # None /\ rec.status \notin Terminal

Calls(op, cs) == [i \in 1..Len(cs) |-> [op |-> op, cid |-> cs[i]]]
Newest(c) == Max(kept[c])
-----------------------------------------------------------------------------
(* The management canister: what a call that succeeds does.                *)

StopCanister(c) == running' = running \ {c} /\ UNCHANGED <<module, chunks, taken, kept>>
StartCanister(c) == running' = running \cup {c} /\ UNCHANGED <<module, chunks, taken, kept>>
CanTake(c) == Cardinality(kept[c]) < SnapshotLimit
TakeSnapshot(c) ==
  /\ CanTake(c)
  /\ taken' = [taken EXCEPT ![c] = Append(@, [module |-> module[c], chunks |-> chunks[c]])]
  /\ kept' = [kept EXCEPT ![c] = @ \cup {Len(taken[c]) + 1}]
  /\ UNCHANGED <<module, running, chunks>>
LoadSnapshot(c, i) ==
  /\ i \in kept[c]
  /\ module' = [module EXCEPT ![c] = taken[c][i].module]
  /\ chunks' = [chunks EXCEPT ![c] = taken[c][i].chunks]
  /\ UNCHANGED <<running, taken, kept>>
ClearChunkStore(c) == chunks' = [chunks EXCEPT ![c] = {}] /\ UNCHANGED <<module, running, taken, kept>>
UploadChunk(c, n) == chunks' = [chunks EXCEPT ![c] = @ \cup {n}] /\ UNCHANGED <<module, running, taken, kept>>
InstallChunkedCode(c, v) == module' = [module EXCEPT ![c] = v] /\ UNCHANGED <<running, chunks, taken, kept>>
-----------------------------------------------------------------------------
(* The executor *)

Doing(at, mem, todo) == [at |-> at, mem |-> mem, todo |-> todo, noted |-> {}, problems |-> 0, end |-> None]
Undoing(mem, todo, end) == [Doing("undo", mem, todo) EXCEPT !.end = end]

At(phase) == run # None /\ run.at = phase
Calling(phase) == At(phase) /\ run.todo # <<>>
Called(phase) == At(phase) /\ run.todo = <<>>
Call == Head(run.todo)
Answered(r) == run' = [r EXCEPT !.todo = Tail(@)]

\* An error the code looks at: one out of the blue is counted, one the state of
\* the canister explains is not.
Fails == failures < MaxFailures /\ failures' = failures + 1 /\ UNCHANGED <<swallowed, losses>>
Refused == UNCHANGED budget
FailsOr(cannot) == (cannot /\ Refused) \/ (~cannot /\ Fails)
\* An error the code does not look at.
Swallows == swallowed < MaxSwallowed /\ swallowed' = swallowed + 1 /\ UNCHANGED <<failures, losses>>
Succeeds == UNCHANGED budget

\* What an executor that has made its calls saves.
Saves(r) == rec' = r /\ run' = None
Ends(mem, status) == Saves([mem EXCEPT !.status = status])

\* The executor dies: a trap, a reply that never comes, an upgrade of the baton.
LoseExecutor ==
  /\ run # None
  /\ losses < MaxLosses /\ losses' = losses + 1
  /\ run' = None
  /\ UNCHANGED <<canisters, assets, store, origins, filed, before, rec, failures, swallowed>>
=============================================================================
