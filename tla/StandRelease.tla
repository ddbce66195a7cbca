---------------------------- MODULE StandRelease ----------------------------
(***************************************************************************)
(* The pipeline of one approved stand release (baton/src/release.py): the  *)
(* plan, the executor that runs the step at the cursor, the rollback, the  *)
(* abort.  One executor at a time: BatonActions is about the claim that    *)
(* ensures it.                                                             *)
(*                                                                         *)
(* The record is saved when a step ends, never between its calls: the      *)
(* executor works on a copy, and when it dies (a trap, a lost reply, an    *)
(* upgrade of the baton) the copy dies with it while what its calls did to *)
(* the canisters stays.  The step is then run again from the saved record, *)
(* or an operator aborts.                                                  *)
(*                                                                         *)
(* A member's content is the set of parts of the release it carries; {} is *)
(* the old release.  Beside it a canister holds what was staged on it: wasm *)
(* chunks in its chunk store, and a frontend's proposed batch.  A snapshot *)
(* keeps both.  A step that takes several messages is one call here.       *)
(***************************************************************************)
EXTENDS Naturals, Sequences, FiniteSets, SequencesExt, Ordered

CONSTANTS
  None,
  Frontends, Backends,  \* members, in the order of the payload
  NewWasm, NewBundle,   \* members that get a wasm, frontends that get a bundle
  MaxFailures,          \* bound: calls that answer an error
  MaxLosses             \* bound: executors that die in the middle of a step

Fronts == ToSet(Frontends)
Backs == ToSet(Backends)
Member == Fronts \cup Backs
Parts(m) == (IF m \in NewWasm THEN {"wasm"} ELSE {}) \cup (IF m \in NewBundle THEN {"bundle"} ELSE {})
Content == SUBSET {"wasm", "bundle"}

ASSUME MembersAssumption ==
  /\ Frontends \in Seq(Fronts) /\ Backends \in Seq(Backs)
  /\ IsInjective(Frontends) /\ IsInjective(Backends) /\ Fronts \cap Backs = {} /\ None \notin Member
  /\ NewWasm \subseteq Member /\ NewBundle \subseteq Fronts
  /\ NewWasm \cup NewBundle # {}
ASSUME BoundsAssumption == MaxFailures \in Nat /\ MaxLosses \in Nat
-----------------------------------------------------------------------------
(* The plan: build_plan *)

Steps(op, members) == [i \in 1..Len(members) |-> [op |-> op, cid |-> members[i]]]
Alone(op) == <<[op |-> op, cid |-> None]>>

StageFront(m) ==
  Steps("stage_maintenance", <<m>>) \o Steps("copy_files", <<m>>)
    \o (IF m \in NewBundle \ NewWasm THEN Steps("stage_bundle", <<m>>) ELSE <<>>)
ApplyFront(m) ==
  Steps("restore", <<m>>)
    \o (IF m \in NewWasm THEN Steps("install_frontend", <<m>>) ELSE <<>>)
    \o (IF m \in NewWasm \cap NewBundle THEN Steps("ship_bundle", <<m>>) ELSE <<>>)
    \o (IF m \in NewBundle THEN Steps("commit_bundle", <<m>>) ELSE <<>>)
PerFront(Op(_)) == FlattenSeq([i \in 1..Len(Frontends) |-> Op(Frontends[i])])

\* Mutant: the frontends come back before the backends are installed.
PlanFrontsFirst ==
  Alone("preflight")
    \o Steps("stage_release", Having(Frontends \o Backends, NewWasm)) \o PerFront(StageFront)
    \o Steps("snapshot_frontend", Frontends) \o Steps("maintenance_on", Frontends)
    \o PerFront(ApplyFront)
    \o Steps("stop", Backends) \o Steps("snapshot", Backends)
    \o Steps("install", Having(Backends, NewWasm))
    \o Steps("start", Backends) \o Steps("verify_backend", Backends)
    \o Steps("verify_frontend", Frontends) \o Alone("bake") \o Alone("cleanup")

\* Mutant: a backend is snapshotted once it is installed.
PlanLateSnapshot ==
  Alone("preflight")
    \o Steps("stage_release", Having(Frontends \o Backends, NewWasm)) \o PerFront(StageFront)
    \o Steps("snapshot_frontend", Frontends) \o Steps("maintenance_on", Frontends)
    \o Steps("stop", Backends) \o Steps("install", Having(Backends, NewWasm))
    \o Steps("snapshot", Backends)
    \o Steps("start", Backends) \o Steps("verify_backend", Backends)
    \o PerFront(ApplyFront) \o Steps("verify_frontend", Frontends)
    \o Alone("bake") \o Alone("cleanup")

Plan ==
  Alone("preflight")
    \o Steps("stage_release", Having(Frontends \o Backends, NewWasm)) \o PerFront(StageFront)
    \o Steps("snapshot_frontend", Frontends)
    \o Steps("maintenance_on", Frontends)
    \o Steps("stop", Backends) \o Steps("snapshot", Backends)
    \o Steps("install", Having(Backends, NewWasm))
    \o Steps("start", Backends) \o Steps("verify_backend", Backends)
    \o PerFront(ApplyFront) \o Steps("verify_frontend", Frontends)
    \o Alone("bake") \o Alone("cleanup")

WindowOps == {"maintenance_on", "stop", "snapshot", "install", "start", "verify_backend", "restore",
              "install_frontend", "ship_bundle", "commit_bundle", "verify_frontend"}
InWindow(i) == Plan[i].op \in WindowOps
WindowFrom == CHOOSE i \in 1..Len(Plan) : InWindow(i) /\ \A j \in 1..(i - 1) : ~InWindow(j)

\* The rest of what a release goes through, besides its plan's steps.
Terminal == {"COMPLETE", "REJECTED_PREFLIGHT", "FAILED_STAGING", "ROLLED_BACK", "NEEDS_ATTENTION", "ABORTED"}
-----------------------------------------------------------------------------
VARIABLES
  rec,      \* the saved record
  run,      \* the executor: its copy of the record and the calls it still makes
  applied,  \* Member -> the parts of the release the canister carries
  maint,    \* the frontends that serve the maintenance page
  running,  \* the members that are running
  staged,   \* Member -> what is staged on the canister
  icSnaps,  \* Member -> its snapshot on the IC, or None
  failures, losses

canisters == <<applied, maint, running, staged, icSnaps>>
vars == <<rec, run, canisters, failures, losses>>

Staged == SUBSET {"release", "maintenance", "batch"}
Snapshot == [applied : Content, staged : Staged]

\* cursor counts from 1; snapshots are the members whose snapshot the record
\* names, batches the frontends whose batch it names.
Record == [outcome : Terminal \cup {"OPEN"}, cursor : 1..(Len(Plan) + 1),
           touched : SUBSET Fronts, stopped : SUBSET Backs, batches : SUBSET Fronts,
           snapshots : SUBSET Member, windowEnded : BOOLEAN]

\* Beside the plan's steps, the calls of the rollback and the cleanup.
CallOps == WindowOps \cup {"preflight", "stage_release", "stage_maintenance", "copy_files", "stage_bundle",
                           "snapshot_frontend", "bake", "cleanup", "try_load", "load", "delete_batch",
                           "clear_chunks", "delete"}
Executor == [mode : {"step", "abandon", "rollback", "discard"}, end : Terminal \cup {"OPEN"}, mem : Record,
             todo : Seq([op : CallOps, cid : Member \cup {None}]), problems : BOOLEAN]
ASSUME NoneAssumption == None \notin Snapshot /\ None \notin Executor

TypeOK ==
  /\ rec \in Record
  /\ run \in Executor \cup {None}
  /\ applied \in [Member -> Content]
  /\ maint \subseteq Fronts /\ running \subseteq Member
  /\ staged \in [Member -> Staged]
  /\ icSnaps \in [Member -> Snapshot \cup {None}]
  /\ failures \in 0..MaxFailures /\ losses \in 0..MaxLosses

Init ==
  /\ rec = [outcome |-> "OPEN", cursor |-> 1, touched |-> {}, stopped |-> {},
            batches |-> {}, snapshots |-> {}, windowEnded |-> FALSE]
  /\ run = None
  /\ applied = [m \in Member |-> {}]
  /\ maint = {} /\ running = Member
  /\ staged = [m \in Member |-> {}]
  /\ icSnaps = [m \in Member |-> None]
  /\ failures = 0 /\ losses = 0
-----------------------------------------------------------------------------
(* The calls of a step, of the rollback, of the cleanup *)

\* The record's copy as the step leaves it before its first call.
Entering(r) ==
  LET s == Plan[r.cursor]
  IN CASE s.op = "maintenance_on" -> [r EXCEPT !.touched = @ \cup {s.cid}]
       [] s.op = "stop"           -> [r EXCEPT !.stopped = @ \cup {s.cid}]
       [] OTHER                   -> r

\* _load_snapshot loads at once, and only if that fails stops first.
StepCalls(r) ==
  IF Plan[r.cursor].op = "restore" THEN Steps("try_load", <<Plan[r.cursor].cid>>) ELSE <<Plan[r.cursor]>>
StopLoadStart(m) == Steps("stop", <<m>>) \o Steps("load", <<m>>) \o Steps("start", <<m>>)

RollBackend(r, m) ==
  (IF m \in r.snapshots THEN Steps("stop", <<m>>) \o Steps("load", <<m>>) ELSE <<>>)
    \o (IF m \in r.snapshots \cup r.stopped THEN Steps("start", <<m>>) ELSE <<>>)
RollFrontend(r, m) ==
  IF m \in r.touched \cap r.snapshots THEN Steps("try_load", <<m>>) ELSE <<>>
UnstageCalls(r) ==
  Steps("delete_batch", Having(Frontends, r.batches)) \o Steps("clear_chunks", Frontends \o Backends)
RollbackCalls(r) ==
  FlattenSeq([i \in 1..Len(Backends) |-> RollBackend(r, Backends[i])])
    \o FlattenSeq([i \in 1..Len(Frontends) |-> RollFrontend(r, Frontends[i])])
    \o UnstageCalls(r)
DeleteCalls(r) == Steps("delete", Having(Frontends \o Backends, r.snapshots))
AbandonCalls(r) == UnstageCalls(r) \o DeleteCalls(r)

\* A call cannot succeed in the state its canister is in.
NoSnapshot(c) == c.op \in {"try_load", "load", "delete"} /\ icSnaps[c.cid] = None
\* _install_chunked takes the wasm from the canister's own chunk store.
NoChunks(c) ==
  \/ c.op = "maintenance_on" /\ "maintenance" \notin staged[c.cid]
  \/ c.op \in {"install", "install_frontend"} /\ "release" \notin staged[c.cid]
NoBatch(c) == c.op \in {"commit_bundle", "delete_batch"} /\ "batch" \notin staged[c.cid]
\* The hash of the module, the smoke test and the health check; the files served.
Deviates(c) ==
  \/ c.op \in {"verify_backend", "verify_frontend"} /\ applied[c.cid] # Parts(c.cid)
  \/ c.op = "verify_frontend" /\ c.cid \in maint
\* What is asked of the canister itself.
Asked == {"verify_backend", "verify_frontend", "stage_bundle", "ship_bundle", "commit_bundle", "delete_batch",
          "copy_files"}
Impossible(c) ==
  \/ NoSnapshot(c) \/ NoChunks(c) \/ NoBatch(c) \/ Deviates(c)
  \/ c.op = "preflight" /\ running # Member
  \/ c.op \in Asked /\ c.cid \notin running

\* What a call that succeeds makes of the canister. A reinstall with the maintenance
\* page drops what the canister served and its proposed batch.
InstallCall(c) == c.op \in {"install", "install_frontend"}
LoadCall(c) == c.op \in {"try_load", "load"}
BundleCall(c) == c.op \in {"stage_bundle", "ship_bundle"}
SnapshotCall(c) == c.op \in {"snapshot", "snapshot_frontend"}

AppliedAfter(c) ==
  CASE c.op = "maintenance_on" -> [applied EXCEPT ![c.cid] = {}]
    [] InstallCall(c) -> [applied EXCEPT ![c.cid] = @ \cup {"wasm"}]
    [] c.op = "commit_bundle" -> [applied EXCEPT ![c.cid] = @ \cup {"bundle"}]
    [] LoadCall(c) -> [applied EXCEPT ![c.cid] = icSnaps[c.cid].applied]
    [] OTHER -> applied
MaintAfter(c) ==
  CASE c.op = "maintenance_on" -> maint \cup {c.cid}
    [] LoadCall(c) -> maint \ {c.cid}
    [] OTHER -> maint
RunningAfter(c) ==
  CASE c.op = "stop" -> running \ {c.cid}
    [] c.op = "start" -> running \cup {c.cid}
    [] OTHER -> running
\* The step that stages a wasm clears the chunk store once, before its first chunk.
StagedWasm(c) == CASE c.op = "stage_release" -> {"release"} [] c.op = "stage_maintenance" -> {"maintenance"} [] OTHER -> {}
Cleaned == [m \in Member |-> staged[m] \cap {"batch"}]
StagedAfter(c) ==
  CASE StagedWasm(c) # {} -> [staged EXCEPT ![c.cid] = @ \cup StagedWasm(c)]
    [] BundleCall(c) -> [staged EXCEPT ![c.cid] = @ \cup {"batch"}]
    [] c.op \in {"commit_bundle", "delete_batch", "maintenance_on"} -> [staged EXCEPT ![c.cid] = @ \ {"batch"}]
    [] c.op = "clear_chunks" -> [staged EXCEPT ![c.cid] = Cleaned[c.cid]]
    [] c.op = "cleanup" -> Cleaned
    [] LoadCall(c) -> [staged EXCEPT ![c.cid] = icSnaps[c.cid].staged]
    [] OTHER -> staged
SnapsAfter(c) ==
  CASE SnapshotCall(c) -> [icSnaps EXCEPT ![c.cid] = [applied |-> applied[c.cid], staged |-> staged[c.cid]]]
    [] c.op = "delete" -> [icSnaps EXCEPT ![c.cid] = None]
    [] OTHER -> icSnaps
Effect(c) ==
  /\ applied' = AppliedAfter(c) /\ maint' = MaintAfter(c) /\ running' = RunningAfter(c)
  /\ staged' = StagedAfter(c) /\ icSnaps' = SnapsAfter(c)

\* What the executor notes in its copy when the call answers.
Noted(r, c) ==
  CASE SnapshotCall(c) -> [r EXCEPT !.snapshots = @ \cup {c.cid}]
    [] c.op = "delete" -> [r EXCEPT !.snapshots = @ \ {c.cid}]
    [] BundleCall(c) -> [r EXCEPT !.batches = @ \cup {c.cid}]
    [] c.op = "start" /\ run.mode = "step" -> [r EXCEPT !.stopped = @ \ {c.cid}]
    [] OTHER -> r
-----------------------------------------------------------------------------
(* The executor *)

Free == run = None /\ rec.outcome = "OPEN"
Doing(mode, end, mem, todo) ==
  [mode |-> mode, end |-> end, mem |-> mem, todo |-> todo, problems |-> FALSE]

\* A tick or execute_action starts (part of) the step at the cursor.
BeginStep ==
  /\ Free /\ Plan[rec.cursor].op # "bake"
  /\ run' = Doing("step", "OPEN", Entering(rec), StepCalls(rec))
  /\ UNCHANGED <<rec, canisters, failures, losses>>

\* _step_bake has no await: it opens the bake window, and is over when it ends.
Bake ==
  /\ Free /\ Plan[rec.cursor].op = "bake"
  /\ \E over \in BOOLEAN :
       rec' = [rec EXCEPT !.windowEnded = TRUE, !.cursor = IF over THEN @ + 1 ELSE @]
  /\ UNCHANGED <<run, canisters, failures, losses>>

CallSucceeds ==
  /\ run # None /\ run.todo # <<>>
  /\ LET c == Head(run.todo) IN
     /\ ~Impossible(c)
     /\ Effect(c)
     /\ run' = [run EXCEPT !.todo = Tail(@), !.mem = Noted(@, c)]
  /\ UNCHANGED <<rec, failures, losses>>

\* A step's raise: what release_step_gen does by where the cursor stands. The
\* preflight tells a stand that changed since the proposal from a failed call.
Raises(op) ==
  IF run.mem.cursor >= WindowFrom THEN {Doing("rollback", "ROLLED_BACK", run.mem, RollbackCalls(run.mem))}
  ELSE {Doing("abandon", "FAILED_STAGING", run.mem, AbandonCalls(run.mem))}
         \cup (IF op = "preflight" THEN {Doing("abandon", "REJECTED_PREFLIGHT", run.mem, <<>>)} ELSE {})

\* Mutant: a call of the rollback that fails is made again.
TroubledRetries(c, rest) ==
  IF c.op \in {"delete_batch", "clear_chunks"} THEN [run EXCEPT !.todo = rest] ELSE [run EXCEPT !.problems = TRUE]

\* A call of the rollback fails: the errors of unstaging and of a backend's stop
\* are ignored, any other is a problem; a frontend's load gives up at the first.
Troubled(c, rest) ==
  IF c.op \in {"delete_batch", "clear_chunks"} THEN [run EXCEPT !.todo = rest]
  ELSE IF c.cid \in Backs THEN [run EXCEPT !.todo = rest, !.problems = (@ \/ c.op # "stop")]
  ELSE [run EXCEPT !.todo = Having(rest, {d \in ToSet(rest) : d.cid # c.cid \/ d.op \notin {"load", "start"}}),
                       !.problems = TRUE]

\* A call answers an error.
CallFails ==
  /\ run # None /\ run.todo # <<>>
  /\ LET c == Head(run.todo)
         rest == Tail(run.todo)
     IN /\ c.op # "cleanup"
        /\ \/ Impossible(c) /\ UNCHANGED failures
           \/ ~Impossible(c) /\ failures < MaxFailures /\ failures' = failures + 1
        /\ \/ c.op = "try_load" /\ run' = [run EXCEPT !.todo = StopLoadStart(c.cid) \o rest]
           \/ c.op # "try_load" /\ run.mode = "step" /\ run' \in Raises(c.op)
           \/ c.op # "try_load" /\ run.mode = "rollback" /\ run' = Troubled(c, rest)
           \/ run.mode \in {"abandon", "discard"} /\ run' = [run EXCEPT !.todo = rest]
  /\ UNCHANGED <<rec, canisters, losses>>

\* The executor has made its calls: it saves its copy, moved on or ended.
EndStep ==
  /\ run # None /\ run.todo = <<>> /\ run.mode = "step"
  /\ rec' = [run.mem EXCEPT !.cursor = @ + 1,
                            !.outcome = IF run.mem.cursor = Len(Plan) THEN "COMPLETE" ELSE @]
  /\ run' = None
  /\ UNCHANGED <<canisters, failures, losses>>

\* Mutant: snapshots are deleted after every rollback.
DiscardAlways ==
  /\ run # None /\ run.todo = <<>> /\ run.mode = "rollback"
  /\ run' = [run EXCEPT !.mode = "discard", !.todo = DeleteCalls(run.mem)]
  /\ UNCHANGED <<rec, canisters, failures, losses>>

\* Snapshots are deleted only after a rollback without problems.
DiscardSnapshots ==
  /\ run # None /\ run.todo = <<>> /\ run.mode = "rollback" /\ ~run.problems
  /\ run' = [run EXCEPT !.mode = "discard", !.todo = DeleteCalls(run.mem)]
  /\ UNCHANGED <<rec, canisters, failures, losses>>

\* Mutant: problems of the rollback are forgotten.
EndIgnoresProblems ==
  /\ run # None /\ run.todo = <<>>
  /\ \/ run.mode \in {"abandon", "discard"}
     \/ run.mode = "rollback" /\ run.problems
  /\ rec' = [run.mem EXCEPT !.outcome = run.end]
  /\ run' = None
  /\ UNCHANGED <<canisters, failures, losses>>

EndRelease ==
  /\ run # None /\ run.todo = <<>>
  /\ \/ run.mode \in {"abandon", "discard"}
     \/ run.mode = "rollback" /\ run.problems
  /\ rec' = [run.mem EXCEPT !.outcome = IF run.problems THEN "NEEDS_ATTENTION" ELSE run.end]
  /\ run' = None
  /\ UNCHANGED <<canisters, failures, losses>>

\* abort_action, once no step is running.
AbortAction ==
  /\ Free
  /\ ~(rec.windowEnded /\ rec.cursor >= Len(Plan))
  /\ run' = IF rec.cursor < WindowFrom /\ rec.touched = {} /\ rec.stopped = {}
            THEN Doing("abandon", "ABORTED", rec, AbandonCalls(rec))
            ELSE Doing("rollback", "ROLLED_BACK", rec, RollbackCalls(rec))
  /\ UNCHANGED <<rec, canisters, failures, losses>>

\* The executor dies; its claim runs out, or the baton's upgrade forgets it.
LoseExecutor ==
  /\ run # None
  /\ losses < MaxLosses /\ losses' = losses + 1
  /\ run' = None
  /\ UNCHANGED <<rec, canisters, failures>>

Next == \/ BeginStep \/ Bake \/ CallSucceeds \/ CallFails \/ EndStep
        \/ DiscardSnapshots \/ EndRelease \/ AbortAction \/ LoseExecutor

Spec == Init /\ [][Next]_vars

\* The baton's timer runs the next step; every call is answered.
FairSpec ==
  /\ Spec
  /\ WF_vars(BeginStep) /\ WF_vars(Bake /\ rec'.cursor # rec.cursor) /\ WF_vars(CallSucceeds \/ CallFails)
  /\ WF_vars(EndStep) /\ WF_vars(DiscardSnapshots) /\ WF_vars(EndRelease)
-----------------------------------------------------------------------------
(* Properties *)

IsOld(m) == applied[m] = {} /\ m \notin maint
IsNew(m) == applied[m] = Parts(m) /\ m \notin maint
AllOld == (\A m \in Member : IsOld(m)) /\ Backs \subseteq running
AllNew == (\A m \in Member : IsNew(m)) /\ Backs \subseteq running

\* Every member moves in lockstep: a release is COMPLETE only when the whole
\* stand runs it.  It holds as long as no executor dies.
CompleteIsNew == rec.outcome = "COMPLETE" => AllNew

\* A release that ended without moving the stand left every member on its old
\* code and content, and every backend running.  It holds as long as no executor dies.
EndedIsOld ==
  rec.outcome \in {"ROLLED_BACK", "ABORTED", "FAILED_STAGING", "REJECTED_PREFLIGHT"} => AllOld

\* "Reloads every snapshot taken and restarts everything (ROLLED_BACK)."  It does not
\* hold (see the README).
RolledBackIsRunning == rec.outcome = "ROLLED_BACK" => running = Member

\* As long as the release is open, or wants attention, whatever it changed on a
\* member can be undone from the member's snapshot.
ChangesAreUndoable ==
  rec.outcome \in {"OPEN", "NEEDS_ATTENTION"} =>
    \A m \in Member : ~IsOld(m) => icSnaps[m] # None

\* A snapshot the rollback would load holds the old release, however often its
\* step was interrupted and run again.
SnapshotsAreOld == \A m \in Member : icSnaps[m] # None => icSnaps[m].applied = {}

\* While the release moves forward no frontend shows new content before every
\* backend runs its new code.
NewFrontOnNewBacks ==
  run # None /\ run.mode = "step" =>
    \A f \in Fronts : applied[f] # {} => \A b \in Backs : IsNew(b) /\ b \in running

\* The release ends.
Ends == <>(rec.outcome # "OPEN")

\* The release implements the atomic one.
Atomic == INSTANCE AtomicRelease WITH
  stand   <- IF AllOld THEN "old" ELSE IF AllNew THEN "new" ELSE "between",
  window  <- rec.cursor >= WindowFrom,
  outcome <- CASE rec.outcome = "OPEN" -> "open"
               [] rec.outcome = "COMPLETE" -> "moved"
               [] rec.outcome = "NEEDS_ATTENTION" -> "attention"
               [] OTHER -> "kept"
ImplementsAtomicRelease == Atomic!Spec
=============================================================================
