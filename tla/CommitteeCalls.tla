--------------------------- MODULE CommitteeCalls ----------------------------
(***************************************************************************)
(* What the committee's actions do to other canisters (executeAction and   *)
(* the functions under it, multisig/src/main.mo).  Multisig is about who   *)
(* lets an action run; here the actions are approved, and several may be   *)
(* under way, each making one call after the other.                        *)
(*                                                                         *)
(* A call about a canister that is gone fails.  Any other call may fail,   *)
(* or succeed and have its reply lost, which looks the same.  Between two  *)
(* calls others may deposit cycles, change a canister's controllers or put *)
(* another module in the store.                                            *)
(***************************************************************************)
EXTENDS Naturals, Sequences, FiniteSets, SequencesExt

CONSTANTS
  Targets,       \* canisters, in the order a proposal names them
  Builds,        \* modules
  Sweeper,       \* the module of sweeper.mo
  Pieces,        \* 1 MiB pieces of a module (splitChunk)
  Admins,        \* controllers besides the committee
  Slots,         \* actions
  Ladder,        \* SWEEP_RESERVE_LADDER
  Funds,         \* cycles of a canister in the beginning
  Floors,        \* what the deposit itself takes a canister to have left
  Iterations,    \* APPLY_ITERATION_CAP
  MaxCallErrors, \* bound: failing calls, lost replies, actions that trap
  MaxOutside     \* bound: what others do to the canisters and the store

Target == ToSet(Targets)

ASSUME LadderAssumption ==
  /\ Ladder \in Seq(Nat) /\ Ladder # <<>>
  /\ \A i \in 2..Len(Ladder) : Ladder[i - 1] < Ladder[i]
ASSUME TargetsAssumption == Targets \in Seq(Target) /\ Targets # <<>>
ASSUME CyclesAssumption == Funds \in Nat /\ Floors \subseteq Nat
ASSUME PiecesAssumption == Pieces \in Nat \ {0} /\ Iterations \in Nat \ {0}
ASSUME SweeperAssumption == Sweeper \notin Builds

VARIABLES
  ic,        \* Target -> the canister
  held,      \* the module under the proposals' key in the store
  doing,     \* Slots -> the action and where it is
  burnt,     \* Target -> cycles deleted with it that were there when it was drained
  errors, outside

committeeVars == <<ic, held, doing, burnt, errors, outside>>

Requests ==
  [kind : {"upgrade"}, t : Target, module : Builds] \cup [kind : {"baton"}, t : Target, module : Builds]
  \cup [kind : {"settings"}, t : Target, add : SUBSET Admins, remove : SUBSET Admins]
  \cup [kind : {"controllers"}, t : Target, to : (SUBSET Admins) \ {{}}]
  \cup [kind : {"destroy"}, ids : {<<t>> : t \in Target} \cup {Targets}]
  \cup [kind : {"sheet", "baton call", "destroy stand", "canister call", "itself"}]

CommitteeInit ==
  /\ ic \in {[t \in Target |-> [code |-> w, cycles |-> Funds, floor |-> f, frozen |-> TRUE, alive |-> TRUE,
                                runs |-> TRUE, chunks |-> {}, admins |-> Admins]] : w \in Builds, f \in Floors}
  /\ held \in Builds
  /\ doing = [q \in Slots |-> [at |-> "free"]]
  /\ burnt = [t \in Target |-> 0]
  /\ errors = 0 /\ outside = 0
-----------------------------------------------------------------------------
(* Calls *)

At(q, at) == doing[q].at = at
Goes(q, r) == doing' = [doing EXCEPT ![q] = r]
\* The action's result; at "ok" or "err" it goes back to runIfApproved.
Returns(q, result) == Goes(q, [at |-> result])
\* r with the fields of more.
With(r, more) == [x \in DOMAIN r \cup DOMAIN more |-> IF x \in DOMAIN more THEN more[x] ELSE r[x]]
On(q, at, more) == With([doing[q] EXCEPT !.at = at], more)

\* One call about t: `after' is what it makes of the canister.
Call(q, t, after, then, otherwise) ==
  /\ \/ /\ ic[t].alive /\ ic' = [ic EXCEPT ![t] = after] /\ then /\ UNCHANGED errors
     \/ /\ ic[t].alive /\ errors < MaxCallErrors /\ errors' = errors + 1
        /\ ic' \in {ic, [ic EXCEPT ![t] = after]}
        /\ otherwise
     \/ /\ ~ic[t].alive /\ otherwise /\ UNCHANGED <<ic, errors>>
  /\ UNCHANGED <<held, burnt, outside>>

\* A call the canister itself refuses as it is.
Refused(q, t, otherwise) ==
  /\ ic[t].alive /\ otherwise /\ UNCHANGED <<ic, errors, held, burnt, outside>>
-----------------------------------------------------------------------------
(* executeUpgradeCanister: the module goes from the store, in pieces, to the *)
(* target's chunk store.                                                   *)

Entire(w) == {<<w, i>> : i \in 1..Pieces}
FromStore(q, then) ==
  \/ held = doing[q].module /\ then /\ UNCHANGED errors
  \/ /\ held # doing[q].module \/ errors < MaxCallErrors
     /\ errors' = IF held # doing[q].module THEN errors ELSE errors + 1
     /\ Returns(q, "err")

\* An upgrade of the committee would leave its own call open.
RefuseItself(q) ==
  /\ At(q, "itself") /\ Returns(q, "err")
  /\ UNCHANGED <<ic, held, burnt, errors, outside>>

\* The sha256 the proposal names is the module's.
ReadStore(q) ==
  /\ At(q, "upgrade")
  /\ FromStore(q, Goes(q, On(q, "clear", <<>>)))
  /\ UNCHANGED <<ic, held, burnt, outside>>

ClearChunks(q) ==
  LET t == doing[q].t
  IN /\ At(q, "clear")
     /\ Call(q, t, [ic[t] EXCEPT !.chunks = {}], Goes(q, On(q, "upload", [piece |-> 1])), Returns(q, "err"))

UploadPiece(q) ==
  LET t == doing[q].t
      i == doing[q].piece
      next == IF i = Pieces THEN "install" ELSE "fetch"
  IN /\ At(q, "upload")
     /\ Call(q, t, [ic[t] EXCEPT !.chunks = @ \cup {<<doing[q].module, i>>}],
             Goes(q, On(q, next, <<>>)), Returns(q, "err"))

\* get_chunk, pinned to the module get_answered with.
FetchPiece(q) ==
  /\ At(q, "fetch")
  /\ FromStore(q, Goes(q, On(q, "upload", [piece |-> doing[q].piece + 1])))
  /\ UNCHANGED <<ic, held, burnt, outside>>

\* Every piece must be there still: an upgrade of the same canister may have cleared it.
InstallPieces(q) ==
  LET t == doing[q].t
      tidy(result) == Goes(q, [at |-> "tidy", t |-> t, result |-> result])
  IN /\ At(q, "install")
     /\ \/ /\ Entire(doing[q].module) \subseteq ic[t].chunks
           /\ Call(q, t, [ic[t] EXCEPT !.code = doing[q].module], tidy("ok"), tidy("err"))
        \/ ~(Entire(doing[q].module) \subseteq ic[t].chunks) /\ Refused(q, t, tidy("err"))
        \/ ~ic[t].alive /\ tidy("err") /\ UNCHANGED <<ic, errors, held, burnt, outside>>

\* The clearing afterwards, whose failure is nobody's concern.
TidyChunks(q) ==
  LET t == doing[q].t
      over == Returns(q, doing[q].result)
  IN At(q, "tidy") /\ Call(q, t, [ic[t] EXCEPT !.chunks = {}], over, over)
-----------------------------------------------------------------------------
(* One call, or a call that reads and one that writes *)

\* UpgradeBaton: the module comes with the proposal.
InstallBaton(q) ==
  LET t == doing[q].t
  IN At(q, "baton") /\ Call(q, t, [ic[t] EXCEPT !.code = doing[q].module], Returns(q, "ok"), Returns(q, "err"))

ReadSettings(q) ==
  LET r == doing[q]
      t == r.t
  IN /\ At(q, "settings")
     /\ \/ r.add \cup r.remove = {} /\ Returns(q, "ok") /\ UNCHANGED <<ic, held, burnt, errors, outside>>
        \/ /\ r.add \cup r.remove # {}
           /\ Call(q, t, ic[t], Goes(q, On(q, "write", [read |-> ic[t].admins])), Returns(q, "err"))

Merged(r) == (r.read \cup r.add) \ r.remove

\* No canister is left without a controller.
WriteSettings(q) ==
  LET r == doing[q]
      t == r.t
  IN /\ At(q, "write")
     /\ \/ Merged(r) = {} /\ Returns(q, "err") /\ UNCHANGED <<ic, held, burnt, errors, outside>>
        \/ Merged(r) # {} /\ Call(q, t, [ic[t] EXCEPT !.admins = Merged(r)], Returns(q, "ok"), Returns(q, "err"))

SetControllers(q) ==
  LET t == doing[q].t
  IN At(q, "controllers") /\ Call(q, t, [ic[t] EXCEPT !.admins = doing[q].to], Returns(q, "ok"), Returns(q, "err"))

\* The answer of one call is the result.
Asks(q, kind) ==
  /\ At(q, kind)
  /\ \E result \in {"ok", "err"} : Returns(q, result)
  /\ UNCHANGED <<ic, held, burnt, errors, outside>>

\* AddCommander, RemoveCommander, SetPolicy: a call of the baton.
AskBaton(q) == Asks(q, "baton call")
\* DestroyStand: the conductor does it (Treasury); today's conductor calls its method
\* stand_destroy, and the call fails.
AskConductor(q) == Asks(q, "destroy stand")
\* CallCanister
AskCanister(q) == Asks(q, "canister call")

\* executeApplySheet: again while the conductor says that something is left, up to
\* the cap; what was applied and then failed is no error.
ApplySheet(q) ==
  LET n == IF At(q, "sheet") THEN 1 ELSE doing[q].n + 1
  IN /\ At(q, "sheet") \/ At(q, "again")
     /\ \/ \E result \in {"ok", "err"} : Returns(q, result)
        \/ IF n < Iterations THEN Goes(q, [at |-> "again", n |-> n]) ELSE Returns(q, "err")
     /\ UNCHANGED <<ic, held, burnt, errors, outside>>
-----------------------------------------------------------------------------
(* destroyCanistersOnIc and drainToTreasury *)

Doomed(q) == Head(doing[q].ids)
\* late: what others deposited since the canister's cycles were read (history).
Draining(q, at) == On(q, at, [rung |-> 1, seen |-> 0, late |-> 0])

\* The canister may be stopped already.
StopDoomed(q) ==
  LET t == Doomed(q)
      next == Goes(q, Draining(q, "thaw"))
  IN At(q, "destroy") /\ Call(q, t, [ic[t] EXCEPT !.runs = FALSE], next, next)

Thaw(q) ==
  LET t == Doomed(q)
  IN At(q, "thaw") /\ Call(q, t, [ic[t] EXCEPT !.frozen = FALSE], Goes(q, On(q, "reinstall", <<>>)), Returns(q, "err"))

InstallSweeper(q) ==
  LET t == Doomed(q)
  IN /\ At(q, "reinstall")
     /\ Call(q, t, [ic[t] EXCEPT !.code = Sweeper, !.chunks = {}], Goes(q, On(q, "start", <<>>)), Returns(q, "err"))

StartSweeper(q) ==
  LET t == Doomed(q)
      next == Goes(q, On(q, "status", <<>>))
  IN At(q, "start") /\ Call(q, t, [ic[t] EXCEPT !.runs = TRUE], next, next)

\* What is at most the reserve may burn.
ReadCycles(q) ==
  LET t == Doomed(q)
      r == doing[q]
      next == IF ic[t].cycles <= Ladder[r.rung] THEN "stop" ELSE "sweep"
  IN /\ At(q, "status")
     /\ Call(q, t, ic[t], Goes(q, On(q, next, [seen |-> ic[t].cycles, late |-> 0])), Returns(q, "err"))

\* Mutant: a canister that does not let itself be swept is deleted all the same.
NextRungOrGone(q) ==
  IF doing[q].rung < Len(Ladder) THEN Goes(q, On(q, "status", [rung |-> doing[q].rung + 1])) ELSE Goes(q, On(q, "stop", <<>>))

NextRung(q) ==
  IF doing[q].rung < Len(Ladder) THEN Goes(q, On(q, "status", [rung |-> doing[q].rung + 1])) ELSE Returns(q, "err")

\* The sweeper deposits what is above the reserve, unless something else was installed
\* meanwhile, it stands still, or too little would be left.
CanSweep(t, amount) ==
  /\ ic[t].code = Sweeper /\ ic[t].runs /\ ~ic[t].frozen
  /\ amount + ic[t].floor <= ic[t].cycles

Sweep(q) ==
  LET t == Doomed(q)
      amount == doing[q].seen - Ladder[doing[q].rung]
  IN /\ At(q, "sweep")
     /\ \/ /\ CanSweep(t, amount)
           /\ Call(q, t, [ic[t] EXCEPT !.cycles = @ - amount], Goes(q, On(q, "stop", <<>>)), NextRung(q))
        \/ ~CanSweep(t, amount) /\ Refused(q, t, NextRung(q))
        \/ ~ic[t].alive /\ NextRung(q) /\ UNCHANGED <<ic, errors, held, burnt, outside>>

StopSwept(q) ==
  LET t == Doomed(q)
      next == Goes(q, On(q, "delete", <<>>))
  IN At(q, "stop") /\ Call(q, t, [ic[t] EXCEPT !.runs = FALSE], next, next)

\* delete_canister burns what is left; only a stopped canister can be deleted.
DeleteCanister(q) ==
  LET t == Doomed(q)
      rest == Tail(doing[q].ids)
      late == doing[q].late
      next == IF rest = <<>> THEN Returns(q, "ok") ELSE Goes(q, [at |-> "destroy", ids |-> rest])
  IN /\ At(q, "delete")
     /\ \/ /\ ic[t].alive /\ ~ic[t].runs
           /\ ic' = [ic EXCEPT ![t].alive = FALSE]
           /\ burnt' = [burnt EXCEPT ![t] = IF ic[t].cycles > late THEN ic[t].cycles - late ELSE 0]
           /\ \/ next /\ UNCHANGED errors
              \/ errors < MaxCallErrors /\ errors' = errors + 1 /\ Returns(q, "err")
        \/ /\ ~ic[t].alive \/ ic[t].runs
           /\ Returns(q, "err") /\ UNCHANGED <<ic, burnt, errors>>
     /\ UNCHANGED <<held, outside>>
-----------------------------------------------------------------------------
(* The committee, and others *)

Start(q) ==
  /\ At(q, "free")
  /\ \E r \in Requests : Goes(q, With(r, [at |-> r.kind]))
  /\ UNCHANGED <<ic, held, burnt, errors, outside>>

\* The action traps, or the committee is upgraded under it.
LoseAction(q) ==
  /\ doing[q].at \notin {"free", "ok", "err"}
  /\ errors < MaxCallErrors /\ errors' = errors + 1
  /\ Returns(q, "err")
  /\ UNCHANGED <<ic, held, burnt, outside>>

Outside == outside < MaxOutside /\ outside' = outside + 1

\* A top-up of the conductor, or of anyone.
Deposit(t) ==
  /\ ic[t].alive /\ Outside
  /\ ic' = [ic EXCEPT ![t].cycles = @ + 1]
  /\ doing' = [q \in Slots |-> IF "late" \in DOMAIN doing[q] /\ Doomed(q) = t
                               THEN [doing[q] EXCEPT !.late = @ + 1] ELSE doing[q]]
  /\ UNCHANGED <<held, burnt, errors>>

\* A baton's grant, or another controller.
OthersSetControllers(t) ==
  /\ ic[t].alive /\ Outside
  /\ \E admins \in (SUBSET Admins) \ {{}} : ic' = [ic EXCEPT ![t].admins = admins]
  /\ UNCHANGED <<held, doing, burnt, errors>>

PutInStore ==
  /\ Outside /\ held' \in Builds \ {held}
  /\ UNCHANGED <<ic, doing, burnt, errors>>

CommitteeNext ==
  \/ \E q \in Slots :
       \/ Start(q) \/ LoseAction(q)
       \/ RefuseItself(q)
       \/ ReadStore(q) \/ ClearChunks(q) \/ UploadPiece(q) \/ FetchPiece(q) \/ InstallPieces(q) \/ TidyChunks(q)
       \/ InstallBaton(q) \/ ReadSettings(q) \/ WriteSettings(q) \/ SetControllers(q) \/ ApplySheet(q)
       \/ AskBaton(q) \/ AskConductor(q) \/ AskCanister(q)
       \/ StopDoomed(q) \/ Thaw(q) \/ InstallSweeper(q) \/ StartSweeper(q) \/ ReadCycles(q) \/ Sweep(q)
       \/ StopSwept(q) \/ DeleteCanister(q)
  \/ \E t \in Target : Deposit(t) \/ OthersSetControllers(t)
  \/ PutInStore
-----------------------------------------------------------------------------
(* Properties *)

\* "If drain fails, do not delete" (orchestration/README.md): whatever other actions
\* do to a canister while it is destroyed, and whichever calls fail, what burns with it
\* is at most the last reserve, besides what came in after its cycles were read.
SweptBeforeDeleted == \A t \in Target : burnt[t] <= Last(Ladder)
=============================================================================
