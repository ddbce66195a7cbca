-------------------------- MODULE CanisterUpgrades ---------------------------
(***************************************************************************)
(* What the conductor does to the canisters it controls once they are      *)
(* built: canister_upgrade of src/canisters.py moves a canister or a whole *)
(* stand to a module and takes it back when one of them fails,             *)
(* canister_snapshot and canister_restore are one canister's, and          *)
(* keep_newest of src/snapshots.py prunes after either.                    *)
(*                                                                         *)
(* Each is one message with a call at every step, and nothing keeps two of *)
(* them apart.  Any call may fail, whether or not what it asked for was    *)
(* done; the exception ends the operation where it is.                     *)
(***************************************************************************)
EXTENDS Naturals, Sequences, FiniteSets, FiniteSetsExt, SequencesExt, Ordered

CONSTANTS
  Governed,     \* 1..n: a stand's canisters the conductor controls
  Builds,       \* modules
  Requests,     \* operations that may be under way
  Keep,         \* snapshots_keep
  MaxTaken,     \* bound: snapshots taken
  MaxFailed     \* bound: calls that fail

ASSUME GovernedAssumption == Governed \subseteq Nat /\ IsFiniteSet(Governed) /\ Governed # {} /\ Keep \in 1..9

VARIABLES
  code,      \* Governed -> the module installed
  shots,     \* Governed -> its snapshots on the IC, the newest first
  taken,     \* how many were taken, which numbers them
  hash,      \* Governed -> wasm_hash of its row
  labels,    \* Governed -> snapshots its row has a label for
  request,   \* Requests -> where it waits
  failed,
  crossed,   \* history: canisters of requests that were about one at once
  restored,  \* history: canisters put back on a snapshot
  newest     \* history: Governed -> the last of its snapshots that got a label

canisterVars == <<code, shots, taken, hash, labels, request, failed, crossed, restored, newest>>

\* todo: canisters still to be done; back: those with a snapshot to go back to, and
\* what their row said; kept, surplus: the labels keep_newest read before its calls, and
\* the snapshots it has yet to delete after the one it deletes.
NoRequest == [at |-> "idle", about |-> {}, w |-> CHOOSE b \in Builds : TRUE, todo |-> <<>>, back |-> <<>>, shot |-> 0,
              kept |-> {}, surplus |-> <<>>]
At(q, at) == request[q].at = at
About(c) == {q \in Requests : c \in request[q].about}
This(q) == Head(request[q].todo)
Shot(c) == [id |-> taken + 1, code |-> code[c]]
ShotOf(c, id) == CHOOSE s \in ToSet(shots[c]) : s.id = id
Has(c, id) == \E s \in ToSet(shots[c]) : s.id = id
Dropped(all, id) == RemoveAt(all, CHOOSE i \in DOMAIN all : all[i].id = id)

CanistersInit ==
  /\ code = [c \in Governed |-> NoRequest.w]  \* as good as any
  /\ hash = code
  /\ shots = [c \in Governed |-> <<>>] /\ taken = 0 /\ labels = [c \in Governed |-> {}]
  /\ request = [q \in Requests |-> NoRequest] /\ failed = 0
  /\ crossed = {} /\ restored = {} /\ newest = [c \in Governed |-> 0]
-----------------------------------------------------------------------------
Begins(q, about, next) ==
  /\ At(q, "idle")
  /\ request' = [request EXCEPT ![q] = next]
  /\ LET beside == UNION {About(c) : c \in about}
     IN crossed' = crossed \cup UNION {request[p].about \cup about : p \in beside}
  /\ UNCHANGED <<code, shots, taken, hash, labels, failed, restored, newest>>

\* canister_upgrade, of a canister or of a stand.
BeginUpgrade(q) ==
  \E T \in {{c} : c \in Governed} \cup {Governed}, w \in Builds :
    Begins(q, T, [NoRequest EXCEPT !.at = "take", !.about = T, !.w = w, !.todo = Ascending(T)])

BeginSnapshot(q) ==
  \E c \in Governed : Begins(q, {c}, [NoRequest EXCEPT !.at = "snapshot", !.about = {c}, !.todo = <<c>>])

\* canister_restore, to a snapshot a reader was shown.
BeginRestore(q) ==
  \E c \in Governed : \E s \in ToSet(shots[c]) :
    Begins(q, {c}, [NoRequest EXCEPT !.at = "restore", !.about = {c}, !.todo = <<c>>, !.shot = s.id])

\* What the call under way does, when it is done.
CallDone(q) ==
  LET c == This(q)
      at == request[q].at
  IN /\ code' = CASE at = "install" -> [code EXCEPT ![c] = request[q].w]
                  [] at = "load" -> [code EXCEPT ![c] = ShotOf(c, Head(request[q].back).id).code]
                  [] at = "restore" -> [code EXCEPT ![c] = ShotOf(c, request[q].shot).code]
                  [] OTHER -> code
     /\ shots' = CASE at \in {"take", "snapshot"} -> [shots EXCEPT ![c] = <<Shot(c)>> \o @]
                   [] at \in {"delete", "prune"} -> [shots EXCEPT ![c] = Dropped(@, request[q].shot)]
                   [] OTHER -> shots
     /\ taken' = IF at \in {"take", "snapshot"} THEN taken + 1 ELSE taken
     /\ restored' = IF at = "restore" THEN restored \cup {c} ELSE restored

\* Snapshots that are gone can be neither loaded nor deleted.
Impossible(q) ==
  \/ At(q, "load") /\ ~Has(This(q), Head(request[q].back).id)
  \/ At(q, "restore") /\ ~Has(This(q), request[q].shot)
  \/ (At(q, "delete") \/ At(q, "prune")) /\ ~Has(This(q), request[q].shot)

Answer(q, at) == At(q, at) /\ ~Impossible(q) /\ CallDone(q) /\ UNCHANGED <<failed, crossed>>
Goes(q, next) == request' = [request EXCEPT ![q] = next]

\* A snapshot of every target is taken before the first is installed.
TakeShot(q) ==
  /\ taken < MaxTaken /\ Answer(q, "take")
  /\ LET r == request[q]
         back == Append(r.back, [c |-> This(q), hash |-> hash[This(q)], id |-> taken'])
     IN Goes(q, IF Len(r.todo) > 1 THEN [r EXCEPT !.todo = Tail(@), !.back = back]
                ELSE [r EXCEPT !.at = "install", !.todo = [i \in DOMAIN back |-> back[i].c], !.back = back])
  /\ UNCHANGED <<hash, labels, newest>>

InstallBuild(q) ==
  /\ Answer(q, "install") /\ Goes(q, [request[q] EXCEPT !.at = "status"])
  /\ UNCHANGED <<hash, labels, newest>>

RollBack(q) == [request[q] EXCEPT !.at = "load", !.todo = [i \in DOMAIN request[q].back |-> request[q].back[i].c]]

\* keep_newest of the canisters todo, with the labels as they are now: the first is
\* given its own, and its snapshots are listed.
KeepNewest(q, todo, now) ==
  LET c == Head(todo)
      mine == {b.id : b \in {x \in ToSet(request[q].back) : x.c = c}}
  IN IF todo = <<>> THEN labels' = now /\ Goes(q, NoRequest) /\ UNCHANGED newest
     ELSE /\ labels' = [now EXCEPT ![c] = @ \cup mine]
          /\ newest' = [newest EXCEPT ![c] = Max(mine \cup {@})]
          /\ Goes(q, [request[q] EXCEPT !.at = "list", !.todo = todo, !.kept = labels'[c]])

CheckBuild(q) ==
  LET r == request[q]
      c == This(q)
  IN /\ Answer(q, "status")
     /\ \/ /\ code[c] = r.w /\ hash' = [hash EXCEPT ![c] = r.w]
           /\ IF Len(r.todo) > 1 THEN Goes(q, [r EXCEPT !.at = "install", !.todo = Tail(@)]) /\ UNCHANGED <<labels, newest>>
              ELSE KeepNewest(q, [i \in DOMAIN r.back |-> r.back[i].c], labels)
        \/ code[c] # r.w /\ UNCHANGED <<hash, labels, newest>> /\ Goes(q, RollBack(q))

LoadShot(q) ==
  /\ Answer(q, "load")
  /\ Goes(q, [request[q] EXCEPT !.at = "delete", !.shot = Head(request[q].back).id])
  /\ UNCHANGED <<hash, labels, newest>>

\* Mutant: the rows of a rolled back upgrade are left as they are.
RolledBackHere(q) == hash

\* The row says again what it said.
RolledBack(q) == [hash EXCEPT ![This(q)] = Head(request[q].back).hash]

DropShot(q) ==
  /\ Answer(q, "delete") /\ hash' = RolledBack(q)
  /\ LET r == request[q]
     IN Goes(q, IF Len(r.todo) > 1 THEN [r EXCEPT !.at = "load", !.todo = Tail(@), !.back = Tail(@)] ELSE NoRequest)
  /\ UNCHANGED <<labels, newest>>

\* canister_snapshot: the row is labelled, and keep_newest begins.
SnapshotTaken(q) ==
  /\ taken < MaxTaken /\ Answer(q, "snapshot")
  /\ labels' = [labels EXCEPT ![This(q)] = @ \cup {taken'}]
  /\ newest' = [newest EXCEPT ![This(q)] = taken']
  /\ Goes(q, [request[q] EXCEPT !.at = "list", !.kept = labels'[This(q)]])
  /\ UNCHANGED hash

SnapshotRestored(q) == Answer(q, "restore") /\ Goes(q, NoRequest) /\ UNCHANGED <<hash, labels, newest>>
-----------------------------------------------------------------------------
(* keep_newest *)

\* Mutant: the oldest are kept.
SurplusNewest(all) == SubSeq(all, 1, Len(all) - Keep)

\* All but the newest.
Surplus(all) == SubSeq(all, Keep + 1, Len(all))

\* The labels are written back when the last is deleted.
KeepNext(q, surplus) ==
  LET r == request[q]
  IN IF surplus = <<>> THEN KeepNewest(q, Tail(r.todo), [labels EXCEPT ![This(q)] = r.kept])
     ELSE /\ Goes(q, [r EXCEPT !.at = "prune", !.shot = Head(surplus), !.kept = @ \ {Head(surplus)}, !.surplus = Tail(surplus)])
          /\ UNCHANGED <<labels, newest>>
Ids(all) == [i \in DOMAIN all |-> all[i].id]
ListShots(q) == Answer(q, "list") /\ KeepNext(q, Surplus(Ids(shots[This(q)]))) /\ UNCHANGED hash
PruneShot(q) == Answer(q, "prune") /\ KeepNext(q, request[q].surplus) /\ UNCHANGED hash
-----------------------------------------------------------------------------
\* A call fails. Only install and its check are tried; the rest ends the request.
RequestFails(q) ==
  /\ ~At(q, "idle")
  /\ \/ Impossible(q) /\ UNCHANGED <<code, shots, taken, restored, failed>>
     \/ /\ ~Impossible(q) /\ failed < MaxFailed /\ failed' = failed + 1
        /\ \/ UNCHANGED <<code, shots, taken, restored>>
           \/ taken < MaxTaken /\ CallDone(q)
  /\ Goes(q, IF At(q, "install") \/ At(q, "status") THEN RollBack(q) ELSE NoRequest)
  /\ UNCHANGED <<hash, labels, crossed, newest>>

CanistersNext ==
  \E q \in Requests :
    \/ BeginUpgrade(q) \/ BeginSnapshot(q) \/ BeginRestore(q)
    \/ TakeShot(q) \/ InstallBuild(q) \/ CheckBuild(q) \/ LoadShot(q) \/ DropShot(q)
    \/ SnapshotTaken(q) \/ SnapshotRestored(q) \/ ListShots(q) \/ PruneShot(q)
    \/ RequestFails(q)

CanistersSpec == CanistersInit /\ [][CanistersNext]_canisterVars
-----------------------------------------------------------------------------
(* Properties *)

Settled(c) == About(c) = {} /\ c \notin crossed

\* The row of a canister says the module it runs, once what was asked of it is over,
\* whichever call failed and however many canisters it went back over; unless the way
\* back failed too, two requests were about it at once, or it was put back on a snapshot.
RowsTellTheCode == \A c \in Governed : Settled(c) /\ c \notin restored /\ failed <= 1 => hash[c] = code[c]

\* Once what was asked of a canister is over, it has no more snapshots than it keeps,
\* its row knows what took each, and the last that was taken and not put back is one of
\* them, however many operations took and pruned.
SnapshotsAreKnown ==
  \A c \in Governed : Settled(c) /\ failed = 0 =>
    /\ Len(shots[c]) <= Keep /\ labels[c] = {s.id : s \in ToSet(shots[c])}
    /\ newest[c] # 0 => newest[c] \in labels[c]

\* What the conductor keeps about a canister is what the management canister has.
RowsAreTrue == RowsTellTheCode /\ SnapshotsAreKnown
=============================================================================
