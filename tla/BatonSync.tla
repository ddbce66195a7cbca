------------------------------ MODULE BatonSync ------------------------------
(***************************************************************************)
(* How the conductor follows a stand's baton (src/batons.py).  The baton   *)
(* upgrades, releases and restores the members on its own timers; the      *)
(* conductor's rows, which say what every member runs, learn of it later:  *)
(* baton_sync applies the completed actions filed since the last one it    *)
(* applied, baton_release_settle one release.  Both read the baton before  *)
(* they write, so two of them may be under way together.                   *)
(*                                                                         *)
(* The baton is what BatonActions is about.  Here it runs one action at a  *)
(* time, in the order they are filed, and what fails leaves things as they *)
(* were.                                                                   *)
(***************************************************************************)
EXTENDS Naturals, Sequences, FiniteSets, FiniteSetsExt, Functions, SequencesExt, Ordered

CONSTANTS
  Members,      \* of the stand, without its baton
  Modules,      \* what they may run
  Wishes,       \* what people ask for: members, and what each is to run
  Readers,      \* calls of baton_sync, baton_release_settle, baton_propose_release
  MaxActions    \* bound: actions filed

ASSUME ModulesAssumption == Modules # {}
ASSUME WishesAssumption == Wishes \subseteq UNION {[T -> Modules] : T \in (SUBSET Members) \ {{}}}

VARIABLES
  actions,   \* what the baton was asked for, in the order filed
  runs,      \* Members -> the module installed
  wasm,      \* Members -> the module in its row
  release,   \* the stand's row: the release it is on, 0 for none
  synced,    \* baton_synced: the action last applied, 0 for none
  reader,    \* Readers -> where it waits
  outOfTurn  \* history: a release was settled after a newer action had completed, or a sync
             \* beside which others applied actions passed over one they had gone back to

syncVars == <<actions, runs, wasm, release, synced, reader, outOfTurn>>

\* to: the targets' modules; pinned: what a release says the other members, too, run
\* until then.
Action == [kind : {"upgrade", "release", "restore"}, to : UNION {[T -> Modules] : T \in SUBSET Members},
           pinned : [Members -> Modules], status : {"open", "COMPLETE", "FAILED"}]

\* since: what the row said when the sync began, until the list is read; beside (history): another sync has
\* applied an action since.
Gone == [at |-> "idle", since |-> 0, todo |-> <<>>, beside |-> FALSE, proposes |-> FALSE, rows |-> <<>>]
Reading(r, at) == reader[r].at = at
Open == \E i \in DOMAIN actions : actions[i].status = "open"
Over(f, g) == [m \in DOMAIN f |-> IF m \in DOMAIN g THEN g[m] ELSE f[m]]

SyncInit ==
  /\ actions = <<>>
  /\ runs = [m \in Members |-> CHOOSE w \in Modules : TRUE]  \* as good as any
  /\ wasm = runs
  /\ release = 0 /\ synced = 0 /\ reader = [r \in Readers |-> Gone] /\ outOfTurn = FALSE
-----------------------------------------------------------------------------
(* The baton *)

Filed(a) ==
  /\ ~Open /\ Len(actions) < MaxActions
  /\ actions' = Append(actions, a)

Ended(status) == actions' = [actions EXCEPT ![Len(actions)].status = status]

\* The preflight of a release compares every member with its pin.
BatonCompletes ==
  /\ Open /\ (Last(actions).kind = "release" => Last(actions).pinned = runs)
  /\ Ended("COMPLETE") /\ runs' = Over(runs, Last(actions).to)
  /\ UNCHANGED <<wasm, release, synced, reader, outOfTurn>>

\* Refused, declined, expired, or put back.
BatonFails ==
  /\ Open /\ Ended("FAILED") /\ UNCHANGED runs
  /\ UNCHANGED <<wasm, release, synced, reader, outOfTurn>>
-----------------------------------------------------------------------------
(* Proposals *)

\* propose: filed, with the conductor's vote, whatever the rows say.
Propose(kind, to) ==
  /\ Filed([kind |-> kind, to |-> to, pinned |-> runs, status |-> "open"])
  /\ UNCHANGED <<runs, wasm, release, synced, reader, outOfTurn>>

\* baton_propose_upgrade and _content; the committee's proposals are taken alike.
ProposeUpgrade == \E to \in Wishes : Propose("upgrade", to)

\* baton_propose_restore, to what the snapshots of the members hold.
ProposeRestore == \E to \in Wishes : Propose("restore", to)

\* baton_abort: nothing is changed yet, or it is put back.
AbortRelease ==
  /\ Open /\ Last(actions).kind = "release"
  /\ Ended("FAILED") /\ UNCHANGED <<runs, wasm, release, synced, reader, outOfTurn>>

\* release_plan, of a release that names members by their roles (every member has one of
\* its own): those whose row is not on the release's module yet, and what
\* the rows say of all of them.
Changed(spec, rows) == {m \in DOMAIN spec : spec[m] # rows[m]}
Plans(rows) ==
  {[to |-> Restrict(spec, Changed(spec, rows)), pinned |-> rows] : spec \in {s \in Wishes : Changed(s, rows) # {}}}

\* The reader's sync is over; a release is planned in the same message, by the rows of then.
Synced(r, rows) ==
  IF reader[r].proposes
  THEN IF Plans(rows) = {} THEN {Gone} ELSE {[Gone EXCEPT !.at = "propose", !.rows = rows]}
  ELSE {Gone}

\* baton_propose_release, once the bundles of the plan are read.
ProposeRelease(r) ==
  /\ Reading(r, "propose")
  /\ \E plan \in Plans(reader[r].rows) :
       Filed([kind |-> "release", to |-> plan.to, pinned |-> plan.pinned, status |-> "open"])
  /\ reader' = [reader EXCEPT ![r] = Gone]
  /\ UNCHANGED <<runs, wasm, release, synced, outOfTurn>>
-----------------------------------------------------------------------------
(* Reading *)

BeginSync(r) ==
  /\ Reading(r, "idle")
  /\ \E proposes \in BOOLEAN : reader' = [reader EXCEPT ![r] = [Gone EXCEPT !.at = "list", !.since = synced, !.proposes = proposes]]
  /\ UNCHANGED <<actions, runs, wasm, release, synced, outOfTurn>>

\* Mutant: as the baton lists them, the newest first.
NewestFirst(found) == Reverse(Ascending(found))
InOrder(found) == Ascending(found)

\* actions_since, those COMPLETE: what a reader is to apply, in the order filed.
Completed == {i \in DOMAIN actions : actions[i].status = "COMPLETE"}
ListActions(r) ==
  LET found == {i \in Completed : i > reader[r].since}
  IN /\ Reading(r, "list")
     /\ \/ found # {} /\ reader' = [reader EXCEPT ![r].at = "apply", ![r].since = 0, ![r].todo = InOrder(found)]
        \/ found = {} /\ \E next \in Synced(r, wasm) : reader' = [reader EXCEPT ![r] = next]
     /\ UNCHANGED <<actions, runs, wasm, release, synced, outOfTurn>>

\* The reader moves on; those that sync beside it are told (history).
MovesOn(r, next) ==
  reader' = [q \in Readers |-> IF q = r THEN next
                              ELSE IF reader[q].at \in {"list", "apply"} THEN [reader[q] EXCEPT !.beside = TRUE]
                              ELSE reader[q]]

\* get_action answers, and its action is applied.
ApplyAction(r) ==
  LET i == Head(reader[r].todo)
      a == actions[i]
      rest == Tail(reader[r].todo)
  IN /\ Reading(r, "apply")
     /\ wasm' = Over(wasm, a.to)
     /\ release' = IF a.kind = "release" THEN i
                   ELSE IF a.kind = "restore" \/ wasm' # wasm THEN 0 ELSE release
     /\ synced' = i
     /\ outOfTurn' = (outOfTurn \/ (reader[r].beside /\ \E j \in Completed : synced < j /\ j < i))
     /\ \/ rest # <<>> /\ MovesOn(r, [reader[r] EXCEPT !.todo = rest])
        \/ rest = <<>> /\ \E next \in Synced(r, wasm') : MovesOn(r, next)
     /\ UNCHANGED <<actions, runs>>

\* baton_release_settle: the rows follow a release that is COMPLETE, and no more is said.
BeginSettle(r) ==
  /\ Reading(r, "idle")
  /\ \E i \in DOMAIN actions : actions[i].kind = "release" /\ reader' = [reader EXCEPT ![r] = [Gone EXCEPT !.at = "settle", !.todo = <<i>>]]
  /\ UNCHANGED <<actions, runs, wasm, release, synced, outOfTurn>>

SettleRelease(r) ==
  LET i == Head(reader[r].todo)
  IN /\ Reading(r, "settle") /\ reader' = [reader EXCEPT ![r] = Gone]
     /\ IF actions[i].status = "COMPLETE"
        THEN wasm' = Over(wasm, actions[i].to) /\ release' = i
        ELSE UNCHANGED <<wasm, release>>
     /\ outOfTurn' = (outOfTurn \/ \E j \in Completed : j > i)
     /\ UNCHANGED <<actions, runs, synced>>

\* A call fails, or the conductor is upgraded: what was applied stays.
ReadFails(r) ==
  /\ ~Reading(r, "idle") /\ reader' = [reader EXCEPT ![r] = Gone]
  /\ UNCHANGED <<actions, runs, wasm, release, synced, outOfTurn>>

SyncNext ==
  \/ BatonCompletes \/ BatonFails
  \/ ProposeUpgrade \/ ProposeRestore \/ AbortRelease
  \/ \E r \in Readers :
       ProposeRelease(r) \/ BeginSync(r) \/ ListActions(r) \/ ApplyAction(r)
       \/ BeginSettle(r) \/ SettleRelease(r) \/ ReadFails(r)
-----------------------------------------------------------------------------
(* Properties *)

LastDone == IF Completed = {} THEN 0 ELSE Max(Completed)

\* Once the last action the baton completed has been applied, the rows say what the
\* members run, whichever syncs overlapped or broke off, unless one was out of turn.
RowsFollowBaton == synced = LastDone /\ ~outOfTurn => wasm = runs

\* "`baton_sync` replays the baton's completed actions (each once)" (docs/RELEASES.md):
\* the watermark never goes back. It does not hold (see the README).
EachOnce == [][synced' >= synced]_syncVars
=============================================================================
