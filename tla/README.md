# Casals in TLA+

Casals keeps groups of canisters on the Internet Computer (IC) under one
management. This directory holds TLA+ modules of the parts of it whose order of
events matters, TLC configurations that check them on small instances, and
TLAPS proofs. Paths below are relative to `src/`: `baton/` is
`packages/orchestration/baton/src/`, `multisig/` is
`packages/orchestration/multisig/src/`, the conductor is in `src/` and the
commands are in `casals_cli/`.

    tlc -workers 2 -config baton_pipeline.cfg MCBaton     # a run: its cfg, its module
    tlapm BatonProofs.tla                                 # the proofs of a module

## The execution model

Every component but the commands is a canister: a method runs atomically up to an
`await` (a `yield` of a call in the Python ones) and from one `await` to the next.
Between them any other message may run: another user's call, a timer, an upgrade of
the canister, which drops its main memory, its timers and every suspended call. A
trap in a callback undoes what the callback did, not what was done before the
`await`. A call that fails may have been carried out. The commands are processes on
an operator's machine that may be killed between any two calls and run again. This
is where almost every hard behaviour of Casals comes from, and the modules' actions
are the atomic pieces between awaits.

## Inventory

| Component | State it keeps | Hard behaviour | What makes it correct | Module |
|---|---|---|---|---|
| **Baton: actions and executors** (`baton/main.py`, `action_index.py`, `models.py`) | action records, the open index, the configuration; claims and the timer in main memory | several executors of one action, proposals that await before they file, expiry under a running action, upgrades | one action open at a time; one executor per phase; it keeps driving itself; cursors never go back | `BatonActions` |
| **Baton: approval policy** (`approval_policy.py`, `config.py`, `auth.py`, `policy.py`) | policies, commanders, weights | they change between filing, vote and approval | an approval always meets the policy configured then | `ApprovalPolicy`, `BatonActions` |
| **Baton: stand release** (`release.py`) | the plan, the cursor, snapshots, what was touched | failures in any call including the rollback's, an executor that dies between a call's effect and the record | the whole stand moves or none of it | `StandRelease`, `AtomicRelease` |
| **Baton: managed upgrade** (`pipeline.py`, `smoke.py`) | the upgrade cursor, snapshot references | partial failure, a revert that fails, answers nobody looks at | the canisters end all upgraded or all back | `ManagedUpgrade` |
| **Baton: snapshots, restore** (`snapshots.py`) | the snapshot list | a restore and its undo that fail half-way | its outcome is true | `SnapshotRestore` |
| **Baton: assets and the store** (`assets.py`, `registry.py`) | cursor, pinned manifest | a store that changes under the action | what was approved is what is served | `AssetProvision` |
| **Baton: controller grants** (`controllers.py`) | grant rows, the grant timer | two read-await-write updates of one controller list | due grants go, nobody else does | `ControllerGrants` |
| **Multisig** (`multisig/main.mo`, `types.mo`) | signers, threshold, proposals | approvals while an action runs, signers that change meanwhile, lost continuations | nothing runs twice; never locked out | `Multisig` |
| **Multisig: what its actions do** (`main.mo`, `sweeper.mo`) | nothing of its own | a dozen calls in a row, several actions at once | no canister is deleted before it is swept | `CommitteeCalls` |
| **Conductor: rounds** (`src/rounds.py`) | the queue, the running round, the timer | dropped timers, rounds that outlast the watchdog | one round at a time unless the watchdog gave up on one | `Rounds` |
| **Conductor: building stands** (`up.py`, `stands.py`, `canisters.py`) | stand and canister rows | failures, re-runs, rows that change under a build | built means whole; what is pending gets built or fails | `StandBuilds` |
| **Conductor: content** (`content.py`, `store.py`) | deploys, kept listings | uploads during a deploy of many rounds | done means the bundle is served | `ContentDeploys` |
| **Conductor: canisters** (`canisters.py`, `snapshots.py`, `chain.py`) | canister rows | a rollback that gives up, two requests at once | rows tell what runs, snapshots are known | `CanisterUpgrades` |
| **Conductor: batons** (`batons.py`) | the watermark, the stand's release | syncs that overlap or break off | rows follow the baton | `BatonSync` |
| **Conductor: uploads** (`wasms.py`, `store.py`) | upload permits | begins and ends that overlap, lost records | no permission stays unnoticed | `WasmUploads` |
| **Conductor: permissions** (`auth.py`, `grants.py`, `op.py`) | scopes, grants, access codes | names that are used again, delegation of delegations | nobody gains what nobody had | `Permissions` |
| **Conductor: rows** (`model.py`) | rows, pages, indexes | writes between batches and pages | what is there is found | `RowPages` |
| **Conductor: cycles** (`cycles.py`, `sweeper.py`, `chain.py`) | cycles read and booked | calls that fail under a sweep | cycles come back from what is destroyed | `Treasury` |
| **Conductor: orchestra** (`orchestra.py`, `main.py`) | the monitor, its key | a monitor that changes under a change | only the monitor sees | `OutsideAccess` |
| **CLI: up** (`up.py`, `conductor.py`, `frontend_bootstrap.py`) | the bindings file | it is killed and run again | nothing is made twice, what it begins it can pay | `UpRun` |
| **CLI: publishing** (`registry.py`, `wasm_store.py`, `bundle.py`) | – | two publishers, deaths | the store holds the registry | `Publishing` |
| **CLI: upgrade, release, calls** (`upgrade.py`, `release.py`, `multisig.py`, `ic.py`) | – | retried calls, waiting | its report is true | `Shipping`, `RowPages` |
| **CLI: sheets** (`sheetv2.py`, `normalize.py`, with `up.py`, `canisters.py`, `model.py` of the conductor) | the sheet, the rows made of it | placeholders for canisters that are not made yet, resolved in two places and in any order | who controls what is what the sheet says | `SheetBuilds` |
| **Web frontend, maintenance page, templates, scripts, JSON readers** | – | – | – | not modelled |

How they interact: the commands and the web frontend call the conductor; the
conductor builds stands itself and, once a stand has a baton, proposes releases to
it and follows how they ended; commanders vote at the baton, the multisig is one of
them and may also accelerate an old proposal; the baton drives the canisters through
the management canister and reads the wasms from the store. Each arrow is an
asynchronous call. The modules cut the system at these calls: what is on the other
side may answer, fail or never answer.

## The modules

`…Proofs` modules hold theorems; `MC…` modules give constants values.

| Group | Modules | How they compose |
|---|---|---|
| Baton, who runs | `ApprovalPolicy` ← `BatonActions` ← `MCBaton` | one state machine |
| Baton, a release | `AtomicRelease`; `StandRelease` ← `MCRelease` | `StandRelease` implements `AtomicRelease` under a refinement mapping |
| Baton, what phases do | `CanisterCalls` ← `ManagedUpgrade` ← `SnapshotRestore`; `CanisterCalls` ← `AssetProvision`; both ← `BatonPhases` ← `MCBatonPhases` | actions one after the other over the same canisters |
| Baton, grants | `ControllerGrants` ← `MCControllerGrants` | – |
| Multisig | `Multisig`, `CommitteeCalls` ← `Committee` ← `MCCommittee` | a behaviour is about one of the two |
| Conductor, builds | `Rounds` ← `StandBuilds` ← `MCStandBuilds` | `StandBuilds` opens each round of `Rounds` up |
| Conductor and commands | `Permissions`, `ContentDeploys`, `BatonSync`, `CanisterUpgrades`, `Treasury`, `OutsideAccess`, `WasmUploads`, `RowPages`, `UpRun`, `Publishing`, `Shipping`, `SheetBuilds` ← `ConductorCalls` ← `MCConductorCalls` | a behaviour is about one of them (`part`) |
| Proofs | `DataLemmas` (finite sets, sequences, least elements, ascending order) ← `BatonProofs`, `PhasesProofs`, `CommitteeProofs`, `GrantsProofs`, `StandProofs`, `ReleaseProofs`, `ConductorProofs` | each extends the module it is about; `StandProofs` is about two, `StandBuilds` and `CanisterUpgrades` |

`Ordered` is one operator, the ids of a set in their order: what the conductor's
database and the baton's list give.

`BatonActions` and the modules about releases and phases meet at the executor:
`BatonActions` shows that there is one executor in a phase of an action
(`OneExecutor`), the others assume it and open the phase up. In `ConductorCalls` and
`Committee` the parts share no row and no call, or meet only in the outcome of one
call, which is a choice in each; so interleaving them shows nothing more than
checking them side by side, and `part` keeps one run from being their product.

### BatonActions

*State.* `status`, `votes`, `path`, `progress`, `wake` are the fields of the record,
one function each over `ActionId`; `filing` is what `new_action_record` fixes.
`timer` is `_active_timer`, `inflight` is `_inflight`, `exec` the suspended executors
with the copy of the record each one loaded, `drafts` the proposals suspended before
they file. `now` is the IC's time.

*Actions.* One per entry point. A phase is two: `BeginPhase` (from `TimerTick`,
`ExecuteAction`, `SkipBakeAndComplete`; `AbortAction` has its own) is
`_execute_action_gen` up to its first await, with the expiry, the claim, the cases
that return without an await and the status a phase saves before its calls;
`EndPhase` is what is saved after the last reply, from the executor's *own copy*.
`BeginRevert` is the revert in the middle of a failed upgrade step, `PhaseRaises` an
exception, `LosePhase` a trap or a lost reply. `UpgradeBaton` forgets main memory
and runs `_scan_and_resume`. What a phase does to the canisters is a choice of its
outcomes; the plan of a release is a sequence of stages.

*Left out.* Who may call what beyond being a commander (capabilities are folded into
the weight, the delegation policy and readers are guards of a single call);
`SetCommander` stands for adding, removing and re-adding a commander and allows any
weight at each; the list of managed canisters, reads, `take_snapshot`.

### StandRelease

*State.* `rec` is the saved record (cursor, `touched`, `stopped`, `staged`,
`snapshots`, outcome), `run` the executor: its mode, its copy `mem` and the calls
`todo` it still makes. `applied`, `maint`, `running`, `staged`, `icSnaps` are the
canisters themselves.

*Actions.* `BeginStep` turns the step at the cursor into its calls; `CallSucceeds`
and `CallFails` are the answers, with `Effect` the change of the canister, `Noted`
the change of the copy and `Raises`/`Troubled` the error paths; `EndStep`,
`DiscardSnapshots`, `EndRelease` save the copy; `AbortAction` chooses between
abandoning and rolling back; `LoseExecutor` drops the copy. A call fails without
being counted when it is `Impossible` in the state its canister is in.

*Left out.* Steps that take several messages (chunks of an upload, files of a bundle)
are one call. One release per stand.

### CanisterCalls, ManagedUpgrade, SnapshotRestore, AssetProvision, BatonPhases

The same executor over canisters that are modelled call by call: module, running,
chunk store, snapshots, served files. `FailsOr(cannot)` tells an error out of the blue
(counted) from one the canister's state explains; `Swallows` is an `Err` answer
to a call whose result the code does not look at (`pipeline.py:204`). `BatonPhases`
runs upgrades, restores and provisions one after the other, so what a failed one
leaves behind (stopped canisters, snapshots, mixed versions) the next one finds.

### ControllerGrants

`controllers` is what the IC holds, `rows` the stable rows, `timer` the grant timer.
`grant` and `expiry` are the suspended readers with the list each one read: the executor of
the action, and those of the timer (a grant that ends beside an expiry arms the timer again, so
a second expiry may begin; `Ticks` bounds how many). A write that answers an error was not done,
as the management canister does not do what it refuses; one that is under way when the baton is
upgraded may be done though nobody hears of it. The record stays APPROVED until the calls
are over, so an executor cut short begins again at its first target.

### Multisig, CommitteeCalls

`Multisig` is as in `main.mo`; `calls` are the suspended `runIfApproved`, `runs`
counts how often a proposal's action ran. Of the actions only `ManageSigners` touches
the committee; the others are one call that succeeds or fails. `CommitteeCalls` opens
that call up: `doing` is where each running action waits, `ic` the canisters with
their code, cycles, controllers and chunk stores. A call about a canister that is gone fails, any other may fail
or succeed and have its reply lost. `ApplySheet` and `DestroyStand` call methods the
conductor no longer has: they fail, or whatever answers is an outcome.

### Rounds, StandBuilds

`Rounds` is `rounds.py` with its timers: `queue`, `armed`, `round` (slots for the
token's owner and those given up on), `ticks`, the timers on the IC. A round that
outlasts `WATCHDOG` is `overdue`, a timer past `LOST` is stale. `StandBuilds` gives each round
its `build`: where in `build`/`build_all` it waits. A row a round holds across a call
is one object, so it sees what others wrote. `up`'s failure blames the lowest pending stand, as
the code does.

A canister is found by its name, which `members` derives from its template row and the
stand's name *when it builds* (`src/stands.py:11`). So `Canisters` holds one member for each
template row and each name of its stand (`RowOf`, `NameOf`), and `Members(s)` are those of the
name the stand has now. `StandRename` changes `stand.name` alone: the rows that are there, the members
asked for and the queued job keep the old name. A build after it makes second rows of the
required members, and passes over members asked for under the old name.

Four histories say what the code does not make good: `grown`, stands asked for more under their
build; `haunted`, those a round that was given up worked on when it came back; `astray`,
those renamed before they were built and not scheduled since (by `stand_create`, `stand_grow` or an
upgrade of the conductor); `left`, members asked for that had no row when their stand was
renamed. *Left out:* deleting a stand while it is built; calls on one of its canisters meanwhile; a
rename back to a name the stand had, or to one another stand had; an `orchestra_up` whose sheet still has
the old name of a renamed stand (it would make another one); renaming a canister.

### The conductor's other calls

- `Permissions`: `grant` maps a scope and a principal (or an access code's checksum)
  to permissions. Left out: grants of calls to a canister's methods, the rate limit
  of claims, scopes a sheet brings in, a stand deleted under its build (which is then not standing when
  `stands.py:54` adds its baton's commander).
- `ContentDeploys`: one frontend; `sync` is where each caller waits, `bundles` the
  listings kept in memory. Two deploys at once may end mixed (see below); the
  property excludes them.
- `BatonSync`: the baton runs one action at a time, members have roles one to one,
  and a member's content is part of what it runs. `Wishes` is what may be asked of a
  baton: some members, each with a module. A reader plans its release on the rows it
  has when its sync ends, and files it later. `outOfTurn` (history): an action was
  applied again, by a sync beside another, after a newer one, or an old release settled.
- `CanisterUpgrades`: `hash` is the row, `code` the canister, `crossed` (history)
  a canister two requests were about at once. `keep_newest` lists once (`surplus` is what is
  still to go) and reads the labels before.
- `Treasury`: `balance` and `tank` are the IC's, `gauge` the row. Running costs are
  left out; a sweep at or below the reserve traps, as the sweeper does.
- `OutsideAccess`: `knows` is which keys a monitor ever read. A monitor set before
  keys existed is left out; calls to one canister arrive in order.
- `WasmUploads`: what the store is asked counts when it is asked; `slipped` (history)
  are uploaders whose call failed or whose record an upgrade dropped.
- `RowPages`: one kind of row, one indexed field; `reindex` in batches, `query_all`
  page by page with the page halved at the instruction limit. The database library
  is external.

### SheetBuilds

What a sheet says of controllers and configuration, followed through the four
places that turn it into controllers on the IC.

*State.* `draft` is the sheet in its file. `docket` are the conductor's rows (status,
controllers and configuration with the placeholders nobody resolved yet), `line` and
`standing` the stands in the order of their rows, `jobs` the builds queued, `chaired` and
`upEnded` the orchestra's `multisig_id` and `built_at`. `existing` and `owners` are the
IC's. `sheets`, `configured` and `early` are history: which sheets were handed in, what was
sent to each canister, and who was handed over while others were not made.

*Actions.* `OrchestraUp` is `validate` (`ValidSheet`), `normalize` (`DeclaredRow`,
`TemplateRow`, with `Here` for the tokens the operator's machine resolves) and the
conductor's `orchestra_up` (`Adding`: rows that are there stay as they are).
`StandCreate` makes a stand's rows from the template, `ProvisionOne` and `HandOffOne` are
a round's work on one canister (`StandControllers`, `Lookup`), `BuildEnds` and
`BuildAllEnds` the ends of the two jobs, `UpgradeAndResume` an upgrade of the conductor. A
sheet may be edited between two `up`s.

*Property.* `Means` says what a placeholder stands for, whoever resolves it and when;
`SheetIsKept` that a canister handed over is controlled by what its sheet means
(`ControlledAsDeclared`), stays the committee's (`CommitteeStays`), that the conductor is no
controller of what a baton governs alone (`BatonsGovernAlone`), and that what a canister
is configured with are ids (`ConfiguredWithIds`, but for tokens that are `Loose`).

*Left out.* Install arguments that name a later canister, access-code checksums, adopted
canisters, the rules for content, `$env` and `$orchestra`, the conductor's own
controllers, declared stands in a section that also has a template. How a round
makes its calls is `StandBuilds`.

### The commands

- `UpRun`: `site` is the IC, `file` the bindings file, `up` the process. Cycles are
  counted in tenths of a TC. `Floor` and `Budget` are any two amounts, as the sheet's validation
  compares them with nothing; a run is `Strict` when the budget is above zero and something is to be made.
  Left out: adoption of canisters from elsewhere, registering with a monitor, dry runs.
- `Publishing`: `shelf` is the store, `publisher` each process with the listing it
  took. A batch commits as a whole. A publisher may be killed while its commit is under way, and the
  commit then lands later, also after the next publisher's listing (`LateCommit`), or never.
- `Shipping`: `afloat` is the IC as the command sees it; what the conductor, the
  committee and the baton do with a call is an outcome (`Outcomes`), and `under` are
  the calls given up that may be carried out yet. The baton's actions keep every end they had
  (`ends`), and an action that has ended may come back (`ActReturns`), as `baton_expiry_race` shows. The
  conductor keeps deploys by canister: another operator may deploy other content to the same
  page before, while or after the command does (`OthersDeploy`; `whose` is the bundle of the kept record,
  `served` whether ours was deployed, `crossed` that another's deploy was under way while a
  command waited). Uploading is `Publishing`.

## The runs

| Run | Question | Instance |
|---|---|---|
| `baton_pipeline` | Is one action open at a time, does it keep driving itself, does its cursor only advance? | 2 actions of the kinds that leave APPROVED before their first await, 2 executors, 1 suspended proposal, 1 fault, 1 upgrade |
| `baton_governance` | Does every approval by votes meet the policy configured at that moment? | 3 commanders of weights 0–2, several policies, overrides, 2 changes |
| `baton_liveness` | Does an approved action end, with one executor in a phase, and no phase of an unapproved or expired action? | 1 action of every kind that runs by phases, 2 executors, 2 faults, 1 upgrade, fairness with an operator |
| `release_failures` | Does the release move all or nothing, are its changes undoable, and does it implement `AtomicRelease`? | 2 frontends, 2 backends, up to 5 failing calls, aborts anywhere |
| `release_losses` | Do snapshots stay old when executors die, and does the release end? | the same, 2 failures, 2 lost executors, fairness |
| `committee` | Is the committee able to decide, does nothing run twice, is nothing deleted unswept? | 3 principals, 2 proposals, 4 signer changes, 1 loss; 2 running actions on 2 canisters, a two-rung reserve ladder, 1 failing call, 1 change by others |
| `phases_failures` | Do upgrades, restores and provisions say the truth about the canisters, and is there a way back while one runs? | 2 actions of the three kinds one after the other, 2 canisters, 2 files, 2 failing calls, 1 unnoticed, 1 lost executor |
| `grants` | Do the base controllers stay, are grantees on record, do due rows go? | 2 canisters, 2 actions, 2 expiries under way at once, 3 times, 1 failing call, 1 upgrade, fairness |
| `stand_builds` | One round at a time; does built mean whole; does everything pending get built or fail? | a sheet's stand that can grow and one people create, 3 template rows under 2 names each, 2 rounds under way, 1 fault, 2 builds asked for, 1 rename or upgrade, fairness |
| `conductor_calls` | Per part: one property each, two for some (below) | two of each, one failing call or loss of each part |
| `baton_expiry_race` | *violated:* a release expires under its preflight | 2 releases |
| `retry_refused` | *violated:* an install whose reply is lost refuses every retry | 1 fault, 2 builds asked for |

`conductor_calls` checks twelve parts in one run; a property of a part is about the
states of that part, the others do not move. `GrantsAddNoPowers`, `NobodyInheritsAScope`:
2 people, a code, 2 names for sections and stands, 2 grants, one section or stand created or renamed and any deleted. `DoneServesTheBundle`: 2
namespaces, 2 paths, one file a round, 2 uploads. `RowsFollowBaton`: 2 members, 2
actions, 2 syncs at once. `RowsAreTrue` (`RowsTellTheCode` and `SnapshotsAreKnown`): 2 canisters,
2 requests at once, one snapshot kept. `DestroyPaysBack`: 2 canisters, 2 clerks, one amount.
`OnlyTheMonitor`: 2 monitors, 2 changes. `SheetIsKept`: 6 sheets (one not valid, one without
a committee, one without a baton, hand-over to a baton together with the conductor and
alone, an alias of the conductor, a role called by its kind, an optional member), one edit,
one stand people create, one failure or upgrade. `PermitsAreOnRecord`: 2
uploaders, 2 calls at once, 6 in all. `RowsAreFound`: 4 rows, batches and pages of 2.
`MadeOnce`, `PreflightIsEnough`: 3 starts of `up`, purses below, at and above what is
needed. `PublishedExactly`: 2 publishers, 2 files. `ReportsAreTrue`: 2 canisters whose
keepers may differ, 2 ships, one of these: a transient error, a command given up, an action brought back,
a deploy of another operator. `PublishedExactly` includes a killed publisher's late commit.

*Why the bounds are enough.* Times are as small as the comparisons need: an action can
be younger, as old as and older than `ExpiryAge`, a claim can be held, and have run
out. Races need two: two executors, requests, syncs, publishers, changes under way at
once. A batch, page or round takes at most half of the data, so something can
happen between the first and the last. `Batches = 1` gives a first and a last batch. In
the release a frontend gets both parts and another only a bundle, both backends a wasm;
five failures are a failing step, the failing first load of the rollback with its
fallback, and another member's. In `committee` two proposals are the one whose
signers change and the one that changes them, with three principals so that a committee
of two can gain and lose one. The clock, faults, changes, upgrades, failures, losses and
calls are bounded by guards named `Max…`; the theorems hold for every value of those in
the modules they are about. Amounts, changes of the monitor, scopes made and actions of a baton are as few as
the mutants need where a theorem covers every number (`DestroyPaysBack`, `OnlyTheMonitor`,
`NobodyInheritsAScope`, `GrantsAddNoPowers`, `RowsFollowBaton`); the parts were also run alone with more. This is how two actions were
found to be too few in `BatonSync` (below): 3 actions, 2 syncs and 2 wishes are 1.5 million
states without a violation now.

*Deadlock.* Only liveness could tell a system that is done from one that is stuck here:
a baton with nothing to do and the clock at its bound stops, so does a release that has
ended, a committee with every proposal decided, a stand that is built. So no
run checks for deadlock, and the runs with fairness ask that what is begun ends.

*What properties leave out.* Where the code gives up a promise, the property says when, by
a history variable or a bound it names, so that what is left is still a statement about
every other behaviour. What happens then is under "Where the code and its documents part".

| Property | Leaves out |
|---|---|
| `OneExecutor` and those about order | a call that outlasts its claim (`SlowCalls`), so the case after five minutes of `baton/main.py:338` is not caught |
| `TrackedUnlessOverlapped` | two executors under way together, a grant and an expiry or two expiries: exactly the lost update of `baton/controllers.py:173` |
| `BuiltIsWhole` | `grown` and `haunted` stands; members a rename left without a row (`left`) |
| `PendingIsCovered`, `BuildsSettle` | `haunted` stands; stands renamed before they were built and not asked for since (`astray`) |
| `RowsTellTheCode` | `crossed` canisters, those put back on a snapshot, a way back that failed too |
| `SnapshotsAreKnown` | `crossed` canisters, a failed call |
| `DestroyPaysBack` | calls that drop a row by design and leave the canister (`canister_delete`, a stand deleted) are no part of the model |
| `RowsFollowBaton` | an action applied out of turn |
| `DoneServesTheBundle` | a second deploy to the same frontend |
| `PermitsAreOnRecord` | uploaders of a failed call or under an upgrade (`slipped`) |
| `UpgradeEndsWhole` | an `Err` nobody looked at, a lost executor |
| `MadeOnce` | a death between making and binding |
| `PreflightIsEnough` | other spending; bindings of canisters the network does not have; a floor above the budget |
| `PublishedExactly` | a publisher beside another, or beside the commit of a killed one that may still land |
| `ReportsAreTrue` | an end that is reported need not be the action's last; a page another operator deployed to while the command waited (`crossed`) |
| `SheetIsKept` | what is handed over before all is made (`early`), where it says so; roles called by kind (`ByName`) |

### Fairness

- `BatonActions!FairSpec`: a due timer fires, the replies of a phase come
  (the IC answers every call, and weak fairness leaves the `LosePhase` and `PhaseRaises`
  the bound allows), time passes. Nobody is obliged to call.
- `PumpedSpec` adds an operator who keeps calling `execute_action`. It is needed: an
  exception in a phase leaves neither timer nor new status (`baton/main.py:498`), and
  the baton alone then waits for an upgrade or an operator. `SelfDriving` states what
  holds *without* the operator: as long as nothing raised or was lost, an action under way has
  its timer or an executor.
- `StandRelease!FairSpec`: the timer runs the next step, every call is answered, the bake
  window ends.
- `ControllerGrants!FairSpec`: time passes, the timer fires when it is due, calls of
  both executors are answered. Nobody is obliged to propose.
- `StandBuilds!FairSpec`: an armed timer fires unless the IC drops it, a round's call is answered
  unless the round is lost, a lost round's watchdog runs out, and now and then somebody makes
  *some* update call. That is needed, and all the code relies on: every update call begins with
  `kick` (`src/op.py`, `src/rounds.py:33`), which is what notices a dropped timer.

## Where the code and its documents part

Two runs show it:

- `baton_expiry_race`: a release (and a grant) is still APPROVED while its first phase awaits, so
  it can be swept to EXPIRED and another action filed; the phase's end brings it
  back and two are open (`baton/main.py:569` against `docs/OPERATIONS.md:188`).
- `retry_refused`: `provision` installs with `reinstall` only when the row has a hash, which is
  written after the last answer. An install that was done and whose reply was lost is
  asked for again as a fresh install, which a canister with code refuses, at every retry
  (`src/canisters.py:49` against `docs/OPERATIONS.md:292` and `src/stands.py:136`).

Five more can be run by giving a configuration these constants and the one property:

- *A call outlasts its claim.* `OneExecutor` with `SlowCalls = TRUE`: the claim expires
  after five minutes and is not renewed while a phase makes several calls
  (`baton/main.py:338` against the baton's `README.md:117-120`).
- *Lost, then aborted.* `StandRelease!EndedIsOld` with `MaxLosses = 1`: `touched` is saved only
  with the step's end, so after a lost `maintenance_on` an abort leaves the page up and
  reports ABORTED or ROLLED_BACK (`baton/release.py:781`).
- *Lost in an abort's rollback.* `CompleteIsNew` with `MaxLosses = 1`: an abort saves nothing
  before or in its rollback; if its executor dies, the plan goes on over rolled-back
  members to COMPLETE (`baton/main.py:1309`).
- *Left stopped.* `RolledBackIsRunning` with `MaxFailures = 3`: `_load_snapshot`'s fallback
  stops a frontend; if it fails half-way the rollback loads the snapshot at the first
  try and returns before the `start` (`baton/release.py:1070`).
- *Filed twice.* `FiledOnce` of `ShippingSpec` with `MaxActs = 2`: a proposal whose answer is lost is
  made again (`casals_cli/ic.py:23-30` and `docs/OPERATIONS.md:106-109` call repeating it safe).

Three more are definitions of their modules that TLC violates in `conductor_calls.cfg` or
with the bound named:

- *Not once.* `EachOnce` of `BatonSync`: "`baton_sync` replays the baton's completed actions
  (each once)" (`docs/RELEASES.md:113-115`). A sync takes the watermark, awaits the list, and
  applies each action behind another await, so two that overlap apply one twice and the
  watermark goes back (`src/batons.py:351`, `:378`). With `MaxActions = 3` a sync that listed one action
  re-applies it between the second and third of the other's: the rows then lack the second
  although the watermark says the third. `RowsFollowBaton` used to say that this cannot be; with
  two actions it never is.
- *Handed over first.* `KeepsTheMultisig` of `SheetBuilds`: "every stand canister, quarters included,
  keeps the orchestra's multisig as a controller" (`src/canisters.py:67`). While the multisig's own
  creation has failed its id is not known, `stand_controllers` leaves it out, and a
  stand people create meanwhile is handed over without it.
- *Built first.* `MadeBeforeBuilt` of `SheetBuilds`: "`up` creates every stand's canisters before it
  builds any stand" (`src/up.py:94`). It makes those of the *pending* stands: a stand people made that failed before its
  canisters were all made is passed over, and those before it in line are built without it.

And these are behaviours of the models that some property therefore excludes:

- A baton's `manages`, and `$stand.<role>` in a template, may call a backend or frontend by its
  kind when the sheet is checked (`sheetv2.py:419`), but `normalize.manages` and the conductor's
  `lookup` go by names only: such a member is not given to the baton, and the word stays in its
  configuration (`docs/SHEET.md:127` "`kind` also counts").
- A valid sheet may hold words nobody resolves: `$multisig` without a `governance` block, a
  `$canister` that is retired, an alias of another canister, an optional member that was not
  asked for (`docs/SHEET.md:239`: "a placeholder that names nothing … is a validation error"). In a row's
  controllers such a word fails the hand-over, in its configuration it is sent as it is.
- `"sole"` is said to leave the members with the Baton only (`docs/SHEET.md:139`);
  `stand_controllers` adds the committee as well.
- A sheet edited between two `up`s changes no row the first one stored (`src/up.py:66`).
- An `up` round that outlasts its watchdog in `share_status` comes back after
  `orchestra_up` has made a failed stand pending again, and declares the orchestra built: nothing is
  queued for that stand then (`src/up.py:131`; needs `MaxFaults = 2`, `MaxRetries = 4` to see).

- `drainToTreasury` reinstalls before it sweeps, so a destroy that fails afterwards has
  not left the canister "intact" (multisig `README.md:17`, `multisig/main.mo:270`).
- A revert whose `Err` nobody looks at, or whose executor dies, leaves a mixture of
  versions under REVERTED (`baton/pipeline.py:346`).
- An expiry that writes back a list it read before a grant, or the other way round, leaves a
  grantee without a row or a row without its grantee (`baton/controllers.py:173`). So may two expiries:
  a grant that ends arms the timer while the first is still at work (`baton/main.py:671-688`).
- `casals upgrade --release --wait` stops at the first end it reads. A release that is swept to
  EXPIRED under its first phase is reported "expired" and may complete afterwards (`casals_cli/release.py:458-471`,
  `baton/main.py:569`).
- `casals upgrade --content` polls the deploy of a *canister*, so when another operator deploys other content to
  it meanwhile, its row may tell of theirs (`casals_cli/upgrade.py:224-227`, `src/content.py:85`).
- A sheet whose `conductor_min_balance_tc` is above its `budget_tc` is valid (`casals_cli/sheetv2.py:1233-1244`).
  The preflight counts the budget only and lets it pass, and `fund_conductor` then refuses for the
  floor, after the canisters were made (`casals_cli/up.py:89`, `:180`). With a budget of zero the preflight
  checks nothing (`casals_cli/up.py:111`), and no run is strict.
- Two content deploys to one frontend end mixed (`src/content.py:105`).
- An older release settled after a newer action was applied takes the rows back (`src/batons.py:282`).
- Restoring a snapshot does not touch the row's hash (`src/canisters.py:219`).
- A stand grown under its build is marked built without its new member (`src/stands.py:56`).
- A stand renamed before it is built is stranded: its job goes by the old name, so `find` raises in
  the build and again in `build_failed`, and the stand stays pending until somebody asks for it again or the conductor is
  upgraded (`src/stands.py:41`, `:69`).
- After a rename, members asked for under the old name are no longer among `members()`: one that has
  no row yet is never made, and the stand is marked built all the same; and a rebuild makes second rows,
  and canisters, of the members a stand always has (`src/stands.py:11-27`).
- `up` after a death past the build finds the orchestra built and skips the hand-off
  (`casals_cli/up.py:361` against `docs/OPERATIONS.md:103-104`; `HandedOver`).
- The committee's `DestroyStand` and `ApplySheet` call conductor methods that do not exist
  (`multisig/main.mo:771`, `:353`); `docs/OPERATIONS.md` still describes the latter.
- Two publishers at once may leave a mixture, as may the commit of a killed one that lands after the next
  publisher has listed the store; the next one that is alone puts it right (`casals_cli/bundle.py`, `casals_cli/registry.py`).
- A conversion of ICP whose notify is lost is not notified again (`src/chain.py:217-222`).
- A delete whose reply is lost leaves a row nothing can destroy (`src/canisters.py:107`).
- An upgrade of the conductor drops the record of upload permits (`src/wasms.py:36`).
- `set_config` keeps the keys it stored before the one it refuses (`baton/main.py:960-998`);
  re-adding a commander resets its capabilities (`baton/policy.py:63-69`), and an empty
  `may_grant_to` means everyone (`baton/policy.py:56`).

This is why the theorems about order assume `~SlowCalls` and the kinds that leave APPROVED
at once, and why `CompleteIsNew` and `EndedIsOld` are checked without losses.

## What is proved

Every theorem is about the specification of its module with its constants left open: any
number of commanders, canisters, calls under way, faults, losses and any bound. The
named `ASSUME`s say what the code validates or what a constant stands for: policies are well
formed, a claim lasts, sets of canisters are finite, the members of a release are
given once, a value that stands for "none" is none of the others. TLC evaluates them in
the runs.

| Theorem | Says | Needs |
|---|---|---|
| `BatonProofs!StricterIsEnough` | votes that meet a stricter policy meet the laxer | – |
| `BatonProofs!TypeCorrect` | `TypeOK` | – |
| `ClaimsKeepExecutorsApart` | `OneExecutor` | `~SlowCalls` |
| `GrantsNeedVotes`, `ConfiguredPolicyHolds`, `OnlyApprovedStart` | `GrantsAreVoted`, `VotesMeetConfiguredPolicy`, `StartsApprovedAndFresh` | – |
| `OneOpenAction`, `EndedForGood`, `CursorsOnlyAdvance`, `RestoresBeginOnce` | `AtMostOneOpen`, `TerminalIsFinal`, `ProgressNeverLost`, `RestoreBeginsOnce` | `~SlowCalls`, no releases or grants |
| `ActionsDriveThemselves` | `SelfDriving` | the same |
| `PhasesProofs!PhasesTyped`, `UpgradesEndWhole`, `WayBackStays` | `TypeOK`, `UpgradeEndsWhole`, `WayBackExists` | – |
| `RestoresTellTheTruth`, `ProvisionsServeApproved` | `RestoreOutcomeIsTrue`, `ProvisionedAsApproved` | – |
| `CommitteeProofs!TypeCorrect`, `NeverLockedOut`, `RunsOnce`, `DecidedOnce`, `QuorumSends` | `TypeOK`, `CommitteeCanDecide`, `RunsMatchOutcome`, `DecisionIsFinal`, `SentWithQuorum` | – |
| `DeletedWhenSwept` | `SweptBeforeDeleted` | – |
| `GrantsProofs!TypeCorrect`, `BaseControlsForGood`, `GrantsAreTracked` | `TypeOK`, `BaseStays`, `TrackedUnlessOverlapped` | – |
| `StandProofs!TypeCorrect`, `RoundsDoNotOverlap`, `NothingLeftPending` | `TypeOK`, `OneRoundAtATime`, `PendingIsCovered` | – |
| `BuiltStandsAreWhole` | `BuiltIsWhole` | – |
| `RowsStayTrue`, with `ConductorProofs!CanistersAreApart` | `RowsAreTrue` | – |
| `ReleaseProofs!TypeCorrect`, `LoadsOldOnly` | `TypeOK`, `SnapshotsAreOld` | – |
| `WhatIsChangedIsUndoable`, `NewFrontsWait`, `OutcomesAreTrue` | `ChangesAreUndoable`, `NewFrontOnNewBacks`, `CompleteIsNew /\ EndedIsOld` | `MaxLosses = 0` |
| `ReleaseIsAtomic` | `ImplementsAtomicRelease`, the refinement | `MaxLosses = 0` |
| `ConductorProofs!UploadersAreOnRecord` | `PermitsAreOnRecord` | – |
| `GrantsAreAtScopes`, `PowersAreHandedDown` | `NobodyInheritsAScope`, `GrantsAddNoPowers` | – |
| `CanistersAreMadeOnce`, `PreflightSuffices` | `MadeOnce`, `PreflightIsEnough` | – |
| `ShownToTheMonitor` | `OnlyTheMonitor` | – |
| `DestroyedPaysBack` | `DestroyPaysBack` | – |
| `RowsCatchUp` | `RowsFollowBaton` | – |
| `PublisherPutsRight` | `PublishedExactly` | – |
| `RowsAreAllFound` | `RowsAreFound` | – |
| `DoneIsWhole` | `DoneServesTheBundle` | – |
| `WhatIsReportedIsTrue` | `ReportsAreTrue` | – |

Those about `GrantsAreVoted`, `TerminalIsFinal`, `RestoreBeginsOnce`, `DecisionIsFinal`,
`SentWithQuorum` and the type invariants make a run of the property unnecessary. The two
hypotheses are the two findings they stand beside: with slow calls, or with an executor lost in
the middle of a release, the properties are false and TLC shows it (above).

The arguments, by the inductive invariant and why the property alone is not one:

- *Claims* (`Claimed`): every suspended executor's claim is still in the future and no
  two are in one action. `OneExecutor` alone is not inductive: the claim is what refuses the
  second. `~SlowCalls` is used in `Tick` only.
- *Approval* (`Approved`): an unapproved action has no approval path, an open one past PENDING
  has one, and so has the action of a suspended executor. That a quorum of an override meets the configured
  policy is `StricterIsEnough`, by the monotonicity of the weight (a cardinality of tokens).
- *Order* (`InStep`): under `Claimed`, a suspended executor's action is still running
  and at the very cursor it loaded, so its late save is no rollback. Each reply needs that nobody
  else moved the action, which `Claimed` gives, and that no sweep expired it,
  which the kinds give: they leave APPROVED before their first await.
- *Driving* (`Driven`): while no phase has raised or lost its reply, a claim that has not run out is some
  executor's, and an action under way has an executor or the timer. The property alone does
  not say why a tick or a hand-pumped phase that is refused may let go of the timer: it is refused
  for a live claim, so there is somebody whose reply arms it again.
- *What phases do* (`PhasesInv` of `PhasesProofs`): the outcome an action ends with is decided by
  calls made long before, so the invariant says of every position of an executor what the
  calls it has left still have to bring about, and what those behind it have: which canisters run the new wasm and
  which the old, which snapshot stands for which state, and what the record says of that.
  A failed or lost call is where the two come apart, and the invariant keeps
  them apart by what the executor will do on its answer.
- *The committee's sweeps* (`SweptInv`): between its status and the sweep a canister holds no more than
  was read and what came since; from the sweep on no more than the rung of the reserve and what
  came since. The rung may only rise, and the last is the highest.
- *Multisig* (`IInv`): every suspended run belongs to one executing proposal, holds exactly
  its approvals and knows whether the action has run; ids from `nextId` on are free.
- *Grants* (`BaseKept`, `TrackKept`): the list an executor read before its await, and will write
  back with one change, still holds the base, and none of the executors, of whatever number, is about to take one of the
  base out, because no row names one. While only one of them is under way the list it read *is* the
  canister's list; that is what a second executor beside it, a grant or an expiry, breaks.
- *Rounds* (`RoundsInv`): at most one round counts as running, one that is alive and does not was
  overdue, and the queue holds a job once.
- *Builds* (`IInv` of `StandProofs`): where a round waits fits the job it is for (`RoundFits`); there
  is an `up` only once somebody called it; and while the last part of `up` waits
  (`share_status`), whatever is unbuilt has a job in the queue (`ShareWaits`): that
  round is the one that ends `up` without looking again. It is a step of a round given
  up that breaks this, hence `haunted`. A job is a stand *and a name*, so a rename before the build
  breaks it too, until the stand is asked for or resumed under its new name: hence `astray`.
- *What is built* (`WholeInv`): for each status a canister passes, what it says is already so of the chain
  (`RowTrue`: created, filled, its files sent, handed over), and where the running round waits says how much of its
  stand is done (`FarAsBuilt`), so that the last step, which calls the stand built, follows rounds that
  made every member ready. That what a stand always has is there goes by template row, since a rename leaves
  canisters under the old name; and a build that is still to begin under the stand's present name, while it is
  built or being built, adds no row (`RowsDue`). A round that was given up still moves rows, hence `haunted`.
- *A release.* The plan is not computed but characterised: every step has a rank (`Rank`), the plan is sorted
  by it (`PlanOrder`) and holds exactly the steps its members call for, for every
  sequence of frontends and backends. So a cursor says which steps were made. `Inv` then says what an executor may still
  call in its mode (`CallsOK`) and that a member whose snapshot is not taken is
  untouched; that is all snapshots need, also when executors die. `Safe` adds what the record notes
  of the steps made (`StepsNoted`), that the calls left to a rollback undo what was changed, and what the outcomes
  mean. For the refinement each action maps to a step of `AtomicRelease` or a stutter, by what it
  does to `AllOld` and `AllNew`.
- *Uploads*: the property is inductive with the types; each call of the store gives the permission only
  with the visit that will put it on record.
- *Permissions*: every grant is to somebody at a scope there is, and templates grant at scopes of
  the stand they make; a rename moves what a delete drops. That nobody gains a power is a
  property of each step under it.
- *`up`* (`UpInv`): what was made is bound in the file, or the process died in between
  (`MadeIsKnown`); what the purse and the conductor hold covers what is still to be made
  (`FundsLast`), a sum over the keys not made that each creation lowers by one.
- *The monitor* (`ViewersWillFollow`): a canister that shows its logs to another monitor than
  the one set is on the list of a call that will tell it.
- *Cycles*: a canister about to be deleted has no more than the reserve and what was
  deposited since it was swept.
- *Rows and the baton* (`RowsSay`, `ReaderSound`): for each member, what it runs is what the newest completed action about
  it set, and its row what the newest applied one set; what a reader has yet to apply ascends and leaves nothing
  out above the watermark it began with, unless another sync moved beside it.
- *The store* (`PublishInv`, `JobIsRight`): beside a publisher that is alone nobody publishes, and no
  commit of a killed one is still to land, and
  what it has behind it is right already, by the listing it took.
- *Pages* (`Indexed`, `ListedSoFar`): up to the backfill's cursor, and wherever a row was written since, the index has what
  the row has; what a list has read so far is in ascending order and has every row up to its
  cursor that was there throughout.
- *Content* (`ContentInv`): while a deploy is alone, nobody else changes the frontend, and what
  it has not yet put or deleted is exactly what differs from the listing it compares with, which the store held.
- *Shipping* (`ShipInv`): the IC only moves `Further`: the modules that ran, the proposals and actions
  filed and the ends an action had only grow, also when it comes back (`Onward`), and another's deploy
  begins under a waiting command only as `crossed` (`Calm`). So a row once true stays true; and a command that waits knows which proposal and action it filed, that
  the proposal is about the canister it has in hand, and what it has seen of its status.
- *Canisters* (`GovernedInv`): two requests about one canister are both only about crossed ones (`Apart`), so
  what a request read it still has: the snapshots it would go back to are there with the code
  they were taken of (`StillHas`). Of each canister `Says` has how far its code, row and
  snapshots are along the operation. A request on its way back means that a call failed; one failure more
  is what `RowsTellTheCode` excludes.

Only model-checked: everything that is liveness under fairness, `ENABLED` (`EventuallyEnds`, `Ends`,
`DueRowsGo`, `BuildsSettle`), which the prover does not do. Not proved, though in its reach:
`SheetIsKept`, whose operators are the largest of the project. Induction over data is
out of reach as a schema, but most of what was needed is had otherwise: a set of numbers has a least element
(`DataLemmas`), cardinalities give the i-th element of an ascending order, and a fold over
a sequence is unfolded where the library has its step (`FlattenSeq`). No recursive operator is used in a module
with a theorem.

## Not modelled

- *Text*: the form of a sheet, and its rules besides those about controllers, batons and
  placeholders (`casals_cli/sheetv2.py`), `config.py`, `json_parse.mo`, the payload checks of the
  baton and the conductor but for what they reject by the state.
- *Process and network I/O of `ic.py`* besides its retries and paging; the frontends, the HTTP views,
  aliases, scripts, templates and the site under `docs/philosophy` (`build.py` typesets a text).
- *The database library* (`ic_python_db`) and the IC itself: external; the modules state what
  the code relies on (atomic messages, timers that may be dropped, calls that are answered or lost).
- *Single calls that only check and store*: aliases, contacts, policies of sections and canisters, the
  list of managed canisters.
- *Not yet:* deleting a stand under its build, and single calls on a canister under its build
  (`canister_create`, `canister_start`, `canister_stop`, `canister_controllers`): they set the status the build goes by.

## Plan

1. `SheetIsKept`: the invariant is that what a row's controllers and configuration come to
   (`Means`) is always what its sheet means, however much of it has been resolved.
2. `Multisig` against an abstract committee.
3. Two releases in a row on one stand (a proposed batch left behind), deletes and single calls under a build.
