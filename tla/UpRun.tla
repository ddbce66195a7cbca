-------------------------------- MODULE UpRun --------------------------------
(***************************************************************************)
(* `casals up' (casals_cli/up.py, conductor.py, frontend_bootstrap.py): a   *)
(* process on the operator's machine that creates the conductor's own      *)
(* canisters, funds them, fills the store, hands the sheet to the          *)
(* conductor, waits while it builds, and gives its canisters away.         *)
(*                                                                         *)
(* The process may die between any two of its calls, or a call may fail,   *)
(* which ends it; it is then run again.  What lasts is what is on the IC   *)
(* and the bindings file.  Cycles are counted in tenths of a TC.           *)
(***************************************************************************)
EXTENDS Integers, Sequences, FiniteSets, SequencesExt, FiniteSetsExt

CONSTANTS
  DeclaredKeys,        \* the conductor canisters the sheet declares, in CONDUCTOR_KEYS' order
  Backend, Store, \* two of them; the others are asset canisters
  DEPOSIT, FEE, KEEP,  \* CREATE_DEPOSIT_TC, CREATE_FEE_TC, DEPLOYER_KEEP_TC
  Budget,      \* cycles.budget_tc of the environment, 0 when the sheet has none
  Floor,       \* cycles.conductor_min_balance_tc, which no one compares with the budget
  StoreFloor,  \* the store's min_balance_tc
  Purses,      \* what the deployer may hold in the beginning
  MaxRuns      \* bound: times `up' is run

Key == ToSet(DeclaredKeys)

ASSUME DeclaredKeysAssumption == DeclaredKeys \in Seq(Key) /\ IsInjective(DeclaredKeys) /\ Backend \in Key /\ Store \in Key \ {Backend}
ASSUME FeeAssumption == DEPOSIT \in Nat /\ FEE \in 0..DEPOSIT /\ KEEP \in Nat /\ StoreFloor \in Nat /\ Purses \subseteq Nat
ASSUME LimitsAssumption == Budget \in Nat /\ Floor \in Nat

VARIABLES
  site,      \* Key -> the canister made last for it: [lives, code, cycles, owners]
  file,      \* the keys bound in the bindings file
  artifact,  \* the version of the conductor's modules the sheet names
  purse,     \* the deployer's cycles
  permitted, \* the deployer has Commit on the store
  filled,    \* the store has what the sheet's registry names
  conductor, \* "empty", "building", "failed", "built": how far orchestra_up got
  up,        \* the running process
  started,   \* times it was started
  cut,       \* keys whose canister was made by a process that ended before it was bound (history)
  orphans,   \* keys for which a canister was made anew while one was there (history)
  refused    \* the top-up of a fresh deploy was refused though the preflight's count held (history)

upVars == <<site, file, artifact, purse, permitted, filled, conductor, up, started, cut, orphans, refused>>

Nothing == [lives |-> FALSE, code |-> 0, cycles |-> 0, owners |-> {}]
NoRun == [at |-> "none"]
Deployer == "deployer"
Declared == {"multisig"}   \* a sheet's controllers of the conductor canisters

UpInit ==
  /\ site = [k \in Key |-> Nothing] /\ file = {} /\ artifact = 1
  /\ purse \in Purses /\ permitted = FALSE /\ filled = FALSE /\ conductor = "empty"
  /\ up = NoRun /\ started = 0
  /\ cut = {} /\ orphans = {} /\ refused = FALSE

UpAt(step) == up.at = step
UpGoes(step) == up' = [up EXCEPT !.at = step]
UpEnds == up' = NoRun
InPlace(k) == k \in file /\ site[k].lives /\ site[k].code # 0
Greater(a, b) == IF a > b THEN a ELSE b
-----------------------------------------------------------------------------
(* Funds *)

\* What a conductor that is not there will hold: the deposit less the fee.
Held == IF InPlace(Backend) THEN site[Backend].cycles ELSE DEPOSIT - FEE
ToBudget(have) == IF have >= Floor \/ have >= Budget THEN 0 ELSE Budget - have
ToCreate == {k \in Key : k \notin file}

\* Mutant: the fee is taken for money the conductor will have.
NeededForgetsFee ==
  Cardinality(ToCreate) * DEPOSIT + ToBudget(IF InPlace(Backend) THEN site[Backend].cycles ELSE DEPOSIT) + KEEP

\* funding_needed: the deposits, the conductor's top-up, and what stays.
Needed == Cardinality(ToCreate) * DEPOSIT + ToBudget(Held) + KEEP

\* built: the conductor answers, and says it has built.
Built == conductor = "built" /\ InPlace(Backend)
\* check_funds: a fresh deploy must be funded in full, a resume takes what there is.  A
\* sheet without a budget is not checked.
Strict == Budget > 0 /\ ToCreate # {}
Funded == Needed <= purse \/ ~Strict

\* A built orchestra is left alone, whatever the sheet says.  counted (history): what
\* the preflight counted holds still.
Start ==
  /\ UpAt("none") /\ started < MaxRuns /\ started' = started + 1
  /\ \/ ~Built /\ Funded
        /\ up' = [at |-> "bootstrap", strict |-> Strict, todo |-> DeclaredKeys, bound |-> file,
                    counted |-> \A k \in file : site[k].lives]
     \/ (Built \/ ~Funded) /\ UNCHANGED up
  /\ UNCHANGED <<site, file, artifact, purse, permitted, filled, conductor, cut, orphans, refused>>
-----------------------------------------------------------------------------
(* bootstrap_conductor: each declared canister in its turn *)

Next1 == Head(up.todo)
Bootstrapping(k) == UpAt("bootstrap") /\ up.todo # <<>> /\ Next1 = k
Bootstrapped(k) == [up EXCEPT !.at = "bootstrap", !.todo = Tail(@), !.bound = @ \cup {k}]
\* A binding that names a canister this network never had is no binding.
Existing(k) == k \in up.bound /\ site[k].lives

\* The module is the sheet's already.
SkipCanister(k) ==
  /\ Bootstrapping(k) /\ Existing(k) /\ site[k].code = artifact
  /\ up' = Bootstrapped(k)
  /\ UNCHANGED <<site, file, artifact, purse, permitted, filled, conductor, started, cut, orphans, refused>>

\* ensure_control: there is no committee yet to ask, so a canister given away ends the run.
UpgradeCanister(k) ==
  /\ Bootstrapping(k) /\ Existing(k) /\ site[k].code \notin {0, artifact}
  /\ \/ /\ Deployer \in site[k].owners
        /\ site' = [site EXCEPT ![k].code = artifact]
        /\ up' = Bootstrapped(k)
        /\ file' = IF k \in {Backend, Store} THEN file ELSE up.bound  \* saved with an asset canister
     \/ Deployer \notin site[k].owners /\ UpEnds /\ UNCHANGED <<site, file>>
  /\ UNCHANGED <<artifact, purse, permitted, filled, conductor, started, cut, orphans, refused>>

CreateCanister(k) ==
  /\ Bootstrapping(k) /\ ~Existing(k)
  /\ \/ /\ purse >= DEPOSIT /\ purse' = purse - DEPOSIT
        /\ site' = [site EXCEPT ![k] = [lives |-> TRUE, code |-> 0, cycles |-> DEPOSIT - FEE, owners |-> {Deployer}]]
        /\ orphans' = IF site[k].lives THEN orphans \cup {k} ELSE orphans
        /\ UpGoes("bind")
     \/ purse < DEPOSIT /\ UpEnds /\ UNCHANGED <<purse, site, orphans>>
  /\ UNCHANGED <<file, artifact, permitted, filled, conductor, started, cut, refused>>

\* Mutant: bound once it is installed.
BindLater ==
  /\ UpAt("bind") /\ up' = [up EXCEPT !.at = "install", !.bound = @ \cup {Next1}]
  /\ UNCHANGED <<site, file, artifact, purse, permitted, filled, conductor, started, cut, orphans, refused>>

\* "persist before install: a failure later must not orphan the canister"
Bind ==
  /\ UpAt("bind") /\ up' = [up EXCEPT !.at = "install", !.bound = @ \cup {Next1}]
  /\ file' = up'.bound
  /\ UNCHANGED <<site, artifact, purse, permitted, filled, conductor, started, cut, orphans, refused>>

\* A canister bound by an earlier run, but never installed.
ResumeCanister(k) ==
  /\ Bootstrapping(k) /\ Existing(k) /\ site[k].code = 0
  /\ UpGoes("bind")
  /\ UNCHANGED <<site, file, artifact, purse, permitted, filled, conductor, started, cut, orphans, refused>>

InstallCanister ==
  /\ UpAt("install")
  /\ site' = [site EXCEPT ![Next1].code = artifact]
  /\ UpGoes("own")
  /\ UNCHANGED <<file, artifact, purse, permitted, filled, conductor, started, cut, orphans, refused>>

\* The deployer keeps control; an asset canister is the conductor's too, and saved again.
SetOwners ==
  LET k == Next1
      asset == k \notin {Backend, Store}
  IN /\ UpAt("own")
     /\ site' = [site EXCEPT ![k].owners = IF asset THEN {Deployer, Backend} ELSE {Deployer}]
     /\ up' = Bootstrapped(k)
     /\ file' = IF asset THEN up'.bound ELSE file
     /\ UNCHANGED <<artifact, purse, permitted, filled, conductor, started, cut, orphans, refused>>

SaveBindings ==
  /\ UpAt("bootstrap") /\ up.todo = <<>>
  /\ file' = up.bound /\ UpGoes("fund")
  /\ UNCHANGED <<site, artifact, purse, permitted, filled, conductor, started, cut, orphans, refused>>
-----------------------------------------------------------------------------
(* The rest of _execute_up *)

\* fund_conductor: never more than the deployer can spare; a fresh deploy that cannot
\* reach the floor is refused.
FundConductor ==
  LET have == site[Backend].cycles
      want == ToBudget(have)
      spare == Greater(0, purse - KEEP)
      sent == IF spare < want THEN spare ELSE want
      short == want > 0 /\ spare < Floor - have /\ up.strict
  IN /\ UpAt("fund")
     /\ \/ short /\ UpEnds /\ refused' = (refused \/ up.counted) /\ UNCHANGED <<site, purse>>
        \/ /\ ~short /\ UpGoes("fund_store") /\ UNCHANGED refused
           /\ site' = [site EXCEPT ![Backend].cycles = @ + sent] /\ purse' = purse - sent
     /\ UNCHANGED <<file, artifact, permitted, filled, conductor, started, cut, orphans>>

\* fund_store, from the deployer, whose top-up fails when it has too little.
FundStore ==
  LET want == Greater(0, StoreFloor - site[Store].cycles)
  IN /\ UpAt("fund_store")
     /\ \/ want <= purse /\ site' = [site EXCEPT ![Store].cycles = @ + want] /\ purse' = purse - want /\ UpGoes("permit")
        \/ want > purse /\ UpEnds /\ UNCHANGED <<site, purse>>
     /\ UNCHANGED <<file, artifact, permitted, filled, conductor, started, cut, orphans, refused>>

\* ensure_commit: only a controller can grant the permission to upload.
EnsureCommit ==
  /\ UpAt("permit") /\ UpGoes("upload")
  /\ permitted' = (permitted \/ Deployer \in site[Store].owners)
  /\ UNCHANGED <<site, file, artifact, purse, filled, conductor, started, cut, orphans, refused>>

FillStore ==
  /\ UpAt("upload")
  /\ \/ permitted /\ filled' = TRUE /\ UpGoes("hand_sheet")
     \/ ~permitted /\ UpEnds /\ UNCHANGED filled
  /\ UNCHANGED <<site, file, artifact, purse, permitted, conductor, started, cut, orphans, refused>>

\* orchestra_up: refused when it is built, else the rows are stored and failed stands
\* are pending again. A reply that is lost ends the run, not the build.
HandSheet ==
  /\ UpAt("hand_sheet")
  /\ \/ conductor = "built" /\ UpEnds /\ UNCHANGED conductor
     \/ conductor # "built" /\ conductor' = "building" /\ (UpGoes("wait") \/ UpEnds)
  /\ UNCHANGED <<site, file, artifact, purse, permitted, filled, started, cut, orphans, refused>>

\* wait_built ends with the build, with a stand that failed, or after BUILD_TIMEOUT_S.
WaitBuilt ==
  /\ UpAt("wait")
  /\ \/ conductor = "built" /\ up' = [up EXCEPT !.at = "hand_off", !.todo = DeclaredKeys]
     \/ conductor # "built" /\ UpEnds
  /\ UNCHANGED <<site, file, artifact, purse, permitted, filled, conductor, started, cut, orphans, refused>>

\* hand_off_conductor, then the bindings are saved once more.
HandOff ==
  /\ UpAt("hand_off")
  /\ \/ /\ up.todo # <<>> /\ site' = [site EXCEPT ![Next1].owners = Declared]
        /\ up' = [up EXCEPT !.todo = Tail(@)] /\ UNCHANGED file
     \/ up.todo = <<>> /\ file' = up.bound /\ UpEnds /\ UNCHANGED site
  /\ UNCHANGED <<artifact, purse, permitted, filled, conductor, started, cut, orphans, refused>>
-----------------------------------------------------------------------------
(* What happens to it *)

\* Killed, or a call fails.
Dies ==
  /\ ~UpAt("none") /\ UpEnds
  /\ cut' = IF UpAt("bind") THEN cut \cup {Next1} ELSE cut
  /\ UNCHANGED <<site, file, artifact, purse, permitted, filled, conductor, started, orphans, refused>>

\* The build, on the conductor's own timers, from the conductor's cycles.
Build ==
  /\ conductor = "building" /\ filled
  /\ \/ conductor' \in {"failed", "built"} /\ UNCHANGED site
     \/ /\ site[Backend].cycles >= DEPOSIT /\ UNCHANGED conductor
        /\ site' = [site EXCEPT ![Backend].cycles = @ - DEPOSIT]
  /\ UNCHANGED <<file, artifact, purse, permitted, filled, up, started, cut, orphans, refused>>

\* The sheet names new modules.
NewSheet ==
  /\ UpAt("none") /\ artifact = 1 /\ artifact' = 2 /\ filled' = FALSE
  /\ UNCHANGED <<site, file, purse, permitted, conductor, up, started, cut, orphans, refused>>

\* The deployer uses its cycles for something else.
SpendElsewhere ==
  /\ purse >= DEPOSIT /\ purse' = purse - DEPOSIT
  /\ up' = IF UpAt("none") THEN up ELSE [up EXCEPT !.counted = FALSE]
  /\ UNCHANGED <<site, file, artifact, permitted, filled, conductor, started, cut, orphans, refused>>

\* A local replica is started over: the file names canisters that are not there.
ReplicaStartsOver ==
  /\ UpAt("none") /\ file # {} /\ \E k \in Key : site[k].lives
  /\ site' = [k \in Key |-> Nothing] /\ conductor' = "empty" /\ permitted' = FALSE /\ filled' = FALSE
  /\ UNCHANGED <<file, artifact, purse, up, started, cut, orphans, refused>>

UpNext ==
  \/ Start
  \/ \E k \in Key : SkipCanister(k) \/ UpgradeCanister(k) \/ CreateCanister(k) \/ ResumeCanister(k)
  \/ Bind \/ InstallCanister \/ SetOwners \/ SaveBindings
  \/ FundConductor \/ FundStore \/ EnsureCommit \/ FillStore \/ HandSheet \/ WaitBuilt \/ HandOff
  \/ Dies \/ Build \/ NewSheet \/ SpendElsewhere \/ ReplicaStartsOver
-----------------------------------------------------------------------------
(* Properties *)

\* However often `up' is interrupted and run again, it makes a second canister in place
\* of one that is there only when it died in between making and binding the first.
MadeOnce == orphans \subseteq cut

\* A fresh deploy that passed the preflight can pay for the conductor's floor: it never
\* makes the canisters and then refuses, unless the deployer's cycles went elsewhere, the
\* bindings named canisters the network does not have, or the sheet's floor is above its
\* budget: the preflight counts the budget, fund_conductor insists on the floor, and the
\* sheet's validation takes both as they are.
PreflightIsEnough == Floor <= Budget => ~refused

\* "It is safe to interrupt and re-run at any point: the next `up` continues from
\* whatever the IC already has" (docs/OPERATIONS.md): once an `up' has nothing left to
\* do, the conductor's canisters have their declared controllers.  It does not hold (see
\* the README).
HandedOver ==
  [][started' > started /\ up' = NoRun /\ conductor = "built" => \A k \in Key : site[k].owners = Declared]_upVars
=============================================================================
