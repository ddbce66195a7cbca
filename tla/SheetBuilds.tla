----------------------------- MODULE SheetBuilds ------------------------------
(***************************************************************************)
(* From a sheet to who controls what: `validate' and the placeholders of   *)
(* casals_cli/sheetv2.py, the document `normalize' makes of it, the rows   *)
(* orchestra_up stores (src/up.py), and the hand-over of each canister     *)
(* (src/stands.py, hand_off of src/canisters.py, resolve of src/model.py). *)
(*                                                                         *)
(* A sheet speaks of canisters that do not exist yet.  Some of its         *)
(* placeholders are resolved on the operator's machine, the others by the  *)
(* conductor when it uses them, with what it knows by then; one it does    *)
(* not know stays as it is.  How a round makes its calls is StandBuilds';  *)
(* here a canister is made in one step and handed over in another.  A      *)
(* sheet is what it says of controllers and configuration.                 *)
(***************************************************************************)
EXTENDS Naturals, Sequences, FiniteSets, SequencesExt

CONSTANTS
  Drafts,      \* sheets the operator may write, as records (see Arrangement, Said)
  Quarters,    \* stands people create from the template
  NoSheet,
  MaxDrafts,   \* bound: times the sheet is rewritten
  MaxBroken    \* bound: canisters that are not made, and upgrades of the conductor

(* Placeholders, and principals *)

SELF == <<"$self">>
DEPLOYER == <<"$deployer">>
THIS == <<"$this">>
MULTISIG == <<"$multisig">>
CanisterOf(n) == <<"$canister", n>>
StandRole(role) == <<"$stand", role>>
PrincipalOf(alias) == <<"$principal", alias>>
IdOf(n) == <<"id", n>>
Person(p) == <<"person", p>>

\* A canister is known by its stand and its role there.
Casals == IdOf(<<"conductor", "backend">>)
Chair == <<"governance", "multisig">>
TheDeployer == Person("deployer")
IsPrincipal(t) == t[1] \in {"id", "person"}

VARIABLES
  draft,      \* the sheet in its file
  sheets,     \* the sheets orchestra_up stored rows from (history)
  outline,    \* the sheet whose template the section has
  docket,     \* canister -> its row; `from' is the sheet it comes from (history)
  existing,   \* canisters that have an id
  owners,     \* canister -> its controllers
  configured, \* canister -> what it was configured with (history)
  line,       \* the stands, in the order of their rows
  standing,   \* stand -> "pending", "failed" or "built"
  jobs,       \* builds that are queued: "up", or a stand people made
  chaired,    \* o.multisig_id is set
  upEnded,    \* o.built_at is set
  early,      \* canisters handed over while others of the orchestra were not made (history)
  drafts, broken

deskVars == <<draft, sheets, outline, chaired, upEnded, drafts>>
standVars == <<docket, existing, owners, configured, line, standing, jobs, early, broken>>
sheetVars == <<deskVars, standVars>>
-----------------------------------------------------------------------------
(* Stands of a sheet: plans *)

Everybody == {"*"}
NoPlan == [members |-> <<>>, handOff |-> "absent", manages |-> {}, operated |-> FALSE]
Roles(plan) == DOMAIN plan.members

\* stand_member: by name, else a backend or a frontend by its kind.
StandMember(plan, role) ==
  LET alike == {r \in Roles(plan) \ {"baton"} : plan.members[r].kind = role}
  IN IF role \in Roles(plan) THEN {role} ELSE IF alike = {} THEN {} ELSE {CHOOSE r \in alike : TRUE}

\* baton_manages, by which a sheet is judged.
BatonManages(plan) ==
  IF plan.manages = Everybody THEN Roles(plan) \ {"baton"} ELSE UNION {StandMember(plan, r) : r \in plan.manages}

\* manages of normalize.py, by which it is carried out: names only.
Manages(plan, role) ==
  IF plan.manages = Everybody THEN role # "baton" ELSE role \in plan.manages

HandsOff(plan) == plan.handOff \in {"co", "sole"}
Kept(plan) == {r \in Roles(plan) : ~plan.members[r].retired}

\* Every canister a sheet names outside its template, retired ones included.
Names(d) ==
  {<<"conductor", "backend">>} \cup (IF d.governance # {} THEN {Chair} ELSE {})
  \cup UNION {{s} \X Roles(d.stands[s]) : s \in DOMAIN d.stands}
-----------------------------------------------------------------------------
(* validate *)

\* _check_placeholder.
Checked(d, plan, t) ==
  /\ t = DEPLOYER /\ d.production => \E a \in DOMAIN d.principals : d.principals[a] = DEPLOYER
  /\ t[1] = "$principal" => t[2] \in DOMAIN d.principals
  /\ t[1] = "$canister" => t[2] \in Names(d)
  /\ t[1] = "$stand" => StandMember(plan, t[2]) # {}

\* _validate_canister and _check_raw_principals: a baton is the committee's, never the conductor's.
ValidMember(d, plan, role) ==
  LET m == plan.members[role]
  IN /\ m.controllers # {}
     /\ role = "baton" => SELF \notin m.controllers /\ MULTISIG \in m.controllers
     /\ \A t \in m.controllers \cup m.config : ~IsPrincipal(t) /\ Checked(d, plan, t)

\* _validate_baton: policy for a baton that is there and that Casals operates; what it is
\* to govern alone does not list the conductor.
ValidBaton(plan) ==
  plan.handOff # "absent" =>
    /\ "baton" \in Roles(plan) /\ plan.operated
    /\ plan.handOff = "sole" => \A r \in BatonManages(plan) : SELF \notin plan.members[r].controllers

\* _validate_lockout_self_only, which looks at the stands a sheet declares.
NotItselfOnly(s, plan) ==
  \A r \in Roles(plan) : plan.members[r].controllers \notin {{CanisterOf(<<s, r>>)}, {THIS}}

ValidPlan(d, plan) == ValidBaton(plan) /\ \A r \in Roles(plan) : ValidMember(d, plan, r)

\* validate, for one environment.
ValidSheet(d) ==
  /\ \A s \in DOMAIN d.stands : ValidPlan(d, d.stands[s]) /\ NotItselfOnly(s, d.stands[s])
  /\ ValidPlan(d, d.template)
  /\ \A t \in d.governance : ~IsPrincipal(t) /\ Checked(d, NoPlan, t)
  /\ d.governance \notin {{CanisterOf(Chair)}, {THIS}}
-----------------------------------------------------------------------------
(* normalize *)

\* _resolve_token on the operator's machine, which knows no canister but the conductor:
\* an alias is followed to a principal, and stays where it leads to another canister.
Told(d, t) ==
  IF t = SELF THEN Casals ELSE IF t = DEPLOYER THEN TheDeployer ELSE t
Here(d, t) ==
  IF t[1] = "$principal" /\ IsPrincipal(Told(d, d.principals[t[2]])) THEN Told(d, d.principals[t[2]])
  ELSE IF t = MULTISIG THEN CanisterOf(Chair) ELSE Told(d, t)

\* bind_stand_roles: a declared stand's roles become names.
Bound(s, plan, t) ==
  IF t[1] = "$stand" /\ StandMember(plan, t[2]) # {}
  THEN CanisterOf(<<s, CHOOSE r \in StandMember(plan, t[2]) : TRUE>>) ELSE t

Tokens(plan, role) == plan.members[role].controllers \cup plan.members[role].config

\* canister: what the baton governs gets it as a controller, and is announced to it.
Governs(plan, role) == HandsOff(plan) /\ Manages(plan, role)
Row(d, plan, role, baton, says) ==
  LET Resolved(T) == {says[t] : t \in T}
      m == plan.members[role]
  IN [status |-> "created", from |-> d,
      controllers |-> Resolved(m.controllers) \cup (IF Governs(plan, role) THEN {baton} ELSE {}),
      config |-> Resolved(m.config) \cup (IF Governs(plan, role) THEN {baton, THIS} ELSE {})]

ChairRow(d) == [status |-> "created", from |-> d, controllers |-> {Here(d, t) : t \in d.governance}, config |-> {}]

DeclaredNames(d) ==
  (IF d.governance # {} THEN {Chair} ELSE {}) \cup UNION {{s} \X Kept(d.stands[s]) : s \in DOMAIN d.stands}

DeclaredRow(d, n) ==
  IF n = Chair THEN ChairRow(d)
  ELSE LET plan == d.stands[n[1]]
           says == [t \in Tokens(plan, n[2]) |-> Bound(n[1], plan, Here(d, t))]
       IN Row(d, plan, n[2], CanisterOf(<<n[1], "baton">>), says)

\* In a template the roles stay, for the conductor to look up.
TemplateRow(d, role) ==
  LET says == [t \in Tokens(d.template, role) |-> Here(d, t)] IN Row(d, d.template, role, StandRole("baton"), says)
-----------------------------------------------------------------------------
(* The conductor *)

Rowed == DOMAIN docket
MembersOf(s) == {n \in Rowed : n[1] = s}
With(s, status) == {n \in MembersOf(s) : docket[n].status = status}
Stood(mark) == {s \in DOMAIN standing : standing[s] = mark}
FirstOf(S) == line[CHOOSE i \in DOMAIN line : line[i] \in S /\ \A j \in 1..i - 1 : line[j] \notin S]

\* lookup: what it does not know stays.
Lookup(n, t) ==
  IF t = THIS THEN IdOf(n)
  ELSE IF t[1] = "$canister" /\ t[2] \in existing THEN IdOf(t[2])
  ELSE IF t[1] = "$stand" /\ <<n[1], t[2]>> \in existing THEN IdOf(<<n[1], t[2]>>)
  ELSE t

SheetInit ==
  /\ draft \in Drafts /\ sheets = {} /\ outline = NoSheet
  /\ docket = <<>> /\ existing = {<<"conductor", "backend">>} /\ owners = <<>> /\ configured = <<>>
  /\ line = <<>> /\ standing = <<>>
  /\ jobs = {} /\ chaired = FALSE /\ upEnded = FALSE
  /\ early = {} /\ drafts = 0 /\ broken = 0

\* Rows that are not there yet are added, the others stay what they are.
Adding(d) ==
  LET new == DeclaredNames(d) \ Rowed
      stands == SelectSeq(d.order, LAMBDA s : s \notin DOMAIN standing)
  IN /\ docket' = [n \in Rowed \cup new |-> IF n \in Rowed THEN docket[n] ELSE DeclaredRow(d, n)]
     /\ owners' = [n \in Rowed \cup new |-> IF n \in Rowed THEN owners[n] ELSE {}]
     /\ configured' = [n \in Rowed \cup new |-> IF n \in Rowed THEN configured[n] ELSE {}]
     /\ line' = line \o stands
     /\ standing' = [s \in DOMAIN standing \cup ToSet(d.order) |->
                       IF s \notin DOMAIN standing \/ standing[s] = "failed" THEN "pending" ELSE standing[s]]

\* `casals up', from the sheet to the reply of orchestra_up.
OrchestraUp ==
  /\ ~upEnded /\ ValidSheet(draft)
  /\ Adding(draft)
  /\ outline' = IF outline = NoSheet THEN draft ELSE outline
  /\ sheets' = sheets \cup {draft} /\ chaired' = (draft.governance # {}) /\ jobs' = jobs \cup {"up"}
  /\ UNCHANGED <<draft, drafts, upEnded, existing, early, broken>>

EditSheet ==
  /\ drafts < MaxDrafts /\ drafts' = drafts + 1
  /\ draft' \in Drafts \ {draft}
  /\ UNCHANGED <<sheets, outline, chaired, upEnded, standVars>>

\* stand_create: required members, and the optional ones named for. Its build begins with
\* the rows of its members.
StandCreate(s, members) ==
  LET plan == outline.template
      named == {<<s, r>> : r \in {q \in Roles(plan) : plan.members[q].optional => q \in members}}
  IN /\ outline # NoSheet /\ s \notin DOMAIN standing
     /\ docket' = [n \in Rowed \cup named |-> IF n \in Rowed THEN docket[n] ELSE TemplateRow(outline, n[2])]
     /\ owners' = [n \in Rowed \cup named |-> IF n \in Rowed THEN owners[n] ELSE {}]
     /\ configured' = [n \in Rowed \cup named |-> IF n \in Rowed THEN configured[n] ELSE {}]
     /\ line' = Append(line, s)
     /\ standing' = [r \in DOMAIN standing \cup {s} |-> IF r = s THEN "pending" ELSE standing[r]]
     /\ jobs' = jobs \cup {s} /\ UNCHANGED <<deskVars, existing, early, broken>>

\* stand_create of a stand that is there: grow builds it again if it failed.
GrowAgain(s) ==
  /\ s \in Stood("failed")
  /\ standing' = [standing EXCEPT ![s] = "pending"] /\ jobs' = jobs \cup {s}
  /\ UNCHANGED <<deskVars, docket, existing, owners, configured, line, early, broken>>

Unbuilt == Stood("pending") \cup Stood("failed")
ToMake == {s \in Stood("pending") : With(s, "created") # {}}

\* An upgrade: the queue is filled again from the rows, for the stands of a section with
\* a template and for the orchestra.
UpgradeAndResume ==
  /\ broken < MaxBroken /\ broken' = broken + 1
  /\ jobs' = (Stood("pending") \cap Quarters) \cup (IF sheets # {} /\ ~upEnded THEN {"up"} ELSE {})
  /\ UNCHANGED <<deskVars, docket, existing, owners, configured, line, standing, early>>

\* What a job may do next for stand s. `up' stops at a failed stand, makes the canisters of
\* every pending stand, and then builds the first.
UpAtWork == Unbuilt # {} /\ FirstOf(Unbuilt) \in Stood("pending")
Makes(j, s) ==
  /\ j \in jobs /\ With(s, "created") # {}
  /\ j = s \/ (j = "up" /\ UpAtWork /\ s \in ToMake /\ s = FirstOf(ToMake))
Finishes(j, s) ==
  /\ j \in jobs /\ With(s, "created") = {}
  /\ j = s \/ (j = "up" /\ UpAtWork /\ ToMake = {} /\ s = FirstOf(Unbuilt))

\* The rows of a stand have an order, whichever it is.
NextOf(S) == CHOOSE n \in S : TRUE

Breaks(j, s) == standing' = [standing EXCEPT ![s] = "failed"] /\ jobs' = jobs \ {j}
StandBuilt(j, s) == standing' = [standing EXCEPT ![s] = "built"] /\ jobs' = jobs \ ({j} \ {"up"})

\* provision, which may fail before the canister is made or after it.
ProvisionOne(j, n) ==
  /\ Makes(j, n[1]) /\ n = NextOf(With(n[1], "created"))
  /\ \/ /\ existing' = existing \cup {n} /\ docket' = [docket EXCEPT ![n].status = "installed"]
        /\ UNCHANGED <<standing, jobs, broken>>
     \/ /\ broken < MaxBroken /\ broken' = broken + 1
        /\ existing' \in {existing, existing \cup {n}} /\ Breaks(j, n[1]) /\ UNCHANGED docket
  /\ owners' = [owners EXCEPT ![n] = IF n \in existing' \ existing THEN {Casals} ELSE @]
  /\ UNCHANGED <<deskVars, configured, line, early>>

\* Mutant: the controllers are those of the sheet.
StandControllersUnchaired(n) == {Lookup(n, t) : t \in docket[n].controllers}

\* stand_controllers: the committee is added if it can be named.
StandControllers(n) ==
  {Lookup(n, t) : t \in docket[n].controllers} \cup (IF chaired /\ Chair \in existing THEN {IdOf(Chair)} ELSE {})

\* hand_off: the configuration, then the row's controllers and the canister's; the last
\* one's hand-over ends the build.  A name that is not known is no controller.
HandOffOne(j, n) ==
  LET whole == \A t \in StandControllers(n) : IsPrincipal(t)
  IN /\ Finishes(j, n[1]) /\ With(n[1], "installed") # {} /\ n = NextOf(With(n[1], "installed"))
     /\ configured' = [configured EXCEPT ![n] = @ \cup {Lookup(n, t) : t \in docket[n].config}]
     /\ docket' = [docket EXCEPT ![n].controllers = StandControllers(n), ![n].status = IF whole THEN "ready" ELSE @]
     /\ early' = IF Rowed \subseteq existing THEN early ELSE early \cup {n}
     /\ \/ ~whole /\ Breaks(j, n[1]) /\ UNCHANGED owners
        \/ /\ whole /\ owners' = [owners EXCEPT ![n] = StandControllers(n)]
           /\ IF With(n[1], "installed") = {n} THEN StandBuilt(j, n[1]) ELSE UNCHANGED <<standing, jobs>>
     /\ UNCHANGED <<deskVars, existing, line, broken>>

\* A stand with nothing left to hand over.
BuildEnds(j, s) ==
  /\ Finishes(j, s) /\ With(s, "installed") = {} /\ StandBuilt(j, s)
  /\ UNCHANGED <<deskVars, docket, existing, owners, configured, line, early, broken>>

\* build_all, when every stand is built, or one failed.
BuildAllEnds ==
  /\ "up" \in jobs /\ ~UpAtWork /\ jobs' = jobs \ {"up"}
  /\ upEnded' = (upEnded \/ Unbuilt = {})
  /\ UNCHANGED <<draft, sheets, outline, chaired, drafts,
                 docket, existing, owners, configured, line, standing, early, broken>>

SheetNext ==
  \/ OrchestraUp \/ EditSheet \/ UpgradeAndResume \/ BuildAllEnds
  \/ \E s \in Quarters, members \in SUBSET {"worker"} : StandCreate(s, members)
  \/ \E s \in Quarters : GrowAgain(s)
  \/ \E j \in jobs :
       \/ \E s \in DOMAIN standing : BuildEnds(j, s)
       \/ \E n \in Rowed : ProvisionOne(j, n) \/ HandOffOne(j, n)
-----------------------------------------------------------------------------
(* What a sheet means *)

Arrangement(n) == IF n[1] \in Quarters THEN docket[n].from.template ELSE docket[n].from.stands[n[1]]
Said(n) == IF n = Chair THEN docket[n].from.governance ELSE Arrangement(n).members[n[2]].controllers

\* What placeholder t of canister n, of a stand with this plan, stands for in sheet d.
Means(d, plan, n, t) ==
  CASE t = SELF -> Casals
    [] t = DEPLOYER -> TheDeployer
    [] t = THIS -> IdOf(n)
    [] t = MULTISIG -> IdOf(Chair)
    [] t[1] = "$canister" -> IdOf(t[2])
    [] t[1] = "$stand" -> IdOf(<<n[1], CHOOSE r \in StandMember(plan, t[2]) : TRUE>>)
    [] t[1] = "$principal" -> Told(d, d.principals[t[2]])
    [] OTHER -> t

\* Members the baton shall govern.
Meant(n) ==
  LET d == docket[n].from
  IN IF n = Chair THEN {Means(d, NoPlan, n, t) : t \in Said(n)}
     ELSE {Means(d, Arrangement(n), n, t) : t \in Said(n)}
          \cup (IF HandsOff(Arrangement(n)) /\ n[2] \in BatonManages(Arrangement(n))
                THEN {IdOf(<<n[1], "baton">>)} ELSE {})
Ready(n) == docket[n].status = "ready"

\* Roles are called by name: one called by its kind is judged, but not carried out.
ByName(plan) == plan.manages = Everybody \/ plan.manages \subseteq Roles(plan)

\* What placeholder t may come to although the sheet is valid.
Loose(n, t) ==
  LET d == docket[n].from
  IN \/ t = MULTISIG /\ d.governance = {}
     \/ t[1] = "$canister" /\ t[2] # Casals[2] /\ t[2] \notin DeclaredNames(d)
     \/ t[1] = "$principal" /\ ~IsPrincipal(Told(d, d.principals[t[2]]))
     \/ t[1] = "$stand" /\ n[1] \in Quarters /\ (<<n[1], t[2]>> \notin Rowed)
     \/ t[1] = "$stand" /\ n[1] \notin Quarters /\ StandMember(Arrangement(n), t[2]) \cap Kept(Arrangement(n)) = {}
-----------------------------------------------------------------------------
(* Properties *)

\* A canister that was handed over has the controllers its sheet gives it, in whatever
\* order canisters were made and whatever failed, besides the committee.
ControlledAsDeclared ==
  \A n \in Rowed :
    Ready(n) /\ (n = Chair \/ ByName(Arrangement(n))) => owners[n] \ {IdOf(Chair)} = Meant(n) \ {IdOf(Chair)}

\* Every canister handed over once the orchestra's canisters were all made is the
\* committee's too, as long as the sheets have one.
CommitteeStays ==
  (\A d \in sheets : d.governance # {}) => \A n \in Rowed \ early : Ready(n) => IdOf(Chair) \in owners[n]

\* The conductor has no control of a baton, nor of what a baton governs alone, unless the
\* sheet names it by another word than $self.
BatonsGovernAlone ==
  \A n \in Rowed \ {Chair} :
    Ready(n) /\ Casals \in owners[n]
      /\ (n[2] = "baton" \/ (Arrangement(n).handOff = "sole" /\ n[2] \in BatonManages(Arrangement(n)))) =>
    \E t \in Said(n) \ {SELF} : Means(docket[n].from, Arrangement(n), n, t) = Casals

\* What a canister is configured with names canisters by their ids, if all were made.
ConfiguredWithIds ==
  \A n \in Rowed \ (early \cup {Chair}) :
    \/ \A t \in configured[n] : IsPrincipal(t)
    \/ \E t \in Arrangement(n).members[n[2]].config : Loose(n, t)

\* A valid sheet is carried out as it is meant.
SheetIsKept == ControlledAsDeclared /\ CommitteeStays /\ BatonsGovernAlone /\ ConfiguredWithIds

\* "Every stand canister, quarters included, keeps the orchestra's multisig as a
\* controller" (canisters.py).  It does not hold (see the README).
KeepsTheMultisig ==
  (\A d \in sheets : d.governance # {}) => \A n \in Rowed : Ready(n) => IdOf(Chair) \in owners[n]

\* "`up` creates every stand's canisters before it builds any stand" (up.py).  Nor does
\* this: a stand that failed half made is passed over.
MadeBeforeBuilt == \A n \in early : n[1] \in Quarters
=============================================================================
