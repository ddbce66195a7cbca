-------------------------- MODULE MCConductorCalls ---------------------------
(***************************************************************************)
(* Permissions people pass on, what a template's commanders get, what a    *)
(* baton is asked for, the orders of rows, what two sheets publish, who    *)
(* controls a stand's canisters, and the sheets an operator may write.     *)
(***************************************************************************)
EXTENDS ConductorCalls

CONSTANTS p1, p2, h1, h2, s1, s2, m1, m2, w0, w1

MCOffers == {{"*"}, {"grant.assign"}}
MCCommanders == p1 :> {"grant.assign"}

\* One member, back and forth, and both.
MCWishes == {m1 :> w1, m1 :> w0, m1 :> w1 @@ m2 :> w1, m1 :> w0 @@ m2 :> w1}

MCHosts == <<h1, h2>>
MCDeclaredKeys == <<"backend", "frontend", "store">>

MCRegistries ==
  {[wasm |-> ("f1" :> "c1" @@ "f2" :> Absent), frontend |-> ("f1" :> "c1" @@ "f2" :> "c1")],
   [wasm |-> ("f1" :> "c2" @@ "f2" :> Absent), frontend |-> ("f1" :> "c2" @@ "f2" :> Absent)]}

MCFleet == <<s1, s2>>
MCKeepers ==
  {s1 :> "conductor" @@ s2 :> "committee", s1 :> "baton" @@ s2 :> "baton", s1 :> "committee" @@ s2 :> "baton"}

\* Sheets that differ in who governs what: a stand x with a baton, its template the same.
MCMember(controllers, config) ==
  [kind |-> "backend", controllers |-> controllers, config |-> config, retired |-> FALSE, optional |-> FALSE]
MCWorker == "worker" :> [MCMember({StandRole("baton")}, {}) EXCEPT !.optional = TRUE]
MCPlan(role, controllers, config, handOff, manages, more) ==
  [members |-> "baton" :> MCMember({MULTISIG}, {}) @@ role :> MCMember(controllers, config) @@ more,
   handOff |-> handOff, manages |-> manages, operated |-> TRUE]
MCNoBaton == [NoPlan EXCEPT !.members = "app" :> MCMember({SELF}, {})]
MCSheet(governance, ops, plan, more) ==
  [governance |-> governance, production |-> FALSE, principals |-> "ops" :> ops,
   order |-> (IF governance = {} THEN <<>> ELSE <<"governance">>) \o <<"x">> \o (IF more = <<>> THEN <<>> ELSE <<"z">>),
   stands |-> "x" :> plan @@ more, template |-> plan]

MCDrafts ==
  {\* everything governed together, and a configuration that names a later stand
   MCSheet({MULTISIG}, Person("ops"),
     MCPlan("backend", {SELF}, {StandRole("baton"), CanisterOf(<<"z", "app">>)}, "co", Everybody, <<>>), "z" :> MCNoBaton),
   \* no committee, though the baton is said to be its
   MCSheet({}, Person("ops"), MCPlan("backend", {PrincipalOf("ops")}, {}, "co", {"backend"}, <<>>), <<>>),
   \* governed alone, with an alias of the conductor
   MCSheet({MULTISIG}, SELF, MCPlan("backend", {PrincipalOf("ops")}, {}, "sole", {"backend"}, <<>>), <<>>),
   \* no baton
   MCSheet({MULTISIG}, SELF, MCNoBaton, <<>>),
   \* a role called by its kind, and an optional member
   MCSheet({THIS, DEPLOYER}, SELF,
     MCPlan("app", {THIS, DEPLOYER}, {StandRole("worker"), StandRole("backend")}, "sole", {"backend"}, MCWorker), <<>>),
   \* not valid: governed alone, and the conductor's too
   MCSheet({MULTISIG}, SELF, MCPlan("backend", {SELF, THIS}, {}, "sole", {"backend"}, <<>>), <<>>)}
=============================================================================
