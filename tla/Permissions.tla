----------------------------- MODULE Permissions -----------------------------
(***************************************************************************)
(* Who may do what (src/auth.py, src/grants.py, and the parts of           *)
(* src/stands.py that move grants).  A grant gives a principal permissions *)
(* at a scope: the orchestra, a section or a stand.  It holds there and at *)
(* every scope below.  People pass on what they hold, an access code is a  *)
(* grant to its checksum until somebody claims it, and grants follow a     *)
(* scope that is renamed and go with one that is deleted.                  *)
(*                                                                         *)
(* A scope is known by its name: whoever names one that is gone finds its  *)
(* grants again, if any were left.                                         *)
(***************************************************************************)
EXTENDS Naturals, FiniteSets, Functions, TLC

CONSTANTS
  Controller,   \* controllers of the conductor: they may do everything
  People, Codes,\* who grants name: principals, and checksums of access codes
  SectionNames, StandNames, \* names for sections and stands
  Keys,         \* permissions; "*" stands for all of them
  Offers,       \* the sets of permissions people grant
  Commanders,   \* what a section's template grants at each of its stands, a grant function
  MaxGrants,    \* bound: grants there are at once
  MaxScopes     \* bound: sections and stands created or renamed

ASSUME KeysAssumption == "grant.assign" \in Keys /\ "*" \notin Keys /\ Offers \subseteq SUBSET (Keys \cup {"*"})
ASSUME ControllerAssumption == Controller \notin People
ASSUME CommandersAssumption == \E D \in SUBSET People : Commanders \in [D -> Offers]

VARIABLES
  grant,      \* <<scope, holder>> -> permissions, for the grants there are
  sections,   \* the sections there are
  sectionOf,  \* the stands there are -> their section
  scopes      \* counted against their bound

permissionVars == <<grant, sections, sectionOf, scopes>>

Orchestra == <<"orchestra", "">>
SectionScope(n) == <<"section", n>>
StandScope(n) == <<"stand", n>>
Standing == DOMAIN sectionOf
Scopes == {Orchestra} \cup {SectionScope(n) : n \in sections} \cup {StandScope(n) : n \in Standing}
Holders == People \cup Codes
Permission == Keys \cup {"*"}

PermissionsInit ==
  /\ LET sec == CHOOSE n \in SectionNames : TRUE  \* as good as any
     IN sections = {sec} /\ sectionOf = [n \in {CHOOSE n \in StandNames : TRUE} |-> sec]
  /\ grant = <<>> /\ scopes = 0
-----------------------------------------------------------------------------
(* auth *)

\* chain_of: the scope and those above it.
ChainOf(s) ==
  {s, Orchestra} \cup (IF s[1] = "stand" THEN {SectionScope(sectionOf[s[2]])} ELSE {})

GrantsOf(p) == {g \in DOMAIN grant : g[2] = p}

\* Mutant: what somebody holds anywhere counts.
KeysAnywhere(p, s) == UNION {grant[g] : g \in GrantsOf(p)}

KeysAt(p, s) == UNION {grant[g] : g \in {h \in GrantsOf(p) : h[1] \in ChainOf(s)}}
Holds(p, k, s) == p = Controller \/ {k, "*"} \cap KeysAt(p, s) # {}
Covers(have, perms) == "*" \in have \/ ("*" \notin perms /\ perms \subseteq have)

\* check_delegation: nobody edits their own grant, or one that exceeds theirs.
MayDelegate(p, s, t, perms) ==
  \/ p = Controller
  \/ /\ t # p
     /\ Covers(KeysAt(p, s), perms)
     /\ <<s, t>> \in DOMAIN grant => Covers(KeysAt(p, s), grant[<<s, t>>])
-----------------------------------------------------------------------------
(* grants *)

\* f with v at x, wherever x was.
Put(f, x, v) == [y \in DOMAIN f \cup {x} |-> IF y = x THEN v ELSE f[y]]
Upserted(s, t, perms) == Put(grant, <<s, t>>, perms)
Without(gs) == Restrict(grant, DOMAIN grant \ gs)
GrantsAt(s) == {g \in DOMAIN grant : g[1] = s}

\* rescope to a name nothing has yet.
Moved(old, new) ==
  [g \in (DOMAIN grant \ GrantsAt(old)) \cup {<<new, h[2]>> : h \in GrantsAt(old)} |->
    IF g[1] = new /\ <<old, g[2]>> \in DOMAIN grant THEN grant[<<old, g[2]>>] ELSE grant[g]]

GrantSet(p, s, t, perms) ==
  /\ Holds(p, "grant.assign", s) /\ MayDelegate(p, s, t, perms)
  /\ grant' = Upserted(s, t, perms) /\ Cardinality(DOMAIN grant') <= MaxGrants
  /\ UNCHANGED <<sections, sectionOf, scopes>>

GrantRemove(p, s, t) ==
  /\ Holds(p, "grant.assign", s) /\ MayDelegate(p, s, t, {})
  /\ <<s, t>> \in DOMAIN grant /\ grant' = Without({<<s, t>>})
  /\ UNCHANGED <<sections, sectionOf, scopes>>

\* grant_claim: every grant to the code's checksum becomes the claimer's.
GrantClaim(p, code) ==
  LET slots == GrantsOf(code)
      got(s) == IF <<s, p>> \in DOMAIN grant THEN grant[<<s, p>>] ELSE {}
      mine == {<<g[1], p>> : g \in slots}
  IN /\ slots # {}
     /\ grant' = [g \in (DOMAIN grant \ slots) \cup mine |->
                   IF g \in mine THEN got(g[1]) \cup grant[<<g[1], code>>] ELSE grant[g]]
     /\ UNCHANGED <<sections, sectionOf, scopes>>
-----------------------------------------------------------------------------
(* stands and sections *)

Counted == scopes < MaxScopes /\ scopes' = scopes + 1

SectionCreate(p, n) ==
  /\ p = Controller /\ n \notin sections
  /\ sections' = sections \cup {n} /\ Counted
  /\ UNCHANGED <<grant, sectionOf>>

SectionDelete(p, n) ==
  /\ p = Controller /\ n \in sections
  /\ \A s \in Standing : sectionOf[s] # n
  /\ sections' = sections \ {n} /\ grant' = Without(GrantsAt(SectionScope(n)))
  /\ UNCHANGED <<sectionOf, scopes>>

StandCreated(p, n, sec) ==
  /\ sec \in sections /\ Holds(p, "stand.create", SectionScope(sec))
  /\ n \notin Standing
  /\ sectionOf' = Put(sectionOf, n, sec) /\ Counted
  /\ UNCHANGED <<grant, sections>>

\* The end of build: the template's commanders.  (A stand deleted under its build, whose
\* commanders would be granted at a scope of nobody, is left out, as in StandBuilds.)
CommandersGranted(n) ==
  /\ n \in Standing
  /\ grant' = [g \in DOMAIN grant \cup {<<StandScope(n), p>> : p \in DOMAIN Commanders} |->
                IF g[1] = StandScope(n) /\ g[2] \in DOMAIN Commanders THEN Commanders[g[2]] ELSE grant[g]]
  /\ UNCHANGED <<sections, sectionOf, scopes>>

\* edit, with a name nothing has.
StandRenamed(p, n, m) ==
  /\ n \in Standing /\ Holds(p, "stand.edit", StandScope(n)) /\ m \notin Standing
  /\ sectionOf' = Put(Restrict(sectionOf, Standing \ {n}), m, sectionOf[n])
  /\ grant' = Moved(StandScope(n), StandScope(m)) /\ Counted
  /\ UNCHANGED sections

SectionRenamed(p, n, m) ==
  /\ n \in sections /\ Holds(p, "section.edit", SectionScope(n)) /\ m \notin sections
  /\ sections' = (sections \ {n}) \cup {m}
  /\ sectionOf' = [s \in Standing |-> IF sectionOf[s] = n THEN m ELSE sectionOf[s]]
  /\ grant' = Moved(SectionScope(n), SectionScope(m)) /\ Counted

\* Mutant: the rows go and the grants stay.
ForgetRowsOnly(n) == UNCHANGED grant

\* forget: a stand goes with its grants.
Forget(n) == grant' = Without(GrantsAt(StandScope(n)))

StandDelete(p, n) ==
  /\ n \in Standing /\ Holds(p, "stand.delete", StandScope(n))
  /\ Forget(n) /\ sectionOf' = Restrict(sectionOf, Standing \ {n})
  /\ UNCHANGED <<sections, scopes>>

GrantOps(p) ==
  \/ \E s \in Scopes, t \in Holders :
       GrantRemove(p, s, t) \/ \E perms \in Offers : GrantSet(p, s, t, perms)
  \/ \E code \in Codes : GrantClaim(p, code)

PermissionsNext ==
  \/ \E p \in People \cup {Controller} :
       \/ GrantOps(p)
       \/ \E n \in SectionNames : SectionCreate(p, n) \/ SectionDelete(p, n) \/ \E m \in SectionNames : SectionRenamed(p, n, m)
       \/ \E n \in StandNames : StandDelete(p, n) \/ \E m \in StandNames : StandRenamed(p, n, m)
       \/ \E n \in StandNames, sec \in SectionNames : StandCreated(p, n, sec)
  \/ \E n \in StandNames : CommandersGranted(n)
-----------------------------------------------------------------------------
(* Properties *)

\* Nobody finds grants under a name that comes to be used again: a grant is at a
\* scope there is, however stands and sections were renamed and deleted.
NobodyInheritsAScope == \A g \in DOMAIN grant : g[1] \in Scopes

Power(have) == IF "*" \in have THEN Permission ELSE have

\* The grants at a scope and above it.
Around(s) == {g \in DOMAIN grant : g[1] \in ChainOf(s)}
AddsNoPower ==
  \/ <<sections, sectionOf>>' # <<sections, sectionOf>>  \* no grant is given
  \/ \A g \in DOMAIN grant' :
       \/ g \in DOMAIN grant /\ grant'[g] \subseteq grant[g]
       \/ Power(grant'[g]) \subseteq UNION {Power(grant[h]) : h \in Around(g[1])}
  \/ ~\E p \in People : GrantOps(p)

\* Granting and claiming, in any order, bring nobody a power at a scope that nobody had
\* there: what a grant comes to hold, somebody held at its scope or above, unless a
\* controller or a template gave it.
GrantsAddNoPowers == [][AddsNoPower]_permissionVars
=============================================================================
