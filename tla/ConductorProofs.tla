--------------------------- MODULE ConductorProofs ----------------------------
(***************************************************************************)
(* Proofs about the parts of ConductorCalls, each of which moves alone     *)
(* (PartsMoveApart); those about CanisterUpgrades are in StandProofs.      *)
(* Every part has an inductive invariant and a section: its types, what a  *)
(* call that waits for an answer still knows to be true, one lemma for     *)
(* each action, and the theorem.                                           *)
(*                                                                         *)
(* What the invariants add to the properties is what is carried across an  *)
(* await: who was granted the permission and is not on record yet, which   *)
(* canister a row is about while it is being destroyed, how much of a      *)
(* backfill or a list was read, what a publisher has made right so far,    *)
(* what a sync has yet to apply, which files a deploy has still to write,  *)
(* what a command knows of what it filed.                                  *)
(***************************************************************************)
EXTENDS ConductorCalls, DataLemmas

-----------------------------------------------------------------------------
(* The parts *)

\* A step of the whole is a step of each part or leaves it alone.
LEMMA PartsMoveApart ==
  ASSUME [Next]_vars
  PROVE  /\ [PermissionsNext]_permissionVars /\ [ContentNext]_contentVars
         /\ [SyncNext]_syncVars /\ [CanistersNext]_canisterVars
         /\ [TreasuryNext]_treasuryVars /\ [AccessNext]_accessVars
         /\ [UploadsNext]_uploadVars /\ [RowsNext]_rowVars
         /\ [UpNext]_upVars /\ [PublishNext]_publishVars /\ [ShippingNext]_shipVars
         /\ [SheetNext]_sheetVars
<1>1. CASE UNCHANGED vars
  BY <1>1 DEF vars, callVars, moneyVars, commandVars
<1>2. CASE NextCalls /\ UNCHANGED <<moneyVars, commandVars, sheetVars>>
  BY <1>2 DEF NextCalls, moneyVars, commandVars
<1>3. CASE NextMoney /\ UNCHANGED <<callVars, commandVars, sheetVars>>
  BY <1>3 DEF NextMoney, callVars, commandVars
<1>4. CASE NextCommand /\ UNCHANGED <<callVars, moneyVars, sheetVars>>
  BY <1>4 DEF NextCommand, callVars, moneyVars
<1>5. CASE part = "sheet" /\ SheetNext /\ UNCHANGED <<callVars, moneyVars, commandVars>>
  BY <1>5 DEF callVars, moneyVars, commandVars
<1> QED BY <1>1, <1>2, <1>3, <1>4, <1>5 DEF Next

\* The canisters the conductor controls do what CanisterUpgrades says and nothing else, so
\* that StandProofs is about them.
THEOREM CanistersAreApart == Spec => CanistersSpec
<1>1. Init => CanistersInit BY DEF Init
<1>2. [Next]_vars => [CanistersNext]_canisterVars BY PartsMoveApart
<1> QED BY <1>1, <1>2, PTL DEF Spec, CanistersSpec
-----------------------------------------------------------------------------
(* Who may upload *)

VisitRecord ==
  {NoVisit} \cup [at : {"granted", "ended"}, who : Uploaders]
            \cup [at : {"asked"}, who : Uploaders, does : {"begin", "end"}, due : SUBSET Uploaders]

UploadsOK ==
  /\ may \in SUBSET Uploaders /\ slipped \in SUBSET Uploaders
  /\ uploads \in [Uploaders -> {"live", "due", "none"}]
  /\ visit \in [Visits -> VisitRecord]

\* The inductive invariant.
UploadsInv == UploadsOK /\ PermitsAreOnRecord

\* A call of the store about p, by a visit that was granted nothing, gives p the permission
\* only with the visit that is to put it on record.
LEMMA PermitKeeps ==
  ASSUME UploadsInv, NEW v \in Visits, ~VisitAt(v, "granted"), NEW p \in Uploaders,
         NEW now \in SUBSET (may \cup {p}), NEW next \in VisitRecord, Permit(v, p, now, next),
         uploads' \in [Uploaders -> {"live", "due", "none"}],
         \A q \in Uploaders \ {p} : uploads'[q] = uploads[q],
         p \in now => next = [at |-> "granted", who |-> p]
  PROVE  UploadsInv'
<1> USE DEF UploadsInv, UploadsOK, Permit, Visiting
<1>1. UploadsOK' BY DEF VisitRecord
<1>2. ASSUME NEW q \in may' \ slipped'
      PROVE  uploads'[q] # "none" \/ \E u \in Visits : visit'[u].at = "granted" /\ visit'[u].who = q
  <2>1. CASE q = p
    <3>1. visit'[v] = next /\ p \in now BY <1>2, <2>1
    <3> QED BY <2>1, <3>1
  <2>2. CASE q # p
    <3>1. q \in may \ slipped /\ uploads'[q] = uploads[q] BY <1>2, <2>2
    <3>2. ASSUME NEW u \in Visits, VisitAt(u, "granted"), Who(u) = q
          PROVE  u # v /\ visit'[u] = visit[u]
      BY <3>2
    <3> QED BY <3>1, <3>2 DEF PermitsAreOnRecord, VisitAt, Who
  <2> QED BY <2>1, <2>2
<1> QED BY <1>1, <1>2 DEF PermitsAreOnRecord, VisitAt, Who

LEMMA ExpireKeeps ==
  ASSUME UploadsInv, NEW v \in Visits, ~VisitAt(v, "granted"), NEW who \in Uploaders,
         NEW does \in {"begin", "end"}, NEW due \in SUBSET Uploaders, Expire(v, who, does, due)
  PROVE  UploadsInv'
<1>1. uploads \in [Uploaders -> {"live", "due", "none"}] /\ may \in SUBSET Uploaders BY DEF UploadsInv, UploadsOK
<1>2. CASE due = {} /\ UNCHANGED uploads /\ Permit(v, who, may \cup {who}, [at |-> "granted", who |-> who])
  <2>1. [at |-> "granted", who |-> who] \in VisitRecord BY DEF VisitRecord
  <2> QED BY <1>1, <1>2, <2>1, PermitKeeps
<1>3. CASE UNCHANGED <<may, uploads, slipped>> /\ Visiting(v, NoVisit)
  <2>1. UploadsOK' BY <1>3 DEF UploadsInv, UploadsOK, Visiting, VisitRecord
  <2>2. \A u \in Visits : VisitAt(u, "granted") => visit'[u] = visit[u]
    BY <1>3 DEF Visiting, UploadsInv, UploadsOK
  <2> QED BY <1>3, <2>1, <2>2 DEF UploadsInv, PermitsAreOnRecord, VisitAt, Who
<1>4. ASSUME NEW p \in due, uploads' = [uploads EXCEPT ![p] = "none"], Permit(v, p, may \ {p}, Asking(v, who, does, due \ {p}))
      PROVE  UploadsInv'
  <2>1. Asking(v, who, does, due \ {p}) \in VisitRecord BY DEF VisitRecord, Asking
  <2> QED BY <1>1, <1>4, <2>1, PermitKeeps
<1> QED BY <1>2, <1>3, <1>4 DEF Expire

LEMMA UploadsKept == UploadsInv /\ [UploadsNext]_uploadVars => UploadsInv'
<1> SUFFICES ASSUME UploadsInv, [UploadsNext]_uploadVars PROVE UploadsInv' OBVIOUS
<1> USE DEF UploadsInv, UploadsOK
<1>1. ASSUME NEW v \in Visits, UploadBegin(v) PROVE UploadsInv'
  <2>1. PICK p \in Uploaders : Expire(v, p, "begin", Due) /\ VisitAt(v, "free") BY <1>1 DEF UploadBegin, Visited
  <2> QED BY <2>1, ExpireKeeps DEF Due, VisitAt
<1>2. ASSUME NEW v \in Visits, Granted(v) PROVE UploadsInv'
  <2>1. Who(v) \in Uploaders BY <1>2 DEF Granted, VisitAt, Who, VisitRecord, NoVisit
  <2>2. \A u \in Visits : u # v => visit'[u] = visit[u] BY <1>2 DEF Granted, Visiting
  <2>3. UploadsOK' BY <1>2, <2>1 DEF Granted, Visiting, VisitRecord
  <2>4. uploads'[Who(v)] # "none" /\ \A q \in Uploaders : uploads[q] # "none" => uploads'[q] # "none"
    BY <1>2, <2>1 DEF Granted
  <2>5. may' = may /\ slipped' = slipped BY <1>2 DEF Granted
  <2> QED BY <2>1, <2>2, <2>3, <2>4, <2>5 DEF PermitsAreOnRecord, VisitAt, Who
<1>3. ASSUME NEW v \in Visits, UploadEnd(v) PROVE UploadsInv'
  <2>1. PICK p \in Uploaders : /\ uploads' = [uploads EXCEPT ![p] = "none"] /\ VisitAt(v, "free")
                               /\ Permit(v, p, may \ {p}, [at |-> "ended", who |-> p])
    BY <1>3 DEF UploadEnd, Visited
  <2>2. [at |-> "ended", who |-> p] \in VisitRecord BY DEF VisitRecord
  <2>3. ~VisitAt(v, "granted") BY <2>1 DEF VisitAt
  <2> QED BY <2>1, <2>2, <2>3, PermitKeeps
<1>4. ASSUME NEW v \in Visits, AnswerEnd(v) PROVE UploadsInv'
  <2>1. Who(v) \in Uploaders /\ ~VisitAt(v, "granted") BY <1>4 DEF AnswerEnd, VisitAt, Who, VisitRecord, NoVisit
  <2> QED BY <1>4, <2>1, ExpireKeeps DEF AnswerEnd, Due
<1>5. ASSUME NEW v \in Visits, Expired(v) PROVE UploadsInv'
  <2>1. visit[v] \in [at : {"asked"}, who : Uploaders, does : {"begin", "end"}, due : SUBSET Uploaders]
    BY <1>5 DEF Expired, VisitAt, VisitRecord, NoVisit
  <2>2. ~VisitAt(v, "granted") BY <2>1 DEF VisitAt
  <2> QED BY <1>5, <2>1, <2>2, ExpireKeeps DEF Expired, Who
<1>6. ASSUME NEW p \in Uploaders, HourPasses(p) PROVE UploadsInv'
  <2>1. \A q \in Uploaders : uploads[q] # "none" => uploads'[q] # "none" BY <1>6 DEF HourPasses
  <2>2. UploadsOK' BY <1>6 DEF HourPasses
  <2> QED BY <1>6, <2>1, <2>2 DEF HourPasses, PermitsAreOnRecord, VisitAt, Who
<1>7. CASE UploadsForgotten
  <2>1. UploadsOK' BY <1>7 DEF UploadsForgotten
  <2>2. ASSUME NEW p \in may' \ slipped' PROVE FALSE
    <3>1. p \in may \ slipped /\ uploads[p] = "none" BY <1>7, <2>2 DEF UploadsForgotten
    <3>2. PICK v \in Visits : VisitAt(v, "granted") BY <3>1 DEF PermitsAreOnRecord
    <3> QED BY <1>7, <3>2 DEF UploadsForgotten, VisitAt
  <2> QED BY <2>1, <2>2 DEF PermitsAreOnRecord
<1>8. CASE UNCHANGED uploadVars BY <1>8 DEF uploadVars, PermitsAreOnRecord, VisitAt, Who
<1> QED BY <1>1, <1>2, <1>3, <1>4, <1>5, <1>6, <1>7, <1>8 DEF UploadsNext

\* Nobody keeps the permission to upload unnoticed (src/wasms.py), whoever uploads,
\* however many calls overlap.
THEOREM UploadersAreOnRecord == Spec => []PermitsAreOnRecord
<1>1. Init => UploadsInv
  BY DEF Init, UploadsInit, UploadsInv, UploadsOK, PermitsAreOnRecord, VisitRecord
<1>2. UploadsInv /\ [Next]_vars => UploadsInv' BY UploadsKept, PartsMoveApart
<1>3. UploadsInv => PermitsAreOnRecord BY DEF UploadsInv
<1> QED BY <1>1, <1>2, <1>3, PTL DEF Spec
-----------------------------------------------------------------------------
(* Who may do what *)

\* The inductive invariant: a grant is to somebody, at a scope there is.
GrantFits(g, perms, scopesThere) ==
  g \in scopesThere \X (Holders \cup {Controller}) /\ perms \in SUBSET Permission
PermissionsInv == \A g \in DOMAIN grant : GrantFits(g, grant[g], Scopes)

LEMMA OffersArePermissions == \A perms \in Offers : perms \in SUBSET Permission
BY KeysAssumption DEF Permission

LEMMA ScopesStay == UNCHANGED <<sections, sectionOf>> => Scopes' = Scopes
BY DEF Scopes, Standing

\* Giving and taking grants leaves the others as they are ...
LEMMA SetGrants ==
  ASSUME NEW p, NEW s, NEW t, NEW perms, GrantSet(p, s, t, perms)
  PROVE  /\ DOMAIN grant' = DOMAIN grant \cup {<<s, t>>} /\ grant'[<<s, t>>] = perms
         /\ \A g \in DOMAIN grant \ {<<s, t>>} : grant'[g] = grant[g]
         /\ UNCHANGED <<sections, sectionOf>>
BY DEF GrantSet, Upserted, Put

LEMMA RemovesGrants ==
  ASSUME NEW gs, grant' = Without(gs)
  PROVE  DOMAIN grant' = DOMAIN grant \ gs /\ \A g \in DOMAIN grant' : grant'[g] = grant[g]
BY DEF Without, Restrict

\* ... and a claimed one is added to what the claimer holds at its scope.
LEMMA ClaimsGrants ==
  ASSUME NEW p, NEW c, GrantClaim(p, c), NEW g \in DOMAIN grant',
         \A h \in DOMAIN grant : h = <<h[1], h[2]>>
  PROVE  \/ g \in DOMAIN grant /\ grant'[g] = grant[g]
         \/ /\ g = <<g[1], p>> /\ <<g[1], c>> \in DOMAIN grant
            /\ \/ g \in DOMAIN grant /\ grant'[g] = grant[g] \cup grant[<<g[1], c>>]
               \/ grant'[g] = grant[<<g[1], c>>]
<1> DEFINE slots == GrantsOf(c)
           got(s) == IF <<s, p>> \in DOMAIN grant THEN grant[<<s, p>>] ELSE {}
           mine == {<<h[1], p>> : h \in slots}
<1>1. grant' = [h \in (DOMAIN grant \ slots) \cup mine |->
                  IF h \in mine THEN got(h[1]) \cup grant[<<h[1], c>>] ELSE grant[h]]
  BY DEF GrantClaim
<1>2. CASE g \notin mine BY <1>1, <1>2
<1>3. CASE g \in mine
  <2>1. PICK h \in slots : g = <<h[1], p>> BY <1>3
  <2>2. h \in DOMAIN grant /\ h = <<g[1], c>> /\ g = <<g[1], p>> BY <2>1 DEF GrantsOf
  <2>3. grant'[g] = got(g[1]) \cup grant[<<g[1], c>>] BY <1>1, <1>3
  <2> QED BY <2>2, <2>3
<1> QED BY <1>2, <1>3

LEMMA GrantOpsKeep ==
  ASSUME PermissionsInv, NEW p \in People \cup {Controller}, GrantOps(p)
  PROVE  PermissionsInv' /\ UNCHANGED <<sections, sectionOf>>
<1> USE DEF PermissionsInv, GrantFits
<1>1. ASSUME NEW s \in Scopes, NEW t \in Holders, GrantRemove(p, s, t)
      PROVE  PermissionsInv' /\ UNCHANGED <<sections, sectionOf>>
  <2>1. UNCHANGED <<sections, sectionOf>> /\ grant' = Without({<<s, t>>}) BY <1>1 DEF GrantRemove
  <2> QED BY <2>1, RemovesGrants, ScopesStay
<1>2. ASSUME NEW s \in Scopes, NEW t \in Holders, NEW perms \in Offers, GrantSet(p, s, t, perms)
      PROVE  PermissionsInv' /\ UNCHANGED <<sections, sectionOf>>
  <2>a. /\ DOMAIN grant' = DOMAIN grant \cup {<<s, t>>} /\ grant'[<<s, t>>] = perms
        /\ \A g \in DOMAIN grant \ {<<s, t>>} : grant'[g] = grant[g]
        /\ UNCHANGED <<sections, sectionOf>>
    BY <1>2, SetGrants
  <2>b. Scopes' = Scopes BY <2>a, ScopesStay
  <2>1. perms \in SUBSET Permission BY OffersArePermissions
  <2>2. ASSUME NEW g \in DOMAIN grant' PROVE GrantFits(g, grant'[g], Scopes')
    <3>1. CASE g = <<s, t>>
      <4>1. g \in Scopes \X (Holders \cup {Controller}) BY <3>1
      <4>2. grant'[g] = perms BY <2>a, <3>1
      <4> QED BY <2>1, <2>b, <4>1, <4>2
    <3>2. CASE g # <<s, t>>
      <4>1. g \in DOMAIN grant /\ grant'[g] = grant[g] BY <2>a, <2>2, <3>2
      <4> QED BY <2>b, <4>1
    <3> QED BY <3>1, <3>2
  <2> QED BY <2>a, <2>2
<1>3. ASSUME NEW c \in Codes, GrantClaim(p, c)
      PROVE  PermissionsInv' /\ UNCHANGED <<sections, sectionOf>>
  <2>1. UNCHANGED <<sections, sectionOf>> BY <1>3 DEF GrantClaim
  <2>2. \A h \in DOMAIN grant : h = <<h[1], h[2]>> OBVIOUS
  <2>3. ASSUME NEW g \in DOMAIN grant' PROVE GrantFits(g, grant'[g], Scopes')
    <3>1. CASE g \in DOMAIN grant /\ grant'[g] = grant[g] BY <2>1, <3>1, ScopesStay
    <3>2. CASE g = <<g[1], p>> /\ <<g[1], c>> \in DOMAIN grant
      <4>1. g[1] \in Scopes /\ grant[<<g[1], c>>] \in SUBSET Permission BY <3>2
      <4>2. grant'[g] \in SUBSET Permission BY <1>3, <2>2, <2>3, <4>1, ClaimsGrants
      <4>3. Scopes' = Scopes BY <2>1, ScopesStay
      <4>4. g \in Scopes \X (Holders \cup {Controller}) BY <3>2, <4>1 DEF Holders
      <4> QED BY <4>2, <4>3, <4>4
    <3> QED BY <1>3, <2>2, <2>3, <3>1, <3>2, ClaimsGrants
  <2> QED BY <2>1, <2>3
<1> QED BY <1>1, <1>2, <1>3 DEF GrantOps

\* Grants move with a scope to a name nothing has.
LEMMA MovesGrants ==
  ASSUME PermissionsInv, NEW old, NEW new, new # old, NEW there, grant' = Moved(old, new),
         Scopes \ {old} \subseteq there, new \in there
  PROVE  \A g \in DOMAIN grant' : GrantFits(g, grant'[g], there)
<1> USE DEF PermissionsInv, GrantFits
<1> TAKE g \in DOMAIN grant'
<1>1. \/ g \in DOMAIN grant /\ g[1] # old
      \/ \E h \in DOMAIN grant : h[1] = old /\ g = <<new, h[2]>>
  BY DEF Moved, GrantsAt
<1>2. CASE \E h \in DOMAIN grant : h[1] = old /\ g = <<new, h[2]>>
  <2>1. PICK h \in DOMAIN grant : h[1] = old /\ g = <<new, h[2]>> BY <1>2
  <2>2. h = <<old, g[2]>> /\ g[1] = new BY <2>1
  <2>3. grant'[g] = grant[h] BY <2>1, <2>2 DEF Moved
  <2> QED BY <2>1, <2>3
<1>3. CASE g \in DOMAIN grant /\ g[1] # old
  <2>1. \/ grant'[g] = grant[g]
        \/ <<old, g[2]>> \in DOMAIN grant /\ grant'[g] = grant[<<old, g[2]>>]
    BY DEF Moved
  <2> QED BY <1>3, <2>1
<1> QED BY <1>1, <1>2, <1>3

LEMMA PermissionsKept == PermissionsInv /\ [PermissionsNext]_permissionVars => PermissionsInv'
<1> SUFFICES ASSUME PermissionsInv, [PermissionsNext]_permissionVars PROVE PermissionsInv' OBVIOUS
<1> USE DEF PermissionsInv, GrantFits
<1>a. ASSUME UNCHANGED grant, Scopes \subseteq Scopes' PROVE PermissionsInv'
  BY <1>a
<1>1. ASSUME NEW p \in People \cup {Controller}, GrantOps(p) PROVE PermissionsInv' BY <1>1, GrantOpsKeep
<1>2. ASSUME NEW p, NEW n, SectionCreate(p, n) PROVE PermissionsInv'
  <2>1. Scopes \subseteq Scopes' BY <1>2 DEF SectionCreate, Scopes, Standing
  <2> QED BY <1>2, <2>1, <1>a DEF SectionCreate
<1>3. ASSUME NEW p, NEW n, SectionDelete(p, n) PROVE PermissionsInv'
  <2>1. grant' = Without(GrantsAt(SectionScope(n))) BY <1>3 DEF SectionDelete
  <2>2. Scopes \ {SectionScope(n)} \subseteq Scopes' BY <1>3 DEF SectionDelete, Scopes, Standing, SectionScope
  <2>3. \A g \in DOMAIN grant' : g \in DOMAIN grant \ GrantsAt(SectionScope(n)) /\ grant'[g] = grant[g]
    BY <2>1, RemovesGrants
  <2> QED BY <2>2, <2>3 DEF GrantsAt
<1>4. ASSUME NEW p, NEW n, NEW m, SectionRenamed(p, n, m) PROVE PermissionsInv'
  <2>1. /\ sections' = (sections \ {n}) \cup {m} /\ DOMAIN sectionOf' = DOMAIN sectionOf
        /\ grant' = Moved(SectionScope(n), SectionScope(m)) /\ n # m
    BY <1>4 DEF SectionRenamed, Standing
  <2>2. /\ Scopes \ {SectionScope(n)} \subseteq Scopes' /\ SectionScope(m) \in Scopes'
        /\ SectionScope(n) # SectionScope(m)
    BY <2>1 DEF Scopes, Standing, SectionScope
  <2> QED BY <2>1, <2>2, MovesGrants
<1>5. ASSUME NEW p, NEW n, StandDelete(p, n) PROVE PermissionsInv'
  <2>1. grant' = Without(GrantsAt(StandScope(n))) BY <1>5 DEF StandDelete, Forget
  <2>2. Scopes \ {StandScope(n)} \subseteq Scopes' BY <1>5 DEF StandDelete, Scopes, Standing, StandScope, Restrict
  <2>3. \A g \in DOMAIN grant' : g \in DOMAIN grant \ GrantsAt(StandScope(n)) /\ grant'[g] = grant[g]
    BY <2>1, RemovesGrants
  <2> QED BY <2>2, <2>3 DEF GrantsAt
<1>6. ASSUME NEW p, NEW n, NEW m, StandRenamed(p, n, m) PROVE PermissionsInv'
  <2>1. /\ DOMAIN sectionOf' = (DOMAIN sectionOf \ {n}) \cup {m} /\ sections' = sections
        /\ grant' = Moved(StandScope(n), StandScope(m)) /\ n # m
    BY <1>6 DEF StandRenamed, Standing, Restrict, Put
  <2>2. /\ Scopes \ {StandScope(n)} \subseteq Scopes' /\ StandScope(m) \in Scopes'
        /\ StandScope(n) # StandScope(m)
    BY <2>1 DEF Scopes, Standing, StandScope
  <2> QED BY <2>1, <2>2, MovesGrants
<1>7. ASSUME NEW p, NEW n, NEW sec, StandCreated(p, n, sec) PROVE PermissionsInv'
  <2>1. DOMAIN sectionOf' = DOMAIN sectionOf \cup {n} /\ UNCHANGED <<sections, grant>>
    BY <1>7 DEF StandCreated, Put
  <2>2. Scopes \subseteq Scopes' BY <2>1 DEF Scopes, Standing
  <2> QED BY <2>1, <2>2, <1>a
<1>8. ASSUME NEW n, CommandersGranted(n) PROVE PermissionsInv'
  <2>1. PICK D \in SUBSET People : Commanders \in [D -> Offers] BY CommandersAssumption
  <2>2. UNCHANGED <<sections, sectionOf>> /\ StandScope(n) \in Scopes BY <1>8 DEF CommandersGranted, Scopes
  <2>3. ASSUME NEW g \in DOMAIN grant' PROVE GrantFits(g, grant'[g], Scopes')
    <3>1. CASE g[1] = StandScope(n) /\ g[2] \in D
      <4>1. grant'[g] = Commanders[g[2]] /\ Commanders[g[2]] \in SUBSET Permission
        BY <1>8, <2>1, <3>1, <2>3, OffersArePermissions DEF CommandersGranted
      <4>2. g = <<g[1], g[2]>> BY <1>8, <2>1, <2>3 DEF CommandersGranted
      <4> QED BY <2>1, <2>2, <3>1, <4>1, <4>2, ScopesStay DEF Holders
    <3>2. CASE ~(g[1] = StandScope(n) /\ g[2] \in D)
      <4>1. g \in DOMAIN grant /\ grant'[g] = grant[g] BY <1>8, <2>1, <2>3, <3>2 DEF CommandersGranted
      <4> QED BY <2>2, <4>1, ScopesStay
    <3> QED BY <3>1, <3>2
  <2> QED BY <2>3
<1>9. CASE UNCHANGED permissionVars BY <1>9, <1>a, ScopesStay DEF permissionVars
<1> QED BY <1>1, <1>2, <1>3, <1>4, <1>5, <1>6, <1>7, <1>8, <1>9 DEF PermissionsNext

\* Nobody finds grants at a scope that is gone under its name (src/grants.py, forget and
\* rescope of src/stands.py), however scopes are renamed, deleted and created again.
THEOREM GrantsAreAtScopes == Spec => []NobodyInheritsAScope
<1>1. Init => PermissionsInv
  BY DEF Init, PermissionsInit, PermissionsInv
<1>2. PermissionsInv /\ [Next]_vars => PermissionsInv' BY PermissionsKept, PartsMoveApart
<1>3. PermissionsInv => NobodyInheritsAScope BY DEF PermissionsInv, GrantFits, NobodyInheritsAScope
<1> QED BY <1>1, <1>2, <1>3, PTL DEF Spec

LEMMA Powers ==
  ASSUME NEW a \in SUBSET Permission, NEW b \in SUBSET Permission
  PROVE  /\ a \subseteq Power(a) /\ Power(a) \in SUBSET Permission
         /\ Power(a \cup b) \subseteq Power(a) \cup Power(b)
         /\ "*" \in a => Power(a) = Permission
         /\ "*" \notin a => Power(a) = a
BY DEF Power

\* What somebody may delegate is held at the scope or above it.
LEMMA DelegatesWhatIsHeld ==
  ASSUME PermissionsInv, NEW p \in People, NEW s, NEW t, NEW perms \in SUBSET Permission, MayDelegate(p, s, t, perms)
  PROVE  Power(perms) \subseteq UNION {Power(grant[h]) : h \in Around(s)}
<1>1. Covers(KeysAt(p, s), perms) BY ControllerAssumption DEF MayDelegate
<1>2. \A h \in Around(s) : grant[h] \in SUBSET Permission BY DEF PermissionsInv, GrantFits, Around
<1>3. \A k \in KeysAt(p, s) : \E h \in Around(s) : k \in grant[h] BY DEF KeysAt, Around, GrantsOf
<1>4. CASE "*" \in KeysAt(p, s)
  <2>1. PICK h \in Around(s) : "*" \in grant[h] BY <1>3, <1>4
  <2>2. Power(grant[h]) = Permission BY <1>2, <2>1, Powers
  <2>3. Power(perms) \in SUBSET Permission BY Powers
  <2> QED BY <2>2, <2>3
<1>5. CASE "*" \notin perms /\ perms \subseteq KeysAt(p, s)
  <2> SUFFICES ASSUME NEW k \in Power(perms) PROVE k \in UNION {Power(grant[h]) : h \in Around(s)} OBVIOUS
  <2>1. k \in perms BY <1>5, Powers
  <2>2. PICK h \in Around(s) : k \in grant[h] BY <1>3, <1>5, <2>1
  <2>3. k \in Power(grant[h]) BY <1>2, <2>2, Powers
  <2> QED BY <2>3
<1> QED BY <1>1, <1>4, <1>5 DEF Covers

LEMMA NoPowerAdded ==
  ASSUME PermissionsInv, NEW p \in People, GrantOps(p), NEW g \in DOMAIN grant'
  PROVE  \/ g \in DOMAIN grant /\ grant'[g] \subseteq grant[g]
         \/ Power(grant'[g]) \subseteq UNION {Power(grant[h]) : h \in Around(g[1])}
<1>1. ASSUME NEW s \in Scopes, NEW t \in Holders, GrantRemove(p, s, t)
      PROVE  g \in DOMAIN grant /\ grant'[g] \subseteq grant[g]
  <2>1. grant' = Without({<<s, t>>}) BY <1>1 DEF GrantRemove
  <2> QED BY <2>1, RemovesGrants
<1>2. ASSUME NEW s \in Scopes, NEW t \in Holders, NEW perms \in Offers, GrantSet(p, s, t, perms), g = <<s, t>>
      PROVE  Power(grant'[g]) \subseteq UNION {Power(grant[h]) : h \in Around(g[1])}
  <2>1. grant'[g] = perms /\ g[1] = s BY <1>2, SetGrants
  <2>2. perms \in SUBSET Permission BY OffersArePermissions
  <2>3. MayDelegate(p, s, t, perms) BY <1>2 DEF GrantSet
  <2>4. Power(perms) \subseteq UNION {Power(grant[h]) : h \in Around(s)} BY <2>2, <2>3, DelegatesWhatIsHeld
  <2> QED BY <2>1, <2>4
<1>3. ASSUME NEW s \in Scopes, NEW t \in Holders, NEW perms \in Offers, GrantSet(p, s, t, perms), g # <<s, t>>
      PROVE  g \in DOMAIN grant /\ grant'[g] = grant[g]
  <2>1. /\ DOMAIN grant' = DOMAIN grant \cup {<<s, t>>}
        /\ \A h \in DOMAIN grant \ {<<s, t>>} : grant'[h] = grant[h]
    BY <1>3, SetGrants
  <2> QED BY <1>3, <2>1
<1>4. ASSUME NEW c \in Codes, GrantClaim(p, c), ~(g \in DOMAIN grant /\ grant'[g] = grant[g])
      PROVE  Power(grant'[g]) \subseteq UNION {Power(grant[h]) : h \in Around(g[1])}
  <2> DEFINE slot == <<g[1], c>>
  <2>1. \A h \in DOMAIN grant : h = <<h[1], h[2]>> /\ grant[h] \in SUBSET Permission
    BY DEF PermissionsInv, GrantFits
  <2>2. /\ slot \in DOMAIN grant
        /\ \/ g \in DOMAIN grant /\ grant'[g] = grant[g] \cup grant[slot]
           \/ grant'[g] = grant[slot]
    BY <1>4, <2>1, ClaimsGrants
  <2>3. slot \in Around(g[1]) /\ (g \in DOMAIN grant => g \in Around(g[1])) BY <2>2 DEF Around, ChainOf
  <2>4. CASE grant'[g] = grant[slot] BY <2>3, <2>4
  <2>5. CASE g \in DOMAIN grant /\ grant'[g] = grant[g] \cup grant[slot]
    <3>1. Power(grant'[g]) \subseteq Power(grant[g]) \cup Power(grant[slot]) BY <2>1, <2>2, <2>5, Powers
    <3> QED BY <2>3, <2>5, <3>1
  <2> QED BY <2>2, <2>4, <2>5
<1> QED BY <1>1, <1>2, <1>3, <1>4 DEF GrantOps

\* Granting, claiming and removing bring nobody a power at a scope that nobody held there
\* or above it (check_delegation of src/auth.py, grant_claim of src/grants.py).
THEOREM PowersAreHandedDown == Spec => GrantsAddNoPowers
<1>1. Init => PermissionsInv
  BY DEF Init, PermissionsInit, PermissionsInv
<1>2. PermissionsInv /\ [Next]_vars => PermissionsInv' BY PermissionsKept, PartsMoveApart
<1>3. PermissionsInv => [AddsNoPower]_permissionVars BY NoPowerAdded DEF AddsNoPower
<1> QED BY <1>1, <1>2, <1>3, PTL DEF Spec, GrantsAddNoPowers
-----------------------------------------------------------------------------
(* `casals up' *)

Making == {"bootstrap", "bind", "install", "own"}   \* bootstrap_conductor is on a key
After == {"fund", "fund_store", "permit", "upload", "hand_sheet", "wait", "hand_off"}
Owner == {Deployer, Backend} \cup Declared
Canister == [lives : BOOLEAN, code : Nat, cycles : Int, owners : SUBSET Owner]
UpRecord == [at : Making \cup After, strict : BOOLEAN, todo : Seq(Key), bound : SUBSET Key, counted : BOOLEAN]

UpOK ==
  /\ site \in [Key -> Canister] /\ file \in SUBSET Key /\ artifact \in {1, 2} /\ purse \in Nat
  /\ conductor \in {"empty", "building", "failed", "built"}
  /\ up \in {NoRun} \cup UpRecord
  /\ cut \in SUBSET Key /\ orphans \in SUBSET Key

\* A canister that is there and installed.
Stands(c) == c.lives /\ c.code # 0

\* What a run r relies on, of the bindings f and the canisters s: it is bound to what the
\* file says, the canisters of the keys behind it are in place, and so is, as far as it
\* got, that of the key it is on.
RunFitsIn(r, f, s) ==
  /\ r.bound = f
  /\ r.at \in After => f = Key /\ \A k \in Key : Stands(s[k])
  /\ r.at \in Making => IsInjective(r.todo) /\ \A k \in Key \ ToSet(r.todo) : k \in f /\ Stands(s[k])
  /\ r.at \in {"bind", "install", "own"} => r.todo # <<>> /\ s[Head(r.todo)].lives
  /\ r.at = "bind" => s[Head(r.todo)].code = 0
  /\ r.at \in {"install", "own"} => Head(r.todo) \in f
  /\ r.at = "own" => s[Head(r.todo)].code # 0
RunFits == up # NoRun => RunFitsIn(up, file, site)

\* A canister is made only where there is none, unless its maker died before it was bound.
MadeIsKnown ==
  /\ \A k \in Key : site[k].lives => k \in file \/ k \in cut \/ (up.at = "bind" /\ k = Head(up.todo))
  /\ MadeOnce

\* A conductor that has a sheet is in place, and one not installed has its deposit.
ConductorThere ==
  /\ conductor # "empty" => file = Key /\ Stands(site[Backend])
  /\ site[Backend].lives /\ site[Backend].code = 0 => site[Backend].cycles >= DEPOSIT - FEE

\* What the conductor has, or will have when it is made; and what is yet to be made.
Coming(r, s) == IF Backend \in r.bound /\ s[Backend].lives THEN s[Backend].cycles ELSE DEPOSIT - FEE
Unmade(r) == IF r.at = "bind" THEN Key \ (r.bound \cup {Head(r.todo)}) ELSE Key \ r.bound

\* While a fresh deploy's count holds, the deployer still has what is left to pay.
FundsLastIn(r, s, p, c) ==
  r.at \in Making \cup {"fund"} =>
    /\ r.strict => c = "empty"
    /\ r.counted => \A k \in r.bound : s[k].lives
    /\ r.strict /\ r.counted => p >= Cardinality(Unmade(r)) * DEPOSIT + ToBudget(Coming(r, s)) + KEEP
FundsLast == up # NoRun => FundsLastIn(up, site, purse, conductor)

UpInv == UpOK /\ RunFits /\ MadeIsKnown /\ ConductorThere /\ FundsLast /\ PreflightIsEnough

LEMMA KeysAreFinite == IsFiniteSet(Key) /\ \A S \in SUBSET Key : IsFiniteSet(S) /\ Cardinality(S) \in Nat
<1>1. IsFiniteSet(Key)
  <2> DEFINE n == Len(DeclaredKeys)
             f == [i \in 1..n |-> DeclaredKeys[i]]
  <2>1. n \in Nat /\ DOMAIN DeclaredKeys = 1..n /\ \A i \in 1..n : DeclaredKeys[i] \in Key BY DeclaredKeysAssumption
  <2>2. \A k \in Key : \E i \in 1..n : f[i] = k BY <2>1 DEF Key, ToSet
  <2>3. f \in Surjection(1..n, Key) BY <2>1, <2>2 DEF Surjection
  <2>4. IsFiniteSet(1..n) BY <2>1, FS_Interval
  <2> HIDE DEF f, n
  <2> QED BY <2>3, <2>4, FS_Surjection
<1> QED BY <1>1, FS_Subset, FS_CardinalityType

\* What a conductor needs up to its budget, and how it falls with what it has.
LEMMA Budgets ==
  /\ \A have \in Int : ToBudget(have) \in Int /\ ToBudget(have) >= 0 /\ (ToBudget(have) > 0 => ToBudget(have) = Budget - have)
  /\ \A have \in Int, more \in Int : have <= more => ToBudget(more) <= ToBudget(have)
BY LimitsAssumption DEF ToBudget

LEMMA RunIsOn ==
  ASSUME UpInv, ~UpAt("none")
  PROVE  up \in UpRecord /\ up # NoRun /\ RunFitsIn(up, file, site) /\ FundsLastIn(up, site, purse, conductor)
BY DEF UpInv, UpOK, RunFits, FundsLast, UpAt, NoRun

LEMMA Invariant ==
  ASSUME UpOK', up' \in UpRecord, RunFitsIn(up', file', site'), FundsLastIn(up', site', purse', conductor'),
         MadeIsKnown', ConductorThere', PreflightIsEnough'
  PROVE  UpInv'
BY DEF UpInv, RunFits, FundsLast, PreflightIsEnough

\* A run that ends takes nothing back; only what it was about to bind is cut off.
LEMMA RunEnds ==
  ASSUME UpInv, up' = NoRun, UNCHANGED <<site, artifact, purse, orphans, file>>, PreflightIsEnough',
         conductor' \in {"empty", "building", "failed", "built"},
         conductor' = conductor \/ (file = Key /\ Stands(site[Backend])),
         cut' = IF UpAt("bind") THEN cut \cup {Next1} ELSE cut
  PROVE  UpInv'
<1>0. UpAt("bind") => Next1 \in Key
  <2> HAVE UpAt("bind")
  <2>1. up \in UpRecord /\ RunFitsIn(up, file, site) BY RunIsOn DEF UpAt
  <2>2. up.todo \in Seq(Key) /\ up.todo # <<>> BY <2>1 DEF UpRecord, RunFitsIn, UpAt
  <2> QED BY <2>2, HeadAndTail DEF Next1
<1>1. UpOK'
  <2>1. cut' \in SUBSET Key BY <1>0 DEF UpInv, UpOK
  <2> QED BY <2>1 DEF UpInv, UpOK
<1>2. RunFits' /\ FundsLast' BY DEF RunFits, FundsLast
<1>3. MadeIsKnown'
  <2>1. cut \subseteq cut' BY DEF UpAt
  <2>2. MadeIsKnown BY DEF UpInv
  <2>3. ASSUME NEW k \in Key, site[k].lives PROVE k \in file \/ k \in cut'
    <3>1. k \in file \/ k \in cut \/ (up.at = "bind" /\ k = Head(up.todo)) BY <2>2, <2>3 DEF MadeIsKnown
    <3> QED BY <3>1 DEF UpAt, Next1
  <2> QED BY <2>1, <2>2, <2>3 DEF MadeIsKnown, MadeOnce
<1>4. ConductorThere' BY DEF UpInv, ConductorThere
<1> QED BY <1>1, <1>2, <1>3, <1>4 DEF UpInv, PreflightIsEnough

\* A run that is past the making goes on: the canisters are all there and stay.
LEMMA RunGoesOn ==
  ASSUME UpInv, up.at \in After, up' \in UpRecord, up'.at \in After \ {"fund"}, up'.bound = up.bound,
         site' \in [Key -> Canister], \A k \in Key : site'[k].lives = site[k].lives /\ site'[k].code = site[k].code,
         UNCHANGED <<file, artifact, cut, orphans, refused>>, purse' \in Nat,
         conductor' \in {"empty", "building", "failed", "built"}
  PROVE  UpInv'
<1>1. UpOK' BY DEF UpInv, UpOK
<1>2. RunFitsIn(up, file, site) /\ Backend \in Key BY RunIsOn, DeclaredKeysAssumption DEF UpAt, After
<1>3. up.bound = file /\ file = Key /\ \A k \in Key : Stands(site[k]) BY <1>2 DEF RunFitsIn
<1>4. \A k \in Key : Stands(site'[k]) BY <1>3 DEF Stands
<1>5. up'.at \notin Making /\ up'.at \notin {"bind", "install", "own", "fund"} BY DEF After, Making
<1>6. RunFitsIn(up', file', site') BY <1>3, <1>4, <1>5 DEF RunFitsIn
<1>7. FundsLastIn(up', site', purse', conductor') BY <1>5 DEF FundsLastIn
<1>8. MadeIsKnown' BY <1>3 DEF UpInv, MadeIsKnown, MadeOnce
<1>9. ConductorThere' BY <1>2, <1>3, <1>4 DEF ConductorThere, Stands
<1> QED BY <1>1, <1>6, <1>7, <1>8, <1>9, Invariant DEF UpInv, PreflightIsEnough

\* Where no run is on.
LEMMA Resting ==
  ASSUME UpOK', up' = NoRun, MadeIsKnown', ConductorThere', PreflightIsEnough'
  PROVE  UpInv'
BY DEF UpInv, RunFits, FundsLast, PreflightIsEnough

LEMMA StartKeeps == ASSUME UpInv, Start PROVE UpInv'
<1>1. CASE UNCHANGED up
  BY <1>1 DEF Start, UpInv, UpOK, RunFits, MadeIsKnown, MadeOnce, ConductorThere, FundsLast, PreflightIsEnough
<1>2. CASE ~Built /\ Funded /\ up' = [at |-> "bootstrap", strict |-> Strict, todo |-> DeclaredKeys, bound |-> file,
                                      counted |-> \A k \in file : site[k].lives]
  <2>0. UNCHANGED <<site, file, artifact, purse, conductor, cut, orphans, refused>> /\ up.at = "none" BY DEF Start, UpAt
  <2>1. file \in SUBSET Key /\ site \in [Key -> Canister] /\ Backend \in Key /\ purse \in Nat
    BY DeclaredKeysAssumption DEF UpInv, UpOK
  <2>2. up' \in UpRecord BY <1>2, <2>1, DeclaredKeysAssumption DEF UpRecord, Making, Strict
  <2>3. up'.at = "bootstrap" /\ up'.strict = Strict /\ up'.todo = DeclaredKeys /\ up'.bound = file
        /\ (up'.counted => \A k \in file : site[k].lives)
    BY <1>2
  <2>4. UpOK' BY <2>0, <2>2 DEF UpInv, UpOK
  <2>5. RunFitsIn(up', file', site') BY <2>0, <2>3, DeclaredKeysAssumption DEF RunFitsIn, After, Making, Key
  <2>6. FundsLastIn(up', site', purse', conductor')
    <3>1. ToCreate = Key \ file /\ Unmade(up') = Key \ file BY <2>3 DEF ToCreate, Unmade
    <3>2. Strict => conductor = "empty" BY <2>1, <3>1 DEF Strict, UpInv, ConductorThere
    <3>3. ASSUME Strict, up'.counted PROVE purse >= Cardinality(Key \ file) * DEPOSIT + ToBudget(Coming(up', site)) + KEEP
      <4>1. purse >= Cardinality(Key \ file) * DEPOSIT + ToBudget(Held) + KEEP BY <1>2, <3>1, <3>3 DEF Funded, Needed
      <4>2. Held \in Int /\ Coming(up', site) \in Int /\ Held <= Coming(up', site)
        <5>1. site[Backend].cycles \in Int /\ site[Backend].code \in Nat /\ DEPOSIT - FEE \in Int
          BY <2>1, FeeAssumption DEF Canister
        <5>2. Held = (IF Backend \in file /\ site[Backend].lives /\ site[Backend].code # 0 THEN site[Backend].cycles ELSE DEPOSIT - FEE)
          BY DEF Held, InPlace
        <5>3. Coming(up', site) = (IF Backend \in file /\ site[Backend].lives THEN site[Backend].cycles ELSE DEPOSIT - FEE)
          BY <2>3 DEF Coming
        <5>4. site[Backend].lives /\ site[Backend].code = 0 => site[Backend].cycles >= DEPOSIT - FEE
          BY DEF UpInv, ConductorThere
        <5> QED BY <5>1, <5>2, <5>3, <5>4
      <4>3. ToBudget(Coming(up', site)) <= ToBudget(Held) /\ ToBudget(Held) \in Int /\ ToBudget(Coming(up', site)) \in Int
        BY <4>2, Budgets
      <4>4. Cardinality(Key \ file) * DEPOSIT \in Int /\ KEEP \in Int
        <5>1. Cardinality(Key \ file) \in Nat BY KeysAreFinite
        <5> QED BY <5>1, FeeAssumption
      <4> HIDE DEF ToBudget
      <4> QED BY <2>1, <4>1, <4>3, <4>4
    <3> QED BY <2>0, <2>3, <3>1, <3>2, <3>3 DEF FundsLastIn
  <2>7. MadeIsKnown' /\ ConductorThere' BY <2>0, <2>3 DEF UpInv, MadeIsKnown, MadeOnce, ConductorThere
  <2> QED BY <2>0, <2>2, <2>4, <2>5, <2>6, <2>7, Invariant DEF UpInv, PreflightIsEnough
<1> QED BY <1>1, <1>2 DEF Start

\* The key bootstrap_conductor is on.
LEMMA OnKey ==
  ASSUME UpInv, up \in UpRecord, RunFitsIn(up, file, site), up.at \in Making, up.todo # <<>>
  PROVE  /\ Next1 \in Key /\ Next1 \in ToSet(up.todo) /\ Tail(up.todo) \in Seq(Key) /\ IsInjective(Tail(up.todo))
         /\ Key \ ToSet(Tail(up.todo)) = (Key \ ToSet(up.todo)) \cup {Next1}
<1>1. up.todo \in Seq(Key) /\ IsInjective(up.todo) BY DEF UpRecord, RunFitsIn
<1>2. Next1 \in Key /\ Next1 \in ToSet(up.todo) /\ Tail(up.todo) \in Seq(Key) /\ IsInjective(Tail(up.todo))
      /\ ToSet(Tail(up.todo)) = ToSet(up.todo) \ {Next1}
  BY <1>1, HeadAndTail DEF Next1
<1> QED BY <1>2

\* The key it is on is done with: its canister is bound, there and installed.
LEMMA KeyDone ==
  ASSUME UpInv, up \in UpRecord, RunFitsIn(up, file, site), FundsLastIn(up, site, purse, conductor),
         up.at \in {"bootstrap", "own"}, up.todo # <<>>, Next1 \in up.bound, up' = Bootstrapped(Next1), file' = file,
         site' \in [Key -> Canister], Stands(site'[Next1]),
         \A k \in Key : site'[k].lives = site[k].lives /\ site'[k].cycles = site[k].cycles
                        /\ (site'[k].code = site[k].code \/ site'[k].code # 0),
         UNCHANGED <<artifact, purse, conductor, cut, orphans, refused>>
  PROVE  UpInv'
<1>0. Next1 \in Key /\ Tail(up.todo) \in Seq(Key) /\ IsInjective(Tail(up.todo)) /\ Backend \in Key
      /\ Key \ ToSet(Tail(up.todo)) = (Key \ ToSet(up.todo)) \cup {Next1}
  BY OnKey, DeclaredKeysAssumption DEF Making
<1>1. /\ up' \in UpRecord /\ up'.at = "bootstrap" /\ up'.todo = Tail(up.todo) /\ up'.bound = up.bound
      /\ up'.strict = up.strict /\ up'.counted = up.counted
  BY <1>0 DEF UpRecord, Bootstrapped, Making
<1>2. UpOK' BY <1>1 DEF UpInv, UpOK
<1>3. RunFitsIn(up', file', site')
  <2>1. \A k \in Key \ ToSet(up.todo) : k \in file /\ Stands(site[k]) BY DEF RunFitsIn, Making
  <2>2. \A k \in Key \ ToSet(Tail(up.todo)) : k \in file /\ Stands(site'[k])
    BY <1>0, <2>1 DEF Stands, RunFitsIn
  <2> QED BY <1>0, <1>1, <2>2 DEF RunFitsIn, Making, After
<1>4. FundsLastIn(up', site', purse', conductor')
  <2>1. Unmade(up') = Unmade(up) BY <1>1 DEF Unmade
  <2>2. Coming(up', site') = Coming(up, site) BY <1>0, <1>1 DEF Coming
  <2>3. up.bound \subseteq Key BY DEF UpRecord
  <2> QED BY <1>1, <2>1, <2>2, <2>3 DEF FundsLastIn, Making
<1>5. MadeIsKnown'
  <2>1. up.at # "bind" OBVIOUS
  <2> QED BY <1>1, <2>1 DEF UpInv, MadeIsKnown, MadeOnce
<1>6. ConductorThere'
  BY <1>0 DEF UpInv, ConductorThere, Stands
<1> QED BY <1>1, <1>2, <1>3, <1>4, <1>5, <1>6, Invariant DEF UpInv, PreflightIsEnough

LEMMA SkipKeeps == ASSUME UpInv, NEW k \in Key, SkipCanister(k) PROVE UpInv'
<1>1. up.at = "bootstrap" /\ up.todo # <<>> /\ Next1 = k /\ k \in up.bound /\ site[k].lives /\ site[k].code = artifact
      /\ up' = Bootstrapped(Next1) /\ UNCHANGED <<site, file, artifact, purse, conductor, cut, orphans, refused>>
  BY DEF SkipCanister, Bootstrapping, Existing, UpAt
<1>2. up \in UpRecord /\ RunFitsIn(up, file, site) /\ FundsLastIn(up, site, purse, conductor) BY <1>1, RunIsOn DEF UpAt
<1>3. Stands(site'[Next1]) /\ site' \in [Key -> Canister] BY <1>1 DEF Stands, UpInv, UpOK
<1> QED BY <1>1, <1>2, <1>3, KeyDone

LEMMA UpgradeKeeps == ASSUME UpInv, NEW k \in Key, UpgradeCanister(k) PROVE UpInv'
<1>1. up.at = "bootstrap" /\ up.todo # <<>> /\ Next1 = k /\ k \in up.bound /\ site[k].lives
      /\ UNCHANGED <<artifact, purse, conductor, cut, orphans, refused>>
  BY DEF UpgradeCanister, Bootstrapping, Existing, UpAt
<1>2. up \in UpRecord /\ RunFitsIn(up, file, site) /\ FundsLastIn(up, site, purse, conductor) BY <1>1, RunIsOn DEF UpAt
<1>3. CASE up' = NoRun /\ UNCHANGED <<site, file>> BY <1>1, <1>3, RunEnds DEF UpInv, UpOK, UpAt, PreflightIsEnough
<1>4. CASE site' = [site EXCEPT ![k].code = artifact] /\ up' = Bootstrapped(k)
           /\ file' = IF k \in {Backend, Store} THEN file ELSE up.bound
  <2>1. site \in [Key -> Canister] /\ artifact \in Nat /\ artifact # 0 BY DEF UpInv, UpOK
  <2>2. site' \in [Key -> Canister] /\ Stands(site'[k])
        /\ \A h \in Key : site'[h].lives = site[h].lives /\ site'[h].cycles = site[h].cycles
                        /\ (site'[h].code = site[h].code \/ site'[h].code # 0)
    BY <1>1, <1>4, <2>1 DEF Canister, Stands
  <2>3. file' = file BY <1>2, <1>4 DEF RunFitsIn
  <2> QED BY <1>1, <1>2, <1>4, <2>2, <2>3, KeyDone
<1> QED BY <1>3, <1>4 DEF UpgradeCanister, UpEnds

LEMMA OwnersKeep == ASSUME UpInv, SetOwners PROVE UpInv'
<1>1. up.at = "own" /\ up' = Bootstrapped(Next1) /\ UNCHANGED <<artifact, purse, conductor, cut, orphans, refused>>
      /\ site' = [site EXCEPT ![Next1].owners = IF Next1 \notin {Backend, Store} THEN {Deployer, Backend} ELSE {Deployer}]
      /\ file' = IF Next1 \notin {Backend, Store} THEN up'.bound ELSE file
  BY DEF SetOwners, UpAt
<1>2. up \in UpRecord /\ RunFitsIn(up, file, site) /\ FundsLastIn(up, site, purse, conductor) BY <1>1, RunIsOn DEF UpAt
<1>3. up.todo # <<>> /\ Next1 \in file /\ up.bound = file /\ site[Next1].lives /\ site[Next1].code # 0
  BY <1>1, <1>2 DEF RunFitsIn, Next1
<1>4. Next1 \in Key BY <1>3 DEF UpInv, UpOK
<1>5. site \in [Key -> Canister] BY DEF UpInv, UpOK
<1>6. site' \in [Key -> Canister] /\ Stands(site'[Next1])
      /\ \A h \in Key : site'[h].lives = site[h].lives /\ site'[h].cycles = site[h].cycles /\ site'[h].code = site[h].code
  BY <1>1, <1>3, <1>4, <1>5 DEF Canister, Stands, Owner
<1>7. up'.bound = up.bound
  <2>1. up.bound \cup {Next1} = up.bound BY <1>3
  <2> QED BY <1>1, <1>2, <2>1 DEF Bootstrapped, UpRecord
<1>8. file' = file BY <1>1, <1>3, <1>7
<1> QED BY <1>1, <1>2, <1>3, <1>6, <1>8, KeyDone

\* What is left to pay falls by a deposit with each canister made.
LEMMA OneLessToMake ==
  ASSUME NEW S \in SUBSET Key, NEW k \in Key \ S
  PROVE  Cardinality(Key \ S) * DEPOSIT - DEPOSIT = Cardinality(Key \ (S \cup {k})) * DEPOSIT
<1>1. (Key \ S) \ {k} = Key \ (S \cup {k}) /\ k \in Key \ S OBVIOUS
<1>2. IsFiniteSet(Key \ S) /\ Cardinality(Key \ S) \in Nat BY KeysAreFinite
<1>3. Cardinality((Key \ S) \ {k}) = Cardinality(Key \ S) - 1 BY <1>1, <1>2, FS_RemoveElement
<1>4. \A n \in Nat, d \in Nat : n * d - d = (n - 1) * d OBVIOUS
<1>5. Cardinality(Key \ (S \cup {k})) = Cardinality(Key \ S) - 1 BY <1>1, <1>3
<1>6. Cardinality(Key \ S) * DEPOSIT - DEPOSIT = (Cardinality(Key \ S) - 1) * DEPOSIT
  BY <1>2, <1>4, FeeAssumption, Zenon
<1> QED BY <1>5, <1>6, Zenon

LEMMA CreateKeeps == ASSUME UpInv, NEW k \in Key, CreateCanister(k) PROVE UpInv'
<1>1. up.at = "bootstrap" /\ up.todo # <<>> /\ Next1 = k /\ k = Head(up.todo) /\ ~(k \in up.bound /\ site[k].lives)
      /\ UNCHANGED <<file, artifact, conductor, cut, refused>>
  BY DEF CreateCanister, Bootstrapping, Existing, UpAt, Next1
<1>2. up \in UpRecord /\ RunFitsIn(up, file, site) /\ FundsLastIn(up, site, purse, conductor) BY <1>1, RunIsOn DEF UpAt
<1>3. CASE up' = NoRun /\ UNCHANGED <<purse, site, orphans>> BY <1>1, <1>3, RunEnds DEF UpInv, UpOK, UpAt, PreflightIsEnough
<1>4. CASE /\ purse >= DEPOSIT /\ purse' = purse - DEPOSIT
           /\ site' = [site EXCEPT ![k] = [lives |-> TRUE, code |-> 0, cycles |-> DEPOSIT - FEE, owners |-> {Deployer}]]
           /\ orphans' = IF site[k].lives THEN orphans \cup {k} ELSE orphans
           /\ UpGoes("bind")
  <2>1. /\ site \in [Key -> Canister] /\ file \in SUBSET Key /\ purse \in Nat /\ Backend \in Key /\ DEPOSIT \in Nat /\ FEE \in 0..DEPOSIT
        /\ up.bound = file
    BY <1>2, DeclaredKeysAssumption, FeeAssumption DEF UpInv, UpOK, RunFitsIn
  <2>2. site' \in [Key -> Canister] /\ site'[k].lives /\ site'[k].code = 0 /\ site'[k].cycles = DEPOSIT - FEE
        /\ \A h \in Key \ {k} : site'[h] = site[h]
    BY <1>4, <2>1 DEF Canister, Owner
  <2>3. /\ up' \in UpRecord /\ up'.at = "bind" /\ up'.todo = up.todo /\ up'.bound = up.bound
        /\ up'.strict = up.strict /\ up'.counted = up.counted
    BY <1>2, <1>4 DEF UpGoes, UpRecord, Making
  <2>4. UpOK' BY <1>1, <1>4, <2>1, <2>2, <2>3 DEF UpInv, UpOK
  <2>5. RunFitsIn(up', file', site')
    <3>1. k \in ToSet(up.todo) BY <1>1, <1>2, OnKey DEF Making
    <3>2. IsInjective(up.todo) /\ \A h \in Key \ ToSet(up.todo) : h \in file /\ Stands(site[h])
      BY <1>1, <1>2 DEF RunFitsIn, Making
    <3>3. \A h \in Key \ ToSet(up.todo) : h \in file /\ Stands(site'[h]) BY <2>2, <3>1, <3>2
    <3> QED BY <1>1, <2>1, <2>2, <2>3, <3>2, <3>3 DEF RunFitsIn, Making, After
  <2>6. FundsLastIn(up', site', purse', conductor')
    <3>1. /\ up.strict => conductor = "empty"
          /\ up.counted => \A h \in up.bound : site[h].lives
          /\ up.strict /\ up.counted => purse >= Cardinality(Unmade(up)) * DEPOSIT + ToBudget(Coming(up, site)) + KEEP
      BY <1>1, <1>2 DEF FundsLastIn, Making
    <3>2. up'.counted => k \notin up.bound BY <1>1, <2>3, <3>1
    <3>3. up'.counted => \A h \in up'.bound : site'[h].lives BY <2>1, <2>2, <2>3, <3>1, <3>2
    <3>4. ASSUME k \notin up.bound, purse >= Cardinality(Unmade(up)) * DEPOSIT + ToBudget(Coming(up, site)) + KEEP
          PROVE  purse' >= Cardinality(Unmade(up')) * DEPOSIT + ToBudget(Coming(up', site')) + KEEP
      <4>1. Unmade(up) = Key \ up.bound /\ Unmade(up') = Key \ (up.bound \cup {k}) BY <1>1, <2>3 DEF Unmade
      <4>2. Coming(up', site') = Coming(up, site) BY <2>1, <2>2, <2>3, <3>4 DEF Coming
      <4>3. Cardinality(Key \ up.bound) * DEPOSIT - DEPOSIT = Cardinality(Key \ (up.bound \cup {k})) * DEPOSIT
        BY <2>1, <3>4, OneLessToMake
      <4>4. Coming(up, site) \in Int BY <2>1 DEF Coming, Canister
      <4>5. ToBudget(Coming(up, site)) \in Int /\ KEEP \in Int BY <4>4, Budgets, FeeAssumption
      <4>6. Cardinality(Key \ up.bound) * DEPOSIT \in Int /\ Cardinality(Key \ (up.bound \cup {k})) * DEPOSIT \in Int
        <5>1. Cardinality(Key \ up.bound) \in Nat /\ Cardinality(Key \ (up.bound \cup {k})) \in Nat BY KeysAreFinite
        <5> QED BY <5>1, <2>1
      <4> DEFINE before == Cardinality(Key \ up.bound) * DEPOSIT
                 now == Cardinality(Key \ (up.bound \cup {k})) * DEPOSIT
                 left == ToBudget(Coming(up, site))
      <4>7. purse >= before + left + KEEP /\ purse' = purse - DEPOSIT /\ before - DEPOSIT = now /\ before \in Int
            /\ now \in Int /\ left \in Int
        BY <1>4, <3>4, <4>1, <4>3, <4>5, <4>6
      <4> HIDE DEF before, now, left
      <4>8. purse' >= now + left + KEEP BY <2>1, <4>5, <4>7
      <4> QED BY <4>1, <4>2, <4>8 DEF now, left
    <3> QED BY <1>1, <2>3, <3>1, <3>2, <3>3, <3>4 DEF FundsLastIn, Making
  <2>7. MadeIsKnown'
    <3>1. \A h \in Key : site[h].lives => h \in file \/ h \in cut BY <1>1 DEF UpInv, MadeIsKnown
    <3>2. site[k].lives => k \in cut BY <1>1, <2>1, <3>1
    <3>3. orphans' \subseteq cut' BY <1>1, <1>4, <3>2 DEF UpInv, MadeIsKnown, MadeOnce
    <3>4. \A h \in Key : site'[h].lives => h \in file' \/ h \in cut' \/ (up'.at = "bind" /\ h = Head(up'.todo))
      BY <1>1, <2>2, <2>3, <3>1
    <3> QED BY <3>3, <3>4 DEF MadeIsKnown, MadeOnce
  <2>8. ConductorThere'
    <3>1. conductor # "empty" => file = Key /\ Stands(site[Backend]) BY DEF UpInv, ConductorThere
    <3>2. site[Backend].lives /\ site[Backend].code = 0 => site[Backend].cycles >= DEPOSIT - FEE BY DEF UpInv, ConductorThere
    <3>3. k \in file => ~site[k].lives BY <1>1, <2>1
    <3>4. conductor # "empty" => k # Backend BY <3>1, <3>3, <2>1 DEF Stands
    <3> QED BY <1>1, <2>1, <2>2, <3>1, <3>2, <3>4 DEF ConductorThere
  <2> QED BY <1>1, <2>3, <2>4, <2>5, <2>6, <2>7, <2>8, Invariant DEF UpInv, PreflightIsEnough
<1> QED BY <1>3, <1>4 DEF CreateCanister, UpEnds

LEMMA ResumeKeeps == ASSUME UpInv, NEW k \in Key, ResumeCanister(k) PROVE UpInv'
<1>1. up.at = "bootstrap" /\ up.todo # <<>> /\ k = Head(up.todo) /\ k \in up.bound /\ site[k].lives /\ site[k].code = 0
      /\ UNCHANGED <<site, file, artifact, purse, conductor, cut, orphans, refused>> /\ UpGoes("bind")
  BY DEF ResumeCanister, Bootstrapping, Existing, UpAt, Next1
<1>2. up \in UpRecord /\ RunFitsIn(up, file, site) /\ FundsLastIn(up, site, purse, conductor) BY <1>1, RunIsOn DEF UpAt
<1>3. /\ up' \in UpRecord /\ up'.at = "bind" /\ up'.todo = up.todo /\ up'.bound = up.bound
      /\ up'.strict = up.strict /\ up'.counted = up.counted
  BY <1>1, <1>2 DEF UpGoes, UpRecord, Making
<1>4. UpOK' BY <1>1, <1>3 DEF UpInv, UpOK
<1>5. RunFitsIn(up', file', site') BY <1>1, <1>2, <1>3 DEF RunFitsIn, Making, After
<1>6. FundsLastIn(up', site', purse', conductor')
  <2>1. Unmade(up') = Unmade(up) BY <1>1, <1>3 DEF Unmade
  <2>2. Coming(up', site') = Coming(up, site) BY <1>1, <1>3 DEF Coming
  <2> QED BY <1>1, <1>2, <1>3, <2>1, <2>2 DEF FundsLastIn, Making
<1>7. MadeIsKnown' BY <1>1, <1>3 DEF UpInv, MadeIsKnown, MadeOnce
<1>8. ConductorThere' BY <1>1 DEF UpInv, ConductorThere
<1> QED BY <1>1, <1>3, <1>4, <1>5, <1>6, <1>7, <1>8, Invariant DEF UpInv, PreflightIsEnough

LEMMA BindKeeps == ASSUME UpInv, Bind PROVE UpInv'
<1>1. up.at = "bind" /\ up' = [up EXCEPT !.at = "install", !.bound = @ \cup {Next1}] /\ file' = up'.bound
      /\ UNCHANGED <<site, artifact, purse, conductor, cut, orphans, refused>>
  BY DEF Bind, UpAt
<1>2. up \in UpRecord /\ RunFitsIn(up, file, site) /\ FundsLastIn(up, site, purse, conductor) BY <1>1, RunIsOn DEF UpAt
<1>3. up.todo # <<>> /\ site[Next1].lives /\ site[Next1].code = 0 /\ up.bound = file BY <1>1, <1>2 DEF RunFitsIn, Next1
<1>4. Next1 \in Key BY <1>1, <1>2, <1>3, OnKey DEF Making
<1>5. /\ up' \in UpRecord /\ up'.at = "install" /\ up'.todo = up.todo /\ up'.bound = up.bound \cup {Next1}
      /\ up'.strict = up.strict /\ up'.counted = up.counted
  BY <1>1, <1>2, <1>4 DEF UpRecord, Making
<1>6. file' = file \cup {Next1} /\ file \in SUBSET Key /\ site \in [Key -> Canister] /\ purse \in Nat
  BY <1>1, <1>3, <1>5 DEF UpInv, UpOK
<1>7. UpOK' BY <1>1, <1>4, <1>5, <1>6 DEF UpInv, UpOK
<1>8. RunFitsIn(up', file', site')
  BY <1>1, <1>2, <1>3, <1>5, <1>6 DEF RunFitsIn, Making, After, Next1
<1>9. FundsLastIn(up', site', purse', conductor')
  <2>1. Unmade(up') = Unmade(up) BY <1>1, <1>5 DEF Unmade, Next1
  <2>2. /\ up.strict => conductor = "empty"
        /\ up.counted => \A h \in up.bound : site[h].lives
        /\ up.strict /\ up.counted => purse >= Cardinality(Unmade(up)) * DEPOSIT + ToBudget(Coming(up, site)) + KEEP
    BY <1>1, <1>2 DEF FundsLastIn, Making
  <2>3. Coming(up, site) \in Int /\ Coming(up', site) \in Int /\ Coming(up, site) <= Coming(up', site)
    <3>1. Backend \in Key /\ site[Backend].cycles \in Int /\ DEPOSIT - FEE \in Int
      BY <1>6, DeclaredKeysAssumption, FeeAssumption DEF Canister
    <3>2. Next1 = Backend => site[Backend].cycles >= DEPOSIT - FEE BY <1>3 DEF UpInv, ConductorThere
    <3>3. Coming(up, site) = IF Backend \in up.bound /\ site[Backend].lives THEN site[Backend].cycles ELSE DEPOSIT - FEE
      BY DEF Coming
    <3>4. Coming(up', site) = IF Backend \in up.bound \cup {Next1} /\ site[Backend].lives THEN site[Backend].cycles ELSE DEPOSIT - FEE
      BY <1>5 DEF Coming
    <3> QED BY <3>1, <3>2, <3>3, <3>4
  <2>4. ToBudget(Coming(up', site)) <= ToBudget(Coming(up, site)) /\ ToBudget(Coming(up', site)) \in Int /\ ToBudget(Coming(up, site)) \in Int
    BY <2>3, Budgets
  <2>5. Cardinality(Unmade(up)) * DEPOSIT \in Int /\ KEEP \in Int
    <3>1. Unmade(up) \in SUBSET Key BY DEF Unmade
    <3>2. Cardinality(Unmade(up)) \in Nat BY <3>1, KeysAreFinite
    <3> QED BY <3>2, FeeAssumption
  <2>6. purse >= Cardinality(Unmade(up)) * DEPOSIT + ToBudget(Coming(up, site)) + KEEP
        => purse >= Cardinality(Unmade(up)) * DEPOSIT + ToBudget(Coming(up', site)) + KEEP
    <3> DEFINE a == Cardinality(Unmade(up)) * DEPOSIT
               b == ToBudget(Coming(up, site))
               c == ToBudget(Coming(up', site))
    <3>1. a \in Int /\ b \in Int /\ c \in Int /\ c <= b /\ KEEP \in Int /\ purse \in Int BY <1>6, <2>4, <2>5
    <3> HIDE DEF a, b, c
    <3>2. purse >= a + b + KEEP => purse >= a + c + KEEP BY <3>1
    <3> QED BY <3>2 DEF a, b, c
  <2>7. up'.counted => \A h \in up'.bound : site'[h].lives BY <1>1, <1>3, <1>5, <2>2
  <2> QED BY <1>1, <1>5, <2>1, <2>2, <2>6, <2>7 DEF FundsLastIn, Making
<1>10. MadeIsKnown' BY <1>1, <1>6 DEF UpInv, MadeIsKnown, MadeOnce, Next1
<1>11. ConductorThere' BY <1>1, <1>4, <1>6 DEF UpInv, ConductorThere
<1> QED BY <1>1, <1>5, <1>7, <1>8, <1>9, <1>10, <1>11, Invariant DEF UpInv, PreflightIsEnough

LEMMA InstallKeeps == ASSUME UpInv, InstallCanister PROVE UpInv'
<1>1. up.at = "install" /\ site' = [site EXCEPT ![Next1].code = artifact] /\ UpGoes("own")
      /\ UNCHANGED <<file, artifact, purse, conductor, cut, orphans, refused>>
  BY DEF InstallCanister, UpAt
<1>2. up \in UpRecord /\ RunFitsIn(up, file, site) /\ FundsLastIn(up, site, purse, conductor) BY <1>1, RunIsOn DEF UpAt
<1>3. up.todo # <<>> /\ site[Next1].lives /\ Next1 \in file BY <1>1, <1>2 DEF RunFitsIn, Next1
<1>4. Next1 \in Key /\ Next1 \in ToSet(up.todo) BY <1>1, <1>2, <1>3, OnKey DEF Making
<1>5. /\ up' \in UpRecord /\ up'.at = "own" /\ up'.todo = up.todo /\ up'.bound = up.bound
      /\ up'.strict = up.strict /\ up'.counted = up.counted
  BY <1>1, <1>2 DEF UpGoes, UpRecord, Making
<1>6. site \in [Key -> Canister] /\ artifact \in Nat \ {0} /\ Backend \in Key BY DeclaredKeysAssumption DEF UpInv, UpOK
<1>7. /\ site' \in [Key -> Canister] /\ site'[Next1].code = artifact
      /\ \A h \in Key : site'[h].lives = site[h].lives /\ site'[h].cycles = site[h].cycles
      /\ \A h \in Key \ {Next1} : site'[h] = site[h]
  BY <1>1, <1>4, <1>6 DEF Canister
<1>8. UpOK' BY <1>1, <1>5, <1>7 DEF UpInv, UpOK
<1>9. RunFitsIn(up', file', site')
  <2>1. up.bound = file /\ IsInjective(up.todo) /\ \A h \in Key \ ToSet(up.todo) : h \in file /\ Stands(site[h])
    BY <1>1, <1>2 DEF RunFitsIn, Making
  <2>2. \A h \in Key \ ToSet(up.todo) : h \in file /\ Stands(site'[h]) BY <1>4, <1>7, <2>1
  <2>3. Head(up'.todo) = Next1 BY <1>5 DEF Next1
  <2> QED BY <1>1, <1>3, <1>4, <1>5, <1>6, <1>7, <2>1, <2>2, <2>3 DEF RunFitsIn, Making, After
<1>10. FundsLastIn(up', site', purse', conductor')
  <2>1. Unmade(up') = Unmade(up) BY <1>1, <1>5 DEF Unmade
  <2>2. Coming(up', site') = Coming(up, site) BY <1>5, <1>6, <1>7 DEF Coming
  <2>3. up.bound \subseteq Key BY <1>2 DEF UpRecord
  <2> QED BY <1>1, <1>2, <1>5, <1>7, <2>1, <2>2, <2>3 DEF FundsLastIn, Making
<1>11. MadeIsKnown' BY <1>1, <1>5, <1>7 DEF UpInv, MadeIsKnown, MadeOnce
<1>12. ConductorThere' BY <1>1, <1>6, <1>7 DEF UpInv, ConductorThere, Stands
<1> QED BY <1>1, <1>5, <1>8, <1>9, <1>10, <1>11, <1>12, Invariant DEF UpInv, PreflightIsEnough

LEMMA SaveKeeps == ASSUME UpInv, SaveBindings PROVE UpInv'
<1>1. up.at = "bootstrap" /\ up.todo = <<>> /\ file' = up.bound /\ UpGoes("fund")
      /\ UNCHANGED <<site, artifact, purse, conductor, cut, orphans, refused>>
  BY DEF SaveBindings, UpAt
<1>2. up \in UpRecord /\ RunFitsIn(up, file, site) /\ FundsLastIn(up, site, purse, conductor) BY <1>1, RunIsOn DEF UpAt
<1>3. /\ up' \in UpRecord /\ up'.at = "fund" /\ up'.bound = up.bound /\ up'.strict = up.strict /\ up'.counted = up.counted
  BY <1>1, <1>2 DEF UpGoes, UpRecord, After
<1>4. file' = file /\ up.bound = file BY <1>1, <1>2 DEF RunFitsIn
<1>5. \A k \in Key : k \in file /\ Stands(site[k])
  <2>1. ToSet(up.todo) = {} BY <1>1 DEF ToSet
  <2> QED BY <1>1, <1>2, <2>1 DEF RunFitsIn, Making
<1>6. UpOK' BY <1>1, <1>3, <1>4 DEF UpInv, UpOK
<1>7. file = Key BY <1>5 DEF UpInv, UpOK
<1>8. RunFitsIn(up', file', site') BY <1>1, <1>3, <1>4, <1>5, <1>7 DEF RunFitsIn, Making
<1>9. FundsLastIn(up', site', purse', conductor')
  <2>1. Unmade(up') = Unmade(up) BY <1>1, <1>3 DEF Unmade
  <2>2. Coming(up', site') = Coming(up, site) BY <1>1, <1>3 DEF Coming
  <2> QED BY <1>1, <1>2, <1>3, <2>1, <2>2 DEF FundsLastIn, Making
<1>10. MadeIsKnown' BY <1>1, <1>4, <1>5 DEF UpInv, MadeIsKnown, MadeOnce
<1>11. ConductorThere' BY <1>1, <1>4 DEF UpInv, ConductorThere
<1> QED BY <1>1, <1>3, <1>6, <1>8, <1>9, <1>10, <1>11, Invariant DEF UpInv, PreflightIsEnough

LEMMA FundKeeps == ASSUME UpInv, FundConductor PROVE UpInv'
<1> DEFINE have == site[Backend].cycles
           want == ToBudget(have)
           spare == Greater(0, purse - KEEP)
           sent == IF spare < want THEN spare ELSE want
<1>1. up.at = "fund" /\ UNCHANGED <<file, artifact, conductor, cut, orphans>> BY DEF FundConductor, UpAt
<1>2. up \in UpRecord /\ RunFitsIn(up, file, site) /\ FundsLastIn(up, site, purse, conductor) BY <1>1, RunIsOn DEF UpAt
<1>3. up.bound = file /\ file = Key /\ \A k \in Key : Stands(site[k]) BY <1>1, <1>2 DEF RunFitsIn, After
<1>4. /\ site \in [Key -> Canister] /\ purse \in Nat /\ KEEP \in Nat /\ Backend \in Key /\ have \in Int
      /\ want \in Int /\ want >= 0 /\ (want > 0 => want = Budget - have) /\ Floor \in Int /\ Budget \in Int
  <2>1. site \in [Key -> Canister] /\ purse \in Nat /\ KEEP \in Nat /\ Backend \in Key
    BY DeclaredKeysAssumption, FeeAssumption DEF UpInv, UpOK
  <2>2. have \in Int BY <2>1 DEF Canister
  <2> QED BY <2>1, <2>2, Budgets, LimitsAssumption
<1> HIDE DEF want, have
<1>5. spare \in Nat /\ spare <= purse /\ (purse >= KEEP => spare = purse - KEEP) BY <1>4 DEF Greater
<1> HIDE DEF spare
<1>6. CASE want > 0 /\ spare < Floor - have /\ up.strict /\ up' = NoRun /\ refused' = (refused \/ up.counted) /\ UNCHANGED <<site, purse>>
  <2>1. Floor <= Budget => ~up.counted
    <3> SUFFICES ASSUME Floor <= Budget, up.counted PROVE FALSE OBVIOUS
    <3>1. purse >= Cardinality(Unmade(up)) * DEPOSIT + ToBudget(Coming(up, site)) + KEEP BY <1>1, <1>2, <1>6 DEF FundsLastIn
    <3>2. Unmade(up) = {} BY <1>1, <1>3 DEF Unmade
    <3>3. Cardinality(Unmade(up)) * DEPOSIT = 0
      <4>1. Cardinality(Unmade(up)) = 0 BY <3>2, FS_EmptySet
      <4> QED BY <4>1, FeeAssumption
    <3>4. Coming(up, site) = have BY <1>3, <1>4 DEF Coming, Stands, have
    <3>5. purse >= want + KEEP BY <1>4, <3>1, <3>3, <3>4 DEF want
    <3> QED BY <1>4, <1>5, <1>6, <3>5
  <2>2. PreflightIsEnough' BY <1>6, <2>1 DEF UpInv, PreflightIsEnough
  <2> QED BY <1>1, <1>6, <2>2, RunEnds DEF UpInv, UpOK, UpAt, PreflightIsEnough
<1>7. CASE UpGoes("fund_store") /\ UNCHANGED refused /\ site' = [site EXCEPT ![Backend].cycles = @ + sent] /\ purse' = purse - sent
  <2>1. sent \in Int /\ purse - sent \in Nat BY <1>4, <1>5
  <2> HIDE DEF sent
  <2>2. site' \in [Key -> Canister] /\ \A k \in Key : site'[k].lives = site[k].lives /\ site'[k].code = site[k].code
    BY <1>4, <1>7, <2>1 DEF Canister
  <2>3. up' \in UpRecord /\ up'.at = "fund_store" /\ up'.bound = up.bound BY <1>2, <1>7 DEF UpGoes, UpRecord, After
  <2> QED BY <1>1, <1>7, <2>1, <2>2, <2>3, RunGoesOn DEF UpInv, UpOK, After
<1> QED BY <1>6, <1>7 DEF FundConductor, UpEnds, have, want, spare

LEMMA StoreKeeps == ASSUME UpInv, FundStore PROVE UpInv'
<1> DEFINE want == Greater(0, StoreFloor - site[Store].cycles)
<1>1. up.at = "fund_store" /\ UNCHANGED <<file, artifact, conductor, cut, orphans, refused>> BY DEF FundStore, UpAt
<1>2. up \in UpRecord BY <1>1, RunIsOn DEF UpAt
<1>3. site \in [Key -> Canister] /\ purse \in Nat /\ Store \in Key /\ StoreFloor \in Nat
  BY DeclaredKeysAssumption, FeeAssumption DEF UpInv, UpOK
<1>4. want \in Nat BY <1>3 DEF Greater, Canister
<1> HIDE DEF want
<1>5. CASE want <= purse /\ site' = [site EXCEPT ![Store].cycles = @ + want] /\ purse' = purse - want /\ UpGoes("permit")
  <2>1. site' \in [Key -> Canister] /\ \A k \in Key : site'[k].lives = site[k].lives /\ site'[k].code = site[k].code
    BY <1>3, <1>4, <1>5 DEF Canister
  <2>2. up' \in UpRecord /\ up'.at = "permit" /\ up'.bound = up.bound BY <1>2, <1>5 DEF UpGoes, UpRecord, After
  <2>3. purse' \in Nat BY <1>3, <1>4, <1>5
  <2> QED BY <1>1, <2>1, <2>2, <2>3, RunGoesOn DEF UpInv, UpOK, After
<1>6. CASE up' = NoRun /\ UNCHANGED <<site, purse>> BY <1>1, <1>6, RunEnds DEF UpInv, UpOK, UpAt, PreflightIsEnough
<1> QED BY <1>5, <1>6 DEF FundStore, UpEnds, want

\* The steps after it that move no cycles.
LEMMA RestKeeps == ASSUME UpInv, EnsureCommit \/ FillStore \/ HandSheet \/ WaitBuilt PROVE UpInv'
<1>1. up.at \in After \ {"hand_off"} /\ up.at # "fund" /\ up.at # "bind" /\ up.at # "none"
      /\ UNCHANGED <<site, file, artifact, purse, cut, orphans, refused>>
      /\ (conductor' = conductor \/ conductor' = "building")
  BY DEF EnsureCommit, FillStore, HandSheet, WaitBuilt, UpAt, After
<1>2. up \in UpRecord /\ RunFitsIn(up, file, site) BY <1>1, RunIsOn DEF UpAt
<1>3. up' = NoRun \/ (\E s \in After \ {"fund"} : UpGoes(s)) \/ up' = [up EXCEPT !.at = "hand_off", !.todo = DeclaredKeys]
  BY DEF EnsureCommit, FillStore, HandSheet, WaitBuilt, UpEnds, After
<1>4. conductor' \in {"empty", "building", "failed", "built"} BY <1>1 DEF UpInv, UpOK
<1>5. file = Key /\ Stands(site[Backend]) BY <1>1, <1>2, DeclaredKeysAssumption DEF RunFitsIn
<1>6. CASE up' = NoRun BY <1>1, <1>4, <1>5, <1>6, RunEnds DEF UpInv, UpAt, PreflightIsEnough
<1>7. CASE up' # NoRun
  <2>1. up' \in UpRecord /\ up'.at \in After \ {"fund"} /\ up'.bound = up.bound
    <3>1. ASSUME NEW s \in After \ {"fund"}, UpGoes(s) PROVE up' \in UpRecord /\ up'.at = s /\ up'.bound = up.bound
      BY <1>2, <3>1 DEF UpGoes, UpRecord
    <3>2. CASE up' = [up EXCEPT !.at = "hand_off", !.todo = DeclaredKeys]
      BY <1>2, <3>2, DeclaredKeysAssumption DEF UpRecord, After
    <3> QED BY <1>3, <1>7, <3>1, <3>2
  <2>2. site' \in [Key -> Canister] /\ purse' \in Nat BY <1>1 DEF UpInv, UpOK
  <2> QED BY <1>1, <1>4, <2>1, <2>2, RunGoesOn
<1> QED BY <1>6, <1>7

LEMMA HandOffKeeps == ASSUME UpInv, HandOff PROVE UpInv'
<1>1. up.at = "hand_off" /\ UNCHANGED <<artifact, purse, conductor, cut, orphans, refused>> BY DEF HandOff, UpAt
<1>2. up \in UpRecord /\ RunFitsIn(up, file, site) BY <1>1, RunIsOn DEF UpAt
<1>3. site \in [Key -> Canister] /\ file \in SUBSET Key /\ purse \in Nat /\ conductor \in {"empty", "building", "failed", "built"}
  BY DEF UpInv, UpOK
<1>4. CASE up.todo # <<>> /\ site' = [site EXCEPT ![Next1].owners = Declared] /\ up' = [up EXCEPT !.todo = Tail(@)] /\ UNCHANGED file
  <2>1. Next1 \in Key /\ Tail(up.todo) \in Seq(Key) BY <1>2, <1>4, HeadAndTail DEF Next1, UpRecord
  <2>2. site' \in [Key -> Canister] /\ \A k \in Key : site'[k].lives = site[k].lives /\ site'[k].code = site[k].code
    BY <1>3, <1>4, <2>1 DEF Canister, Owner
  <2>3. up' \in UpRecord /\ up'.at = "hand_off" /\ up'.bound = up.bound BY <1>1, <1>2, <1>4, <2>1 DEF UpRecord
  <2> QED BY <1>1, <1>3, <1>4, <2>2, <2>3, RunGoesOn DEF After
<1>5. CASE file' = up.bound /\ up' = NoRun /\ UNCHANGED site
  <2>1. file' = file BY <1>2, <1>5 DEF RunFitsIn
  <2> QED BY <1>1, <1>3, <1>5, <2>1, RunEnds DEF UpInv, UpAt, PreflightIsEnough
<1> QED BY <1>4, <1>5 DEF HandOff, UpEnds

LEMMA DiesKeeps == ASSUME UpInv, Dies PROVE UpInv'
BY RunEnds DEF Dies, UpEnds, UpInv, UpOK, PreflightIsEnough

\* The conductor's build spends its own cycles: no fresh deploy is on when there is one.
LEMMA BuildKeeps == ASSUME UpInv, Build PROVE UpInv'
<1>1. conductor = "building" /\ UNCHANGED <<file, artifact, purse, up, cut, orphans, refused>> BY DEF Build
<1>2. file = Key /\ Stands(site[Backend]) /\ Backend \in Key BY <1>1, DeclaredKeysAssumption DEF UpInv, ConductorThere
<1>3. site \in [Key -> Canister] BY DEF UpInv, UpOK
<1>4. site' \in [Key -> Canister] /\ conductor' \in {"empty", "building", "failed", "built"}
      /\ \A k \in Key : site'[k].lives = site[k].lives /\ site'[k].code = site[k].code
  <2>1. CASE UNCHANGED site /\ conductor' \in {"failed", "built"} BY <1>3, <2>1
  <2>2. CASE site' = [site EXCEPT ![Backend].cycles = @ - DEPOSIT] /\ UNCHANGED conductor
    BY <1>1, <1>2, <1>3, <2>2, FeeAssumption DEF Canister
  <2> QED BY <2>1, <2>2 DEF Build
<1>5. UpOK' BY <1>1, <1>4 DEF UpInv, UpOK
<1>6. MadeIsKnown' BY <1>1, <1>4 DEF UpInv, MadeIsKnown, MadeOnce
<1>7. ConductorThere' BY <1>1, <1>2, <1>4 DEF ConductorThere, Stands
<1>8. CASE up = NoRun BY <1>1, <1>5, <1>6, <1>7, <1>8, Resting DEF UpInv, PreflightIsEnough
<1>9. CASE up # NoRun
  <2>1. up \in UpRecord /\ RunFitsIn(up, file, site) /\ FundsLastIn(up, site, purse, conductor)
    BY <1>9 DEF UpInv, UpOK, RunFits, FundsLast
  <2>2. \A k \in Key : Stands(site'[k]) = Stands(site[k]) BY <1>4 DEF Stands
  <2>3. up.at \in Making => up.todo \in Seq(Key) BY <2>1 DEF UpRecord
  <2>4. up.at \in {"bind", "install", "own"} => up.todo # <<>> /\ Head(up.todo) \in Key
    BY <2>1, <2>3, HeadAndTail DEF RunFitsIn, Making
  <2>5. RunFitsIn(up, file, site') BY <1>4, <2>1, <2>2, <2>4 DEF RunFitsIn
  <2>6. FundsLastIn(up, site', purse, conductor')
    <3>1. up.bound \subseteq Key BY <2>1 DEF UpRecord
    <3> QED BY <1>1, <1>4, <2>1, <3>1 DEF FundsLastIn
  <2> QED BY <1>1, <1>5, <1>6, <1>7, <2>1, <2>5, <2>6, Invariant DEF UpInv, PreflightIsEnough
<1> QED BY <1>8, <1>9

LEMMA SheetKeeps == ASSUME UpInv, NewSheet PROVE UpInv'
<1>1. UNCHANGED <<site, file, purse, conductor, up, cut, orphans, refused>> /\ artifact' = 2 BY DEF NewSheet
<1> QED BY <1>1 DEF UpInv, UpOK, RunFits, MadeIsKnown, MadeOnce, ConductorThere, FundsLast, PreflightIsEnough

LEMMA SpendKeeps == ASSUME UpInv, SpendElsewhere PROVE UpInv'
<1>1. purse' \in Nat /\ UNCHANGED <<site, file, artifact, conductor, cut, orphans, refused>>
  BY FeeAssumption DEF SpendElsewhere, UpInv, UpOK
<1>2. ConductorThere' BY <1>1 DEF UpInv, ConductorThere
<1>3. CASE UpAt("none")
  <2>1. up = NoRun /\ up' = NoRun BY <1>3 DEF SpendElsewhere, UpInv, UpOK, UpRecord, UpAt, Making, After
  <2>2. UpOK' /\ MadeIsKnown' BY <1>1, <2>1 DEF UpInv, UpOK, MadeIsKnown, MadeOnce
  <2> QED BY <1>1, <1>2, <2>1, <2>2, Resting DEF UpInv, PreflightIsEnough
<1>4. CASE ~UpAt("none")
  <2>1. up \in UpRecord /\ RunFitsIn(up, file, site) /\ FundsLastIn(up, site, purse, conductor) BY <1>4, RunIsOn
  <2>2. /\ up' \in UpRecord /\ up'.at = up.at /\ up'.todo = up.todo /\ up'.bound = up.bound
        /\ up'.strict = up.strict /\ up'.counted = FALSE
    BY <1>4, <2>1 DEF SpendElsewhere, UpRecord
  <2>3. UpOK' BY <1>1, <2>2 DEF UpInv, UpOK
  <2>4. RunFitsIn(up', file', site') BY <1>1, <2>1, <2>2 DEF RunFitsIn
  <2>5. FundsLastIn(up', site', purse', conductor') BY <1>1, <2>1, <2>2 DEF FundsLastIn
  <2>6. MadeIsKnown' BY <1>1, <2>2 DEF UpInv, MadeIsKnown, MadeOnce
  <2> QED BY <1>1, <1>2, <2>2, <2>3, <2>4, <2>5, <2>6, Invariant DEF UpInv, PreflightIsEnough
<1> QED BY <1>3, <1>4

LEMMA StartOverKeeps == ASSUME UpInv, ReplicaStartsOver PROVE UpInv'
<1>1. /\ site' = [k \in Key |-> Nothing] /\ conductor' = "empty" /\ up.at = "none"
      /\ UNCHANGED <<file, artifact, purse, up, cut, orphans, refused>>
  BY DEF ReplicaStartsOver, UpAt
<1>2. up' = NoRun BY <1>1 DEF UpInv, UpOK, UpRecord, Making, After
<1>3. site' \in [Key -> Canister] /\ \A k \in Key : ~site'[k].lives BY <1>1 DEF Canister, Nothing
<1>4. UpOK' BY <1>1, <1>2, <1>3 DEF UpInv, UpOK
<1>5. MadeIsKnown' BY <1>1, <1>3 DEF UpInv, MadeIsKnown, MadeOnce
<1>6. ConductorThere' BY <1>1, <1>3, DeclaredKeysAssumption DEF ConductorThere
<1> QED BY <1>1, <1>2, <1>4, <1>5, <1>6, Resting DEF UpInv, PreflightIsEnough

LEMMA UpKept == ASSUME UpInv, [UpNext]_upVars PROVE UpInv'
<1>1. CASE UNCHANGED upVars
  BY <1>1 DEF upVars, UpInv, UpOK, RunFits, MadeIsKnown, MadeOnce, ConductorThere, FundsLast, PreflightIsEnough
<1>2. CASE UpNext
  BY <1>2, StartKeeps, SkipKeeps, UpgradeKeeps, CreateKeeps, ResumeKeeps, BindKeeps, InstallKeeps, OwnersKeep, SaveKeeps,
     FundKeeps, StoreKeeps, RestKeeps, HandOffKeeps, DiesKeeps, BuildKeeps, SheetKeeps, SpendKeeps, StartOverKeeps DEF UpNext
<1> QED BY <1>1, <1>2

LEMMA UpBegins == UpInit => UpInv
<1> SUFFICES ASSUME UpInit PROVE UpInv OBVIOUS
<1>1. UpOK BY FeeAssumption DEF UpInit, UpOK, Canister, Nothing
<1>2. MadeIsKnown /\ ConductorThere
  BY DeclaredKeysAssumption DEF UpInit, MadeIsKnown, MadeOnce, ConductorThere, Nothing
<1> QED BY <1>1, <1>2 DEF UpInit, UpInv, RunFits, FundsLast, PreflightIsEnough

\* However often `casals up' is interrupted, and wherever, it makes a canister in place
\* of one that is there only when it died between making that one and binding it
\* (bootstrap_conductor of casals_cli/conductor.py).
THEOREM CanistersAreMadeOnce == Spec => []MadeOnce
<1>1. Init => UpInv BY UpBegins DEF Init
<1>2. UpInv /\ [Next]_vars => UpInv' BY UpKept, PartsMoveApart
<1>3. UpInv => MadeOnce BY DEF UpInv, MadeIsKnown
<1> QED BY <1>1, <1>2, <1>3, PTL DEF Spec

\* What funding_needed asks for is enough, whatever canisters are already there and
\* however the runs are cut: a fresh deploy of a sheet whose floor is within its budget
\* that was let through is never refused the conductor's top-up (fund_conductor of
\* casals_cli/up.py) while the count holds.
THEOREM PreflightSuffices == Spec => []PreflightIsEnough
<1>1. Init => UpInv BY UpBegins DEF Init
<1>2. UpInv /\ [Next]_vars => UpInv' BY UpKept, PartsMoveApart
<1>3. UpInv => PreflightIsEnough BY DEF UpInv
<1> QED BY <1>1, <1>2, <1>3, PTL DEF Spec
-----------------------------------------------------------------------------
(* The monitor *)

AccessOK ==
  /\ monitor \in Monitors \cup {Nobody} /\ drawn \in Nat /\ readKey \in 0..drawn
  /\ knows \in [Monitors -> SUBSET (0..drawn)]
  /\ host \in [Host -> {"none", "created", "ready"}] /\ viewer \in [Host -> Monitors \cup {Nobody}] /\ apart \in SUBSET Host
  /\ setting \in [Settings -> {NoSetting} \cup [at : {"draw"}, op : {"rotate"}]
                              \cup [at : {"draw"}, op : {"set"}, to : Monitors, before : Monitors \cup {Nobody}]
                              \cup [at : {"share"}, todo : Seq(Host) \ {<<>>}]]

\* A call draws a key for another monitor than the one it found.
SetsAnother == \A j \in Settings : setting[j].at = "draw" /\ setting[j].op = "set" => setting[j].to # setting[j].before

\* The call j is yet to tell h who may view it.
WillTell(j, h) == setting[j].at = "share" /\ h \in ToSet(setting[j].todo)

\* A canister that does not let the monitor of the moment in will be told.
ViewersWillFollow ==
  \A h \in Host \ apart : host[h] = "ready" => viewer[h] = monitor \/ \E j \in Settings : WillTell(j, h)

AccessInv ==
  /\ AccessOK /\ SetsAnother /\ ViewersWillFollow /\ KeyIsTheMonitorsOwn
  /\ monitor # Nobody => readKey # 0

\* Once a call has another monitor set, every canister will be told.
LEMMA TellsAll ==
  ASSUME NEW j \in Settings, AccessOK, setting' = [setting EXCEPT ![j] = [at |-> "share", todo |-> Hosts]]
  PROVE  \A h \in Host : WillTell(j, h)'
BY DEF WillTell, AccessOK, Host

\* A call that was not telling anybody leaves what others will tell.
LEMMA OthersTell ==
  ASSUME AccessOK, NEW j \in Settings, setting[j].at # "share", NEW r, setting' = [setting EXCEPT ![j] = r]
  PROVE  \A i \in Settings, h \in Host : WillTell(i, h) => WillTell(i, h)'
BY DEF AccessOK, WillTell

LEMMA SetsKeep ==
  ASSUME AccessInv, NEW j \in Settings,
         (\E m \in Monitors : SetMonitor(j, m)) \/ MonitorKeyRotate(j) \/ DrawFails(j)
  PROVE  AccessInv'
<1>1. UNCHANGED <<monitor, readKey, drawn, knows, host, viewer, apart>> /\ setting[j].at # "share"
  <2>1. setting[j].at = "draw" \/ setting[j] = NoSetting BY DEF SetMonitor, MonitorKeyRotate, DrawFails, Calls
  <2>2. NoSetting.at # "share" BY DEF NoSetting
  <2> QED BY <2>1, <2>2 DEF SetMonitor, MonitorKeyRotate, DrawFails
<1> DEFINE Draws == {NoSetting} \cup [at : {"draw"}, op : {"rotate"}]
                     \cup [at : {"draw"}, op : {"set"}, to : Monitors, before : Monitors \cup {Nobody}]
<1>2. PICK r \in Draws : setting' = [setting EXCEPT ![j] = r] /\ (r.at = "draw" /\ r.op = "set" => r.to # r.before)
  <2>1. ASSUME NEW m \in Monitors, SetMonitor(j, m)
        PROVE  \E r \in Draws : setting' = [setting EXCEPT ![j] = r] /\ (r.at = "draw" /\ r.op = "set" => r.to # r.before)
    <3> DEFINE r == [at |-> "draw", op |-> "set", to |-> m, before |-> monitor]
    <3>1. setting' = [setting EXCEPT ![j] = r] /\ m # monitor /\ monitor \in Monitors \cup {Nobody}
      BY <2>1, NobodyAssumption DEF SetMonitor, Proceeds, AccessInv, AccessOK
    <3>2. r \in Draws /\ r.to # r.before BY <3>1
    <3> QED BY <3>1, <3>2
  <2>2. ASSUME MonitorKeyRotate(j)
        PROVE  \E r \in Draws : setting' = [setting EXCEPT ![j] = r] /\ (r.at = "draw" /\ r.op = "set" => r.to # r.before)
    <3> DEFINE r == [at |-> "draw", op |-> "rotate"]
    <3>1. setting' = [setting EXCEPT ![j] = r] BY <2>2 DEF MonitorKeyRotate, Proceeds
    <3>2. r \in Draws /\ r.op # "set" OBVIOUS
    <3> QED BY <3>1, <3>2
  <2>3. ASSUME DrawFails(j)
        PROVE  \E r \in Draws : setting' = [setting EXCEPT ![j] = r] /\ (r.at = "draw" /\ r.op = "set" => r.to # r.before)
    <3>1. setting' = [setting EXCEPT ![j] = NoSetting] BY <2>3 DEF DrawFails, Proceeds
    <3>2. NoSetting \in Draws /\ NoSetting.at # "draw" BY DEF NoSetting
    <3> QED BY <3>1, <3>2
  <2> QED BY <2>1, <2>2, <2>3
<1>3. AccessOK' /\ SetsAnother'
  <2>1. \A i \in Settings : setting'[i] = setting[i] \/ setting'[i] = r BY <1>2 DEF AccessInv, AccessOK
  <2>2. SetsAnother'
    <3> SUFFICES ASSUME NEW i \in Settings, setting'[i].at = "draw", setting'[i].op = "set"
                 PROVE  setting'[i].to # setting'[i].before
      BY DEF SetsAnother
    <3> QED BY <1>2, <2>1 DEF AccessInv, SetsAnother
  <2> QED BY <1>1, <1>2, <2>2 DEF AccessInv, AccessOK
<1> HIDE DEF Draws
<1>4. ViewersWillFollow'
  <2>1. \A i \in Settings, h \in Host : WillTell(i, h) => WillTell(i, h)' BY <1>1, <1>2, OthersTell DEF AccessInv
  <2> QED BY <1>1, <2>1 DEF AccessInv, ViewersWillFollow
<1> QED BY <1>1, <1>3, <1>4 DEF AccessInv, KeyIsTheMonitorsOwn

LEMMA RemoveKeeps == ASSUME AccessInv, NEW j \in Settings, RemoveMonitor(j) PROVE AccessInv'
<1>1. /\ monitor' = Nobody /\ readKey' = 0 /\ UNCHANGED <<drawn, knows, host, viewer, apart>>
      /\ setting' = [setting EXCEPT ![j] = [at |-> "share", todo |-> Hosts]]
  BY DEF RemoveMonitor, Shares, Proceeds
<1>2. AccessOK' BY <1>1, HostsAssumption DEF AccessInv, AccessOK
<1>3. SetsAnother' BY <1>1 DEF AccessInv, AccessOK, SetsAnother
<1>4. \A h \in Host : WillTell(j, h)' BY <1>1, TellsAll DEF AccessInv
<1> QED BY <1>1, <1>2, <1>3, <1>4 DEF AccessInv, ViewersWillFollow, KeyIsTheMonitorsOwn

LEMMA DrawnKeeps == ASSUME AccessInv, NEW j \in Settings, KeyDrawn(j) PROVE AccessInv'
<1>1. setting[j].at = "draw" /\ drawn' = drawn + 1 /\ readKey' = drawn + 1 /\ UNCHANGED <<knows, host, viewer, apart>>
  BY DEF KeyDrawn
<1>2. drawn \in Nat /\ drawn' \in Nat /\ readKey' \in 0..drawn' /\ readKey' # 0 /\ 0..drawn \subseteq 0..drawn' /\ readKey' \notin 0..drawn
  BY <1>1 DEF AccessInv, AccessOK
<1>3. knows' \in [Monitors -> SUBSET (0..drawn')] /\ \A p \in Monitors : readKey' \notin knows'[p]
  BY <1>1, <1>2 DEF AccessInv, AccessOK
<1>4. CASE setting[j].op = "set" /\ monitor' = setting[j].to /\ Shares(j, setting[j].before, setting[j].to)
  <2>1. setting[j].to # setting[j].before BY <1>1, <1>4 DEF AccessInv, SetsAnother
  <2>2. setting[j].to \in Monitors BY <1>1, <1>4 DEF AccessInv, AccessOK, NoSetting
  <2>3. setting' = [setting EXCEPT ![j] = [at |-> "share", todo |-> Hosts]] BY <1>4, <2>1 DEF Shares, Proceeds
  <2>4. AccessOK' BY <1>1, <1>2, <1>3, <1>4, <2>2, <2>3, HostsAssumption DEF AccessInv, AccessOK
  <2>5. SetsAnother' BY <2>3 DEF AccessInv, AccessOK, SetsAnother
  <2>6. \A h \in Host : WillTell(j, h)' BY <2>3, TellsAll DEF AccessInv
  <2> QED BY <1>2, <1>3, <2>4, <2>5, <2>6 DEF AccessInv, ViewersWillFollow, KeyIsTheMonitorsOwn
<1>5. CASE Proceeds(j, NoSetting) /\ UNCHANGED monitor
  <2>1. AccessOK' /\ SetsAnother' BY <1>1, <1>2, <1>3, <1>5 DEF AccessInv, AccessOK, SetsAnother, Proceeds, NoSetting
  <2>2. \A i \in Settings, h \in Host : WillTell(i, h) => WillTell(i, h)' BY <1>1, <1>5, OthersTell DEF AccessInv, Proceeds
  <2>3. ViewersWillFollow' BY <1>1, <1>5, <2>2 DEF AccessInv, ViewersWillFollow
  <2> QED BY <1>2, <1>3, <2>1, <2>3 DEF AccessInv, KeyIsTheMonitorsOwn
<1> QED BY <1>4, <1>5 DEF KeyDrawn

LEMMA ReadKeeps == ASSUME AccessInv, ReadKey PROVE AccessInv'
<1>1. /\ monitor \in Monitors /\ knows' = [knows EXCEPT ![monitor] = @ \cup {readKey}]
      /\ UNCHANGED <<monitor, readKey, drawn, host, viewer, apart, setting>>
  BY DEF ReadKey, AccessInv, AccessOK
<1>2. AccessOK' /\ KeyIsTheMonitorsOwn' BY <1>1 DEF AccessInv, AccessOK, KeyIsTheMonitorsOwn
<1> QED BY <1>1, <1>2 DEF AccessInv, SetsAnother, ViewersWillFollow, WillTell

\* A canister told who may view it, or not reached.
LEMMA Viewed ==
  ASSUME AccessOK, NEW h \in Host, LetsView(h, monitor)
  PROVE  /\ viewer' \in [Host -> Monitors \cup {Nobody}] /\ apart' \in SUBSET Host
         /\ h \in apart' \/ viewer'[h] = monitor
         /\ \A i \in Host \ {h} : viewer'[i] = viewer[i] /\ (i \in apart' <=> i \in apart)
BY DEF LetsView, AccessOK

LEMMA ShareKeeps == ASSUME AccessInv, NEW j \in Settings, ShareStatus(j) PROVE AccessInv'
<1> DEFINE h == Head(setting[j].todo)
           rest == Tail(setting[j].todo)
<1>1. /\ setting[j].at = "share" /\ UNCHANGED <<monitor, readKey, drawn, knows, host>>
      /\ (host[h] = "none" /\ UNCHANGED <<viewer, apart>>) \/ LetsView(h, monitor)
      /\ setting' = [setting EXCEPT ![j] = IF rest = <<>> THEN NoSetting ELSE [at |-> "share", todo |-> rest]]
  BY DEF ShareStatus, Proceeds
<1>2. setting[j].todo \in Seq(Host) \ {<<>>} BY <1>1 DEF AccessInv, AccessOK, NoSetting
<1>3. h \in Host /\ rest \in Seq(Host) /\ ToSet(setting[j].todo) = {h} \cup ToSet(rest) BY <1>2, HeadAndTail
<1>4. /\ viewer' \in [Host -> Monitors \cup {Nobody}] /\ apart' \in SUBSET Host
      /\ host[h] = "none" \/ h \in apart' \/ viewer'[h] = monitor
      /\ \A i \in Host \ {h} : viewer'[i] = viewer[i] /\ (i \in apart' <=> i \in apart)
  BY <1>1, <1>3, Viewed DEF AccessInv, AccessOK
<1> HIDE DEF h, rest
<1>5. AccessOK' /\ SetsAnother' BY <1>1, <1>3, <1>4 DEF AccessInv, AccessOK, SetsAnother, NoSetting
<1>6. \A g \in Host \ {h}, i \in Settings : WillTell(i, g) => WillTell(i, g)'
  <2>1. rest = <<>> => ToSet(rest) = {} BY DEF ToSet
  <2>2. \A g \in Host \ {h} : WillTell(j, g) => WillTell(j, g)' BY <1>1, <1>3, <2>1 DEF WillTell, AccessInv, AccessOK
  <2>3. \A g \in Host, i \in Settings \ {j} : WillTell(i, g) => WillTell(i, g)' BY <1>1 DEF WillTell, AccessInv, AccessOK
  <2> QED BY <2>2, <2>3
<1>7. ViewersWillFollow'
  <2>1. ASSUME NEW g \in Host \ apart', host[g] = "ready" PROVE viewer'[g] = monitor \/ \E i \in Settings : WillTell(i, g)'
    <3>1. CASE g = h BY <1>4, <2>1, <3>1
    <3>2. CASE g # h BY <1>4, <1>6, <2>1, <3>2 DEF AccessInv, ViewersWillFollow
    <3> QED BY <3>1, <3>2
  <2> QED BY <1>1, <2>1 DEF ViewersWillFollow
<1> QED BY <1>1, <1>5, <1>7 DEF AccessInv, KeyIsTheMonitorsOwn

LEMMA HostsKeep == ASSUME AccessInv, NEW h \in Host, CreateHost(h) \/ HostReady(h) PROVE AccessInv'
<1>1. UNCHANGED <<monitor, readKey, drawn, knows, setting>> BY DEF CreateHost, HostReady
<1>2. \A g \in Host, i \in Settings : WillTell(i, g) => WillTell(i, g)' BY <1>1 DEF WillTell
<1>3. CASE CreateHost(h)
  <2>1. host' = [host EXCEPT ![h] = "created"] /\ UNCHANGED <<viewer, apart>> BY <1>3 DEF CreateHost
  <2> QED BY <1>1, <1>2, <2>1 DEF AccessInv, AccessOK, SetsAnother, ViewersWillFollow, KeyIsTheMonitorsOwn
<1>4. CASE HostReady(h)
  <2>1. host' = [host EXCEPT ![h] = IF h \in apart' THEN "created" ELSE "ready"] /\ LetsView(h, monitor) BY <1>4 DEF HostReady
  <2>2. /\ viewer' \in [Host -> Monitors \cup {Nobody}] /\ apart' \in SUBSET Host
        /\ h \in apart' \/ viewer'[h] = monitor
        /\ \A i \in Host \ {h} : viewer'[i] = viewer[i] /\ (i \in apart' <=> i \in apart)
    BY <2>1, Viewed DEF AccessInv
  <2>3. AccessOK' /\ SetsAnother' BY <1>1, <2>1, <2>2 DEF AccessInv, AccessOK, SetsAnother
  <2>4. ViewersWillFollow'
    <3>1. ASSUME NEW g \in Host \ apart', host'[g] = "ready" PROVE viewer'[g] = monitor \/ \E i \in Settings : WillTell(i, g)'
      <4>1. CASE g = h BY <2>2, <3>1, <4>1
      <4>2. CASE g # h BY <1>2, <2>1, <2>2, <3>1, <4>2 DEF AccessInv, AccessOK, ViewersWillFollow
      <4> QED BY <4>1, <4>2
    <3> QED BY <1>1, <3>1 DEF ViewersWillFollow
  <2> QED BY <1>1, <2>3, <2>4 DEF AccessInv, KeyIsTheMonitorsOwn
<1> QED BY <1>3, <1>4

LEMMA AccessKept == ASSUME AccessInv, [AccessNext]_accessVars PROVE AccessInv'
<1>1. CASE UNCHANGED accessVars
  BY <1>1 DEF accessVars, AccessInv, AccessOK, SetsAnother, ViewersWillFollow, WillTell, KeyIsTheMonitorsOwn
<1>2. CASE AccessNext
  BY <1>2, SetsKeep, RemoveKeeps, DrawnKeeps, ReadKeeps, ShareKeeps, HostsKeep DEF AccessNext
<1> QED BY <1>1, <1>2

\* However calls that set a monitor, drop it or draw another key overlap, and whatever
\* canisters are made meanwhile: only the monitor that is set has read the key that counts,
\* and when the calls are through each canister they reached lets in that monitor and
\* nobody else (orchestra_set and monitor_key_rotate of src/orchestra.py, share_status of
\* src/canisters.py).
THEOREM ShownToTheMonitor == Spec => []OnlyTheMonitor
<1>1. Init => AccessInv
  BY DEF Init, AccessInit, AccessInv, AccessOK, SetsAnother, ViewersWillFollow, KeyIsTheMonitorsOwn, NoSetting
<1>2. AccessInv /\ [Next]_vars => AccessInv' BY AccessKept, PartsMoveApart
<1>3. AccessInv => OnlyTheMonitor
  BY DEF AccessInv, ViewersWillFollow, WillTell, OnlyTheMonitor, ViewersFollowMonitor
<1> QED BY <1>1, <1>2, <1>3, PTL DEF Spec
-----------------------------------------------------------------------------
(* Cycles *)

Errand == Seq(Tank) \ {<<>>}

LateRecord == [at : {"sweeper", "sweep", "delete"}, todo : Errand, late : Nat]
ClerkRecord ==
  {NoClerk} \cup LateRecord
  \cup [at : {"gauge", "refresh", "sweeper"}, todo : Errand]
  \cup [at : {"gauge", "gauged"}, todo : Errand, read : Nat]
  \cup [at : {"topup", "deposit"}, todo : Errand, amount : Nat]
  \cup [at : {"deposit"}, todo : Errand, read : Nat, amount : Nat]
  \cup [at : {"sent"}, amount : Nat]

TreasuryOK ==
  /\ tank \in [Tank -> [cycles : Nat, lives : BOOLEAN]] /\ gauge \in [Tank -> Nat \cup {NoRow}]
  /\ burnt \in [Tank -> Nat] /\ balance \in Nat
  /\ clerk \in [Clerks -> ClerkRecord]

\* The inductive invariant: a canister about to be deleted has no more than the reserve and
\* what came in since the destroy read it.
TreasuryInv ==
  /\ TreasuryOK /\ DestroyPaysBack
  /\ \A k \in Clerks : clerk[k].at = "delete" => tank[Of(k)].cycles <= SweepReserve + clerk[k].late

LEMMA TreasuryConstants ==
  /\ Full \in Nat /\ Tankful \in Nat /\ Reserve \in Nat /\ SweepReserve \in Nat
  /\ MinPolicy \in Nat /\ TopupPolicy \in Nat /\ CreateCycles \in Nat /\ Amounts \subseteq Nat /\ NoRow \notin Nat
BY AmountsAssumption, TanksAssumption

\* What can be asked for is some of the canisters.
LEMMA ErrandsAreOfTanks == \A c \in Named \ {<<>>} : c \in Errand
<1> DEFINE S == {i \in DOMAIN Tanks : gauge[Tanks[i]] # NoRow}
           order == Ascending(S)
<1>1. Tanks \in Seq(Tank) BY TanksAssumption
<1>2. S \subseteq 1..Len(Tanks) /\ S \subseteq Nat /\ IsFiniteSet(S)
  <2>1. Len(Tanks) \in Nat /\ DOMAIN Tanks = 1..Len(Tanks) BY <1>1
  <2>2. IsFiniteSet(1..Len(Tanks)) /\ 1..Len(Tanks) \subseteq Nat BY <2>1, FS_Interval
  <2>3. S \subseteq 1..Len(Tanks) BY <2>1
  <2> HIDE DEF S
  <2> QED BY <2>2, <2>3, FS_Subset
<1>3. order \in Seq(S)
  <2> HIDE DEF S
  <2> QED BY <1>2, AscendingLists
<1>4. Rows = [i \in DOMAIN order |-> Tanks[order[i]]] BY DEF Rows
<1> HIDE DEF S, order
<1>5. \A i \in 1..Len(order) : Tanks[order[i]] \in Tank
  <2>1. \A i \in 1..Len(order) : order[i] \in S BY <1>3
  <2>2. \A x \in 1..Len(Tanks) : Tanks[x] \in Tank BY <1>1
  <2> QED BY <1>2, <2>1, <2>2
<1>6. Len(order) \in Nat /\ DOMAIN order = 1..Len(order) BY <1>3
<1>7. Rows \in Seq(Tank) BY <1>4, <1>5, <1>6
<1>8. \A c \in ToSet(Rows) : c \in Tank /\ <<c>> \in Errand
  <2>1. \A c \in ToSet(Rows) : c \in Tank BY <1>7 DEF ToSet
  <2> QED BY <2>1 DEF Errand
<1> QED BY <1>7, <1>8 DEF Named, Errand

LEMMA ErrandsGoOn ==
  ASSUME NEW s \in Errand
  PROVE  Head(s) \in Tank /\ (Tail(s) = <<>> \/ Tail(s) \in Errand)
BY DEF Errand

LEMMA ClerksAt ==
  ASSUME NEW r \in ClerkRecord
  PROVE  /\ r.at \in {"sweep", "delete"} => r \in LateRecord
         /\ ("late" \in DOMAIN r) <=> r \in LateRecord
         /\ r.at \in {"gauge", "refresh", "sweeper", "sweep", "delete", "gauged", "topup", "deposit"} => r.todo \in Errand
         /\ r.at = "gauged" => r \in [at : {"gauge", "gauged"}, todo : Errand, read : Nat]
         /\ r.at = "topup" => r \in [at : {"topup", "deposit"}, todo : Errand, amount : Nat]
         /\ r.at \in {"deposit", "sent"} => r.amount \in Nat
         /\ r.at = "free" => r = NoClerk
BY DEF ClerkRecord, LateRecord, NoClerk

\* What one clerk does next, when no canister changes.
LEMMA ClerkGoesOn ==
  ASSUME TreasuryInv, NEW k \in Clerks, NEW r \in ClerkRecord, Turns(k, r), UNCHANGED <<tank, burnt>>,
         balance' \in Nat, gauge' \in [Tank -> Nat \cup {NoRow}],
         \A c \in Tank : gauge'[c] = NoRow => gauge[c] = NoRow,
         r.at = "delete" => tank[Head(r.todo)].cycles <= SweepReserve + r.late
  PROVE  TreasuryInv'
<1>1. clerk \in [Clerks -> ClerkRecord] /\ clerk' = [clerk EXCEPT ![k] = r] BY DEF TreasuryInv, TreasuryOK, Turns
<1>2. clerk' \in [Clerks -> ClerkRecord] /\ clerk'[k] = r /\ \A q \in Clerks \ {k} : clerk'[q] = clerk[q] BY <1>1
<1>3. TreasuryOK' BY <1>2 DEF TreasuryInv, TreasuryOK
<1>4. DestroyPaysBack' BY DEF TreasuryInv, TreasuryOK, DestroyPaysBack
<1>5. \A q \in Clerks : clerk'[q].at = "delete" => tank'[Head(clerk'[q].todo)].cycles <= SweepReserve + clerk'[q].late
  BY <1>2 DEF TreasuryInv, Of
<1> QED BY <1>3, <1>4, <1>5 DEF TreasuryInv, Of

\* The records a clerk goes on with are its record, but for what they say.
LEMMA ClerkChanges ==
  ASSUME NEW s \in Errand, NEW n \in Nat, NEW t \in Errand
  PROVE  /\ NoClerk \in ClerkRecord /\ NoClerk.at = "free"
         /\ \A at \in {"gauge", "refresh", "sweeper"} : [at |-> at, todo |-> s] \in ClerkRecord
         /\ \A at \in {"sweeper", "sweep", "delete"} : [at |-> at, todo |-> s, late |-> n] \in ClerkRecord
         /\ [at |-> "gauged", todo |-> s, read |-> n] \in ClerkRecord
         /\ \A at \in {"topup", "deposit"} : [at |-> at, todo |-> s, amount |-> n] \in ClerkRecord
         /\ \A m \in Nat : [at |-> "deposit", todo |-> s, read |-> m, amount |-> n] \in ClerkRecord
         /\ [at |-> "sent", amount |-> n] \in ClerkRecord
BY DEF ClerkRecord, LateRecord, NoClerk

LEMMA ClerksNext ==
  ASSUME NEW r \in ClerkRecord, NEW t \in Errand
  PROVE  /\ r.at = "refresh" => LET d == [r EXCEPT !.at = "refresh", !.todo = t] IN d \in ClerkRecord /\ d.at = "refresh"
         /\ r.at = "topup" => LET d == [r EXCEPT !.at = "topup", !.todo = t] IN d \in ClerkRecord /\ d.at = "topup"
         /\ r.at = "topup" => LET d == [r EXCEPT !.at = "deposit"] IN d \in ClerkRecord /\ d.at = "deposit"
         /\ r.at = "gauged" => LET d == [r EXCEPT !.at = "gauge", !.todo = t] IN d \in ClerkRecord /\ d.at = "gauge"
         /\ r.at = "delete" => LET d == [r EXCEPT !.at = "sweeper", !.todo = t] IN d \in ClerkRecord /\ d.at = "sweeper"
         /\ r.at = "sweep" => LET d == [r EXCEPT !.at = "delete"] IN d \in ClerkRecord /\ d.at = "delete" /\ d.todo = r.todo /\ d.late = r.late
<1>1. r.at = "refresh" => r \in [at : {"gauge", "refresh", "sweeper"}, todo : Errand] BY DEF ClerkRecord, LateRecord, NoClerk
<1>2. r.at = "topup" => r \in [at : {"topup", "deposit"}, todo : Errand, amount : Nat] BY DEF ClerkRecord, LateRecord, NoClerk
<1>3. r.at = "gauged" => r \in [at : {"gauge", "gauged"}, todo : Errand, read : Nat] BY DEF ClerkRecord, LateRecord, NoClerk
<1>4. r.at \in {"sweep", "delete"} => r \in LateRecord BY DEF ClerkRecord, LateRecord, NoClerk
<1>5. r.at = "refresh" => LET d == [r EXCEPT !.at = "refresh", !.todo = t] IN d \in ClerkRecord /\ d.at = "refresh"
  BY <1>1 DEF ClerkRecord
<1>6. r.at = "topup" => LET d == [r EXCEPT !.at = "topup", !.todo = t] IN d \in ClerkRecord /\ d.at = "topup" BY <1>2 DEF ClerkRecord
<1>7. r.at = "topup" => LET d == [r EXCEPT !.at = "deposit"] IN d \in ClerkRecord /\ d.at = "deposit" BY <1>2 DEF ClerkRecord
<1>8. r.at = "gauged" => LET d == [r EXCEPT !.at = "gauge", !.todo = t] IN d \in ClerkRecord /\ d.at = "gauge" BY <1>3 DEF ClerkRecord
<1>9. r.at = "delete" => LET d == [r EXCEPT !.at = "sweeper", !.todo = t] IN d \in ClerkRecord /\ d.at = "sweeper"
  BY <1>4 DEF ClerkRecord, LateRecord
<1>10. r.at = "sweep" => LET d == [r EXCEPT !.at = "delete"] IN d \in ClerkRecord /\ d.at = "delete" /\ d.todo = r.todo /\ d.late = r.late
  BY <1>4 DEF ClerkRecord, LateRecord
<1> QED BY <1>5, <1>6, <1>7, <1>8, <1>9, <1>10

LEMMA LateGrows ==
  ASSUME NEW r \in LateRecord, NEW n \in Nat
  PROVE  LET d == [r EXCEPT !.late = @ + n] IN d \in LateRecord /\ d.at = r.at /\ d.todo = r.todo /\ d.late = r.late + n
BY DEF LateRecord

-----------------------------------------------------------------------------
LEMMA TopUpKeeps == ASSUME TreasuryInv, NEW k \in Clerks, TopUpBegins(k) \/ Gauge(k) \/ TopUp(k) PROVE TreasuryInv'
<1> USE TreasuryConstants
<1>0. /\ clerk[k] \in ClerkRecord /\ balance \in Nat /\ gauge \in [Tank -> Nat \cup {NoRow}]
      /\ tank \in [Tank -> [cycles : Nat, lives : BOOLEAN]]
  BY DEF TreasuryInv, TreasuryOK
<1>1. CASE TopUpBegins(k)
  <2>1. PICK r \in ClerkRecord : Turns(k, r) /\ r.at # "delete"
    <3>1. PICK todo \in Errand : \/ Turns(k, [at |-> "gauge", todo |-> todo])
                               \/ \E n \in Amounts : Turns(k, [at |-> "topup", todo |-> todo, amount |-> n])
      BY <1>1, ErrandsAreOfTanks DEF TopUpBegins
    <3>2. [at |-> "gauge", todo |-> todo] \in ClerkRecord /\ \A n \in Amounts : [at |-> "topup", todo |-> todo, amount |-> n] \in ClerkRecord
      BY ClerkChanges
    <3> QED BY <3>1, <3>2
  <2> QED BY <1>0, <1>1, <2>1, ClerkGoesOn DEF TopUpBegins
<1>2. CASE Gauge(k)
  <2>1. clerk[k].todo \in Errand BY <1>0, <1>2, ClerksAt DEF Gauge
  <2>2. Of(k) \in Tank BY <2>1, ErrandsGoOn DEF Of
  <2>3. tank[Of(k)].cycles \in Nat BY <1>0, <2>2
  <2>4. PICK r \in ClerkRecord : Turns(k, r) /\ r.at # "delete"
    <3>1. [at |-> "gauged", todo |-> clerk[k].todo, read |-> tank[Of(k)].cycles] \in ClerkRecord /\ NoClerk \in ClerkRecord /\ NoClerk.at # "delete"
      BY <2>1, <2>3, ClerkChanges
    <3> QED BY <1>2, <3>1 DEF Gauge, Leaves
  <2> QED BY <1>0, <1>2, <2>4, ClerkGoesOn DEF Gauge
<1>3. CASE TopUp(k)
  <2> DEFINE read == clerk[k].read
             n == IF clerk[k].at = "topup" THEN clerk[k].amount ELSE IF read < MinPolicy THEN TopupPolicy ELSE 0
  <2>1. clerk[k].todo \in Errand /\ clerk[k].at \in {"gauged", "topup"} BY <1>0, <1>3, ClerksAt DEF TopUp
  <2>2. Of(k) \in Tank /\ (Tail(clerk[k].todo) = <<>> \/ Tail(clerk[k].todo) \in Errand) BY <2>1, ErrandsGoOn DEF Of
  <2>3. clerk[k].at = "gauged" => read \in Nat BY <1>0, ClerksAt
  <2>4. clerk[k].at = "topup" => clerk[k].amount \in Nat BY <1>0, ClerksAt
  <2>5. n \in Nat BY <2>1, <2>3, <2>4
  <2>6. gauge' \in [Tank -> Nat \cup {NoRow}] /\ \A c \in Tank : gauge'[c] = NoRow => gauge[c] = NoRow
    <3>1. gauge' = IF clerk[k].at = "gauged" /\ gauge[Of(k)] # NoRow THEN [gauge EXCEPT ![Of(k)] = read] ELSE gauge
      BY <1>3 DEF TopUp
    <3>2. CASE clerk[k].at = "gauged" /\ gauge[Of(k)] # NoRow BY <1>0, <2>2, <2>3, <3>1, <3>2
    <3>3. CASE ~(clerk[k].at = "gauged" /\ gauge[Of(k)] # NoRow) BY <1>0, <3>1, <3>3
    <3> QED BY <3>2, <3>3
  <2>7. CASE n = 0 /\ NextTank(k, IF clerk[k].at = "topup" THEN "topup" ELSE "gauge") /\ UNCHANGED balance
    <3>1. PICK r \in ClerkRecord : Turns(k, r) /\ r.at # "delete"
      <4>1. CASE Tail(clerk[k].todo) = <<>> BY <2>1, <2>7, <4>1, ClerkChanges DEF NextTank, Leaves
      <4>2. CASE Tail(clerk[k].todo) # <<>> BY <1>0, <2>1, <2>2, <2>7, <4>2, ClerksNext DEF NextTank
      <4> QED BY <4>1, <4>2
    <3> QED BY <1>0, <1>3, <2>6, <2>7, <3>1, ClerkGoesOn DEF TopUp
  <2>8. CASE Spends(k, n)
    <3>1. PICK r \in ClerkRecord : Turns(k, r) /\ r.at # "delete"
      <4>1. CASE Leaves(k) BY <2>1, <4>1, ClerkChanges DEF Leaves
      <4>2. CASE Turns(k, Carrying(k, n))
        <5>1. CASE clerk[k].at = "topup" BY <1>0, <2>1, <4>2, <5>1, ClerksNext DEF Carrying, OnTo
        <5>2. CASE clerk[k].at = "gauged"
          <6>1. Carrying(k, n) = [at |-> "deposit", todo |-> clerk[k].todo, read |-> read, amount |-> n] BY <5>2 DEF Carrying
          <6>2. [at |-> "deposit", todo |-> clerk[k].todo, read |-> read, amount |-> n] \in ClerkRecord BY <2>1, <2>3, <2>5, <5>2, ClerkChanges
          <6> QED BY <4>2, <6>1, <6>2
        <5> QED BY <2>1, <5>1, <5>2
      <4> QED BY <2>8, <4>1, <4>2 DEF Spends
    <3>2. balance' \in Nat BY <1>0, <2>5, <2>8 DEF Spends, Spendable
    <3> QED BY <1>0, <1>3, <2>6, <3>1, <3>2, ClerkGoesOn DEF TopUp
  <2> QED BY <1>3, <2>7, <2>8 DEF TopUp
<1> QED BY <1>1, <1>2, <1>3

LEMMA DepositKeeps == ASSUME TreasuryInv, NEW k \in Clerks, Deposited(k) PROVE TreasuryInv'
<1> USE TreasuryConstants
<1> DEFINE c == Of(k)
           n == clerk[k].amount
           rest == Tail(clerk[k].todo)
           next == IF rest = <<>> THEN NoClerk
                   ELSE IF "read" \in DOMAIN clerk[k] THEN [at |-> "gauge", todo |-> rest]
                   ELSE [at |-> "topup", todo |-> rest, amount |-> n]
<1>1. /\ clerk \in [Clerks -> ClerkRecord] /\ balance \in Nat /\ gauge \in [Tank -> Nat \cup {NoRow}]
      /\ tank \in [Tank -> [cycles : Nat, lives : BOOLEAN]] /\ burnt \in [Tank -> Nat]
  BY DEF TreasuryInv, TreasuryOK
<1>2. clerk[k].at = "deposit" /\ UNCHANGED <<away, burnt, clerked>> BY DEF Deposited
<1>3. n \in Nat /\ clerk[k].todo \in Errand BY <1>1, <1>2, ClerksAt
<1>4. c \in Tank /\ (rest = <<>> \/ rest \in Errand) BY <1>3, ErrandsGoOn DEF Of
<1>5. next \in ClerkRecord /\ next.at # "delete"
  <2>1. CASE rest = <<>> BY <1>3, <2>1, ClerkChanges
  <2>2. CASE rest # <<>> BY <1>3, <1>4, <2>2, ClerkChanges
  <2> QED BY <2>1, <2>2
<1> HIDE DEF next
<1>6. CASE /\ tank' = [tank EXCEPT ![c].cycles = @ + n] /\ clerk' = [Seen(c, n) EXCEPT ![k] = next]
           /\ gauge' = IF gauge[c] = NoRow THEN gauge ELSE [gauge EXCEPT ![c] = @ + n]
           /\ UNCHANGED balance
  <2>1. \A q \in Clerks : (Seen(c, n)[q] \in ClerkRecord) /\ (Seen(c, n)[q].at = clerk[q].at)
          /\ (clerk[q].at = "delete" => /\ Seen(c, n)[q].todo = clerk[q].todo
                                        /\ Seen(c, n)[q].late = IF Of(q) = c THEN clerk[q].late + n ELSE clerk[q].late)
    <3> SUFFICES ASSUME NEW q \in Clerks
                 PROVE  (Seen(c, n)[q] \in ClerkRecord) /\ (Seen(c, n)[q].at = clerk[q].at)
                          /\ (clerk[q].at = "delete" => /\ Seen(c, n)[q].todo = clerk[q].todo
                                                        /\ Seen(c, n)[q].late = IF Of(q) = c THEN clerk[q].late + n ELSE clerk[q].late)
      OBVIOUS
    <3>1. clerk[q] \in ClerkRecord BY <1>1
    <3>2. ("late" \in DOMAIN clerk[q] <=> clerk[q] \in LateRecord) /\ (clerk[q].at = "delete" => clerk[q] \in LateRecord)
      BY <3>1, ClerksAt
    <3>3. Seen(c, n)[q] = IF "late" \in DOMAIN clerk[q] /\ Of(q) = c THEN [clerk[q] EXCEPT !.late = @ + n] ELSE clerk[q]
      BY DEF Seen
    <3>4. CASE clerk[q] \in LateRecord /\ Of(q) = c
      <4>1. LET d == [clerk[q] EXCEPT !.late = @ + n]
            IN d \in LateRecord /\ d.at = clerk[q].at /\ d.todo = clerk[q].todo /\ d.late = clerk[q].late + n
        BY <1>3, <3>4, LateGrows
      <4>2. Seen(c, n)[q] = [clerk[q] EXCEPT !.late = @ + n] BY <3>2, <3>3, <3>4
      <4>3. LateRecord \subseteq ClerkRecord BY DEF ClerkRecord
      <4> QED BY <3>4, <4>1, <4>2, <4>3
    <3>5. CASE ~(clerk[q] \in LateRecord /\ Of(q) = c) BY <3>1, <3>2, <3>3, <3>5
    <3> QED BY <3>4, <3>5
  <2>2. clerk' \in [Clerks -> ClerkRecord] /\ clerk'[k] = next /\ \A q \in Clerks \ {k} : clerk'[q] = Seen(c, n)[q]
    <3>1. DOMAIN Seen(c, n) = Clerks /\ Seen(c, n) \in [Clerks -> ClerkRecord] BY <2>1 DEF Seen
    <3> QED BY <1>5, <1>6, <3>1
  <2>3. /\ tank' \in [Tank -> [cycles : Nat, lives : BOOLEAN]] /\ tank'[c].cycles = tank[c].cycles + n
        /\ \A d \in Tank : tank'[d].lives = tank[d].lives /\ (d # c => tank'[d] = tank[d])
    <3>1. tank' = [tank EXCEPT ![c].cycles = @ + n] BY <1>6
    <3>2. tank \in [Tank -> [cycles : Nat, lives : BOOLEAN]] /\ tank[c].cycles + n \in Nat BY <1>1, <1>3, <1>4
    <3> HIDE DEF n, c
    <3> QED BY <1>4, <3>1, <3>2
  <2>4. gauge' \in [Tank -> Nat \cup {NoRow}] /\ \A d \in Tank : gauge'[d] = NoRow => gauge[d] = NoRow
    <3>1. CASE gauge[c] = NoRow BY <1>1, <1>6, <3>1
    <3>2. CASE gauge[c] # NoRow
      <4>1. gauge[c] \in Nat /\ gauge[c] + n \in Nat /\ gauge[c] + n # NoRow BY <1>1, <1>3, <1>4, <3>2
      <4> QED BY <1>1, <1>4, <1>6, <3>2, <4>1
    <3> QED BY <3>1, <3>2
  <2>5. TreasuryOK' BY <1>1, <1>2, <1>6, <2>2, <2>3, <2>4 DEF TreasuryOK
  <2>6. DestroyPaysBack' BY <1>2, <2>3, <2>4 DEF TreasuryInv, DestroyPaysBack
  <2>7. ASSUME NEW q \in Clerks, clerk'[q].at = "delete"
        PROVE  tank'[Head(clerk'[q].todo)].cycles <= SweepReserve + clerk'[q].late
    <3>1. q # k BY <1>5, <2>2, <2>7
    <3>2. clerk[q].at = "delete" /\ clerk'[q].todo = clerk[q].todo
          /\ clerk'[q].late = IF Of(q) = c THEN clerk[q].late + n ELSE clerk[q].late
      BY <2>1, <2>2, <2>7, <3>1
    <3>3. clerk[q] \in LateRecord BY <1>1, <3>2, ClerksAt
    <3>4. clerk[q].late \in Nat /\ Of(q) \in Tank BY <3>3, ErrandsGoOn DEF LateRecord, Of
    <3>5. tank[Of(q)].cycles <= SweepReserve + clerk[q].late BY <3>2 DEF TreasuryInv
    <3>6. tank[Of(q)].cycles \in Nat BY <1>1, <3>4
    <3>7. Head(clerk'[q].todo) = Of(q) BY <3>2 DEF Of
    <3>8. CASE Of(q) = c BY <1>3, <2>3, <3>2, <3>4, <3>5, <3>6, <3>7, <3>8
    <3>9. CASE Of(q) # c BY <2>3, <3>2, <3>4, <3>5, <3>7, <3>9
    <3> QED BY <3>8, <3>9
  <2> QED BY <2>5, <2>6, <2>7 DEF TreasuryInv, Of
<1>7. CASE balance' = balance + n /\ Leaves(k) /\ UNCHANGED <<tank, gauge>>
  <2>1. NoClerk \in ClerkRecord /\ NoClerk.at # "delete" BY <1>3, ClerkChanges
  <2>2. balance' \in Nat BY <1>1, <1>3, <1>7
  <2> QED BY <1>1, <1>2, <1>7, <2>1, <2>2, ClerkGoesOn DEF Leaves
<1> QED BY <1>6, <1>7 DEF Deposited, next

LEMMA MoneyMovesKeep ==
  ASSUME TreasuryInv, NEW k \in Clerks, RefreshBegins(k) \/ Refreshed(k) \/ CyclesSend(k) \/ Sent(k)
  PROVE  TreasuryInv'
<1> USE TreasuryConstants
<1>0. /\ clerk[k] \in ClerkRecord /\ balance \in Nat /\ gauge \in [Tank -> Nat \cup {NoRow}]
      /\ tank \in [Tank -> [cycles : Nat, lives : BOOLEAN]] /\ NoClerk \in ClerkRecord /\ NoClerk.at # "delete"
  <2>1. NoClerk \in ClerkRecord /\ NoClerk.at # "delete" BY DEF ClerkRecord, NoClerk
  <2> QED BY <2>1 DEF TreasuryInv, TreasuryOK
<1>1. Converted \subseteq Nat BY DEF Converted
<1>2. CASE RefreshBegins(k)
  <2>1. CASE /\ \E income \in Converted : balance' = balance + income
             /\ Turns(k, IF Rows = <<>> THEN NoClerk ELSE [at |-> "refresh", todo |-> Rows])
    <3>1. PICK r \in ClerkRecord : Turns(k, r) /\ r.at # "delete"
      <4>1. Rows # <<>> => Rows \in Errand BY ErrandsAreOfTanks DEF Named
      <4>2. Rows # <<>> => [at |-> "refresh", todo |-> Rows] \in ClerkRecord BY <4>1, ClerkChanges
      <4>3. CASE Rows = <<>> BY <1>0, <2>1, <4>3
      <4>4. CASE Rows # <<>> BY <2>1, <4>2, <4>4
      <4> QED BY <4>3, <4>4
    <3>2. balance' \in Nat BY <1>0, <1>1, <2>1
    <3> QED BY <1>0, <1>2, <3>1, <3>2, ClerkGoesOn DEF RefreshBegins
  <2>2. CASE UNCHANGED <<balance, clerk>>
    <3>1. UNCHANGED <<balance, tank, gauge, clerk, burnt>> BY <1>2, <2>2 DEF RefreshBegins
    <3> QED BY <3>1 DEF TreasuryInv, TreasuryOK, DestroyPaysBack, Of
  <2> QED BY <1>2, <2>1, <2>2 DEF RefreshBegins
<1>3. CASE Refreshed(k)
  <2>1. clerk[k].at = "refresh" /\ NextTank(k, "refresh") /\ UNCHANGED <<balance, tank, burnt>> BY <1>3 DEF Refreshed
  <2>2. clerk[k].todo \in Errand BY <1>0, <2>1, ClerksAt
  <2>3. Of(k) \in Tank /\ (Tail(clerk[k].todo) = <<>> \/ Tail(clerk[k].todo) \in Errand) BY <2>2, ErrandsGoOn DEF Of
  <2>4. PICK r \in ClerkRecord : Turns(k, r) /\ r.at # "delete"
    <3>1. CASE Tail(clerk[k].todo) = <<>> BY <1>0, <2>1, <3>1 DEF NextTank, Leaves
    <3>2. CASE Tail(clerk[k].todo) # <<>> BY <1>0, <2>1, <2>3, <3>2, ClerksNext DEF NextTank
    <3> QED BY <3>1, <3>2
  <2>5. gauge' \in [Tank -> Nat \cup {NoRow}] /\ \A c \in Tank : gauge'[c] = NoRow => gauge[c] = NoRow
    <3>1. CASE UNCHANGED gauge BY <1>0, <3>1
    <3>2. CASE gauge' = IF gauge[Of(k)] = NoRow THEN gauge ELSE [gauge EXCEPT ![Of(k)] = tank[Of(k)].cycles]
      <4>1. tank[Of(k)].cycles \in Nat /\ tank[Of(k)].cycles # NoRow BY <1>0, <2>3
      <4> QED BY <1>0, <2>3, <3>2, <4>1
    <3> QED BY <1>3, <3>1, <3>2 DEF Refreshed
  <2> QED BY <1>0, <2>1, <2>4, <2>5, ClerkGoesOn
<1>4. CASE CyclesSend(k)
  <2>1. CASE UNCHANGED clerk /\ balance' \in Nat
    <3>1. UNCHANGED <<tank, gauge, clerk, burnt>> /\ balance' \in Nat BY <1>4, <2>1 DEF CyclesSend
    <3> QED BY <3>1 DEF TreasuryInv, TreasuryOK, DestroyPaysBack, Of
  <2>2. CASE \E n \in Nat : balance' \in Nat /\ Turns(k, [at |-> "sent", amount |-> n])
    <3>1. PICK n \in Nat : balance' \in Nat /\ Turns(k, [at |-> "sent", amount |-> n]) BY <2>2
    <3>2. [at |-> "sent", amount |-> n] \in ClerkRecord BY DEF ClerkRecord
    <3>3. PICK r \in ClerkRecord : Turns(k, r) /\ r.at # "delete" BY <3>1, <3>2
    <3> QED BY <1>0, <1>4, <3>1, <3>3, ClerkGoesOn DEF CyclesSend
  <2>3. PICK income \in Converted :
          LET now == balance + income
              all == IF now > Reserve THEN now - Reserve ELSE 0
          IN \/ \E n \in Amounts \cup {all} :
                  \/ n > all /\ balance' = now /\ UNCHANGED clerk
                  \/ n <= all /\ balance' = now - n /\ Turns(k, [at |-> "sent", amount |-> n])
             \/ UNCHANGED <<balance, clerk>>
    BY <1>4 DEF CyclesSend
  <2> DEFINE now == balance + income
             all == IF now > Reserve THEN now - Reserve ELSE 0
  <2>4. now \in Nat /\ all \in Nat /\ all <= now BY <1>0, <1>1
  <2> HIDE DEF now, all
  <2>5. \A n \in Amounts \cup {all} : n \in Nat BY <2>4
  <2>6. \A n \in Amounts \cup {all} : n <= all => now - n \in Nat BY <2>4, <2>5
  <2>7. \/ \E n \in Amounts \cup {all} :
             \/ n > all /\ balance' = now /\ UNCHANGED clerk
             \/ n <= all /\ balance' = now - n /\ Turns(k, [at |-> "sent", amount |-> n])
        \/ UNCHANGED <<balance, clerk>>
    BY <2>3 DEF now, all
  <2>8. (UNCHANGED clerk /\ balance' \in Nat) \/ \E n \in Nat : balance' \in Nat /\ Turns(k, [at |-> "sent", amount |-> n])
    BY <1>0, <2>4, <2>5, <2>6, <2>7
  <2> QED BY <2>1, <2>2, <2>8
<1>5. CASE Sent(k)
  <2>1. clerk[k].amount \in Nat BY <1>0, <1>5, ClerksAt DEF Sent
  <2>2. balance' \in Nat BY <1>0, <1>5, <2>1 DEF Sent
  <2> QED BY <1>0, <1>5, <2>2, ClerkGoesOn DEF Sent, Leaves
<1> QED BY <1>2, <1>3, <1>4, <1>5

LEMMA DestroyKeeps ==
  ASSUME TreasuryInv, NEW k \in Clerks, DestroyBegins(k) \/ ReadSweep(k) \/ Swept(k) \/ Deleted(k)
  PROVE  TreasuryInv'
<1> USE TreasuryConstants
<1>0. /\ clerk \in [Clerks -> ClerkRecord] /\ clerk[k] \in ClerkRecord /\ balance \in Nat /\ gauge \in [Tank -> Nat \cup {NoRow}]
      /\ tank \in [Tank -> [cycles : Nat, lives : BOOLEAN]] /\ burnt \in [Tank -> Nat]
      /\ NoClerk \in ClerkRecord /\ NoClerk.at # "delete"
  <2>1. NoClerk \in ClerkRecord /\ NoClerk.at # "delete" BY DEF ClerkRecord, NoClerk
  <2> QED BY <2>1 DEF TreasuryInv, TreasuryOK
<1>1. CASE UNCHANGED <<balance, tank, gauge, burnt>> /\ (Leaves(k) \/ UNCHANGED clerk)
  <2>1. CASE Leaves(k) BY <1>0, <1>1, <2>1, ClerkGoesOn DEF Leaves
  <2>2. CASE UNCHANGED clerk BY <1>1, <2>2 DEF TreasuryInv, TreasuryOK, DestroyPaysBack, Of
  <2> QED BY <1>1, <2>1, <2>2
<1>2. CASE DestroyBegins(k)
  <2>1. UNCHANGED <<balance, tank, gauge, burnt>> BY <1>2 DEF DestroyBegins
  <2>2. CASE \E todo \in Named \ {<<>>} : Turns(k, [at |-> "sweeper", todo |-> todo])
    <3>1. PICK todo \in Errand : Turns(k, [at |-> "sweeper", todo |-> todo]) BY <2>2, ErrandsAreOfTanks
    <3>2. [at |-> "sweeper", todo |-> todo] \in ClerkRecord BY DEF ClerkRecord
    <3>3. PICK r \in ClerkRecord : Turns(k, r) /\ r.at # "delete" BY <3>1, <3>2
    <3> QED BY <1>0, <2>1, <3>3, ClerkGoesOn
  <2> QED BY <1>1, <1>2, <2>1, <2>2 DEF DestroyBegins
<1>3. ASSUME clerk[k].at \in {"sweeper", "sweep", "delete"}
      PROVE  clerk[k].todo \in Errand /\ Of(k) \in Tank /\ tank[Of(k)].cycles \in Nat /\ Head(clerk[k].todo) = Of(k)
             /\ (Tail(clerk[k].todo) = <<>> \/ Tail(clerk[k].todo) \in Errand)
  <2>1. clerk[k].todo \in Errand BY <1>0, <1>3, ClerksAt
  <2>2. Of(k) \in Tank /\ (Tail(clerk[k].todo) = <<>> \/ Tail(clerk[k].todo) \in Errand) BY <2>1, ErrandsGoOn DEF Of
  <2> QED BY <1>0, <2>1, <2>2 DEF Of
<1>4. Refuses(k) => Leaves(k) BY DEF Refuses
<1>5. CASE ReadSweep(k)
  <2>1. UNCHANGED <<balance, tank, gauge, burnt>> /\ clerk[k].at = "sweeper" BY <1>5 DEF ReadSweep
  <2>2. CASE Turns(k, [at |-> IF tank[Of(k)].cycles > SweepReserve THEN "sweep" ELSE "delete", todo |-> clerk[k].todo, late |-> 0])
    <3> DEFINE r == [at |-> IF tank[Of(k)].cycles > SweepReserve THEN "sweep" ELSE "delete", todo |-> clerk[k].todo, late |-> 0]
    <3>1. r \in ClerkRecord
      <4>1. \A at \in {"sweep", "delete"} : [at |-> at, todo |-> clerk[k].todo, late |-> 0] \in LateRecord BY <1>3, <2>1 DEF LateRecord
      <4> QED BY <4>1 DEF ClerkRecord
    <3>2. r.at = "delete" => tank[Head(r.todo)].cycles <= SweepReserve + r.late BY <1>3, <2>1
    <3>3. Turns(k, r) BY <2>2
    <3> HIDE DEF r
    <3> QED BY <1>0, <2>1, <3>1, <3>2, <3>3, ClerkGoesOn
  <2> QED BY <1>1, <1>4, <1>5, <2>1, <2>2 DEF ReadSweep
<1>6. CASE Swept(k)
  <2>1. UNCHANGED <<gauge, burnt>> /\ clerk[k].at = "sweep" BY <1>6 DEF Swept
  <2> DEFINE c == Of(k)
             r == [clerk[k] EXCEPT !.at = "delete"]
  <2>2. CASE /\ tank[c].cycles > SweepReserve /\ Turns(k, r)
             /\ tank' = [tank EXCEPT ![c].cycles = SweepReserve] /\ balance' = balance + (tank[c].cycles - SweepReserve)
    <3>1. r \in ClerkRecord /\ r.at = "delete" /\ r.todo = clerk[k].todo /\ r.late = clerk[k].late /\ clerk[k].late \in Nat
      <4>1. clerk[k].todo \in Errand /\ clerk[k] \in LateRecord BY <1>0, <1>3, <2>1, ClerksAt
      <4>2. LET d == [clerk[k] EXCEPT !.at = "delete"] IN d \in ClerkRecord /\ d.at = "delete" /\ d.todo = clerk[k].todo /\ d.late = clerk[k].late
        BY <1>0, <2>1, <4>1, ClerksNext
      <4> QED BY <4>1, <4>2 DEF LateRecord
    <3>2. clerk' \in [Clerks -> ClerkRecord] /\ clerk'[k] = r /\ \A q \in Clerks \ {k} : clerk'[q] = clerk[q]
      BY <1>0, <2>2, <3>1 DEF Turns
    <3>3. c \in Tank /\ tank[c].cycles \in Nat BY <1>3, <2>1
    <3>4. /\ tank' \in [Tank -> [cycles : Nat, lives : BOOLEAN]] /\ tank'[c].cycles = SweepReserve
          /\ \A d \in Tank : tank'[d].lives = tank[d].lives /\ (d # c => tank'[d] = tank[d])
      BY <1>0, <2>2, <3>3
    <3>5. balance' \in Nat BY <1>0, <2>2, <3>3
    <3>6. TreasuryOK' BY <1>0, <2>1, <3>2, <3>4, <3>5 DEF TreasuryOK
    <3>7. DestroyPaysBack' BY <2>1, <3>4 DEF TreasuryInv, DestroyPaysBack
    <3>8. ASSUME NEW q \in Clerks, clerk'[q].at = "delete"
          PROVE  tank'[Head(clerk'[q].todo)].cycles <= SweepReserve + clerk'[q].late
      <4>1. CASE q = k
        <5>1. Head(clerk'[q].todo) = c BY <3>1, <3>2, <4>1 DEF Of
        <5>2. clerk'[q].late = clerk[k].late /\ clerk[k].late \in Nat /\ tank'[c].cycles = SweepReserve BY <3>1, <3>2, <3>4, <4>1
        <5> HIDE DEF r
        <5> QED BY <5>1, <5>2
      <4>2. CASE q # k
        <5>1. clerk'[q] = clerk[q] BY <3>2, <4>2
        <5>2. clerk[q] \in LateRecord BY <1>0, <3>8, <5>1, ClerksAt
        <5>3. clerk[q].late \in Nat /\ Of(q) \in Tank /\ Head(clerk[q].todo) = Of(q) BY <5>2, ErrandsGoOn DEF LateRecord, Of
        <5>4. tank[Of(q)].cycles <= SweepReserve + clerk[q].late BY <3>8, <5>1 DEF TreasuryInv
        <5> QED BY <3>4, <5>1, <5>3, <5>4
      <4> QED BY <4>1, <4>2
    <3> QED BY <3>6, <3>7, <3>8 DEF TreasuryInv, Of
  <2>3. CASE Leaves(k) /\ UNCHANGED <<tank, balance>> BY <1>1, <2>1, <2>3
  <2> QED BY <1>4, <1>6, <2>2, <2>3 DEF Swept, OnTo
<1>7. CASE Deleted(k)
  <2>1. UNCHANGED balance /\ clerk[k].at = "delete" BY <1>7 DEF Deleted
  <2> DEFINE c == Of(k)
             late == clerk[k].late
  <2>2. clerk[k] \in LateRecord /\ late \in Nat /\ c \in Tank /\ tank[c].cycles \in Nat /\ tank[c].cycles <= SweepReserve + late
    <3>1. clerk[k] \in LateRecord BY <1>0, <2>1, ClerksAt
    <3> QED BY <1>3, <2>1, <3>1 DEF TreasuryInv, LateRecord
  <2>3. CASE /\ tank[c].lives /\ tank' = [tank EXCEPT ![c].lives = FALSE]
             /\ burnt' = [burnt EXCEPT ![c] = IF tank[c].cycles > late THEN tank[c].cycles - late ELSE 0]
             /\ \/ gauge' = [gauge EXCEPT ![c] = NoRow] /\ NextTank(k, "sweeper")
                \/ Leaves(k) /\ UNCHANGED gauge
    <3>1. PICK r \in ClerkRecord : Turns(k, r) /\ r.at # "delete"
      <4>1. CASE Leaves(k) BY <1>0, <4>1 DEF Leaves
      <4>2. CASE NextTank(k, "sweeper")
        <5>1. CASE Tail(clerk[k].todo) = <<>> BY <1>0, <4>2, <5>1 DEF NextTank, Leaves
        <5>2. CASE Tail(clerk[k].todo) # <<>> BY <1>0, <1>3, <2>1, <4>2, <5>2, ClerksNext DEF NextTank
        <5> QED BY <5>1, <5>2
      <4> QED BY <2>3, <4>1, <4>2
    <3>2. clerk' \in [Clerks -> ClerkRecord] /\ clerk'[k] = r /\ \A q \in Clerks \ {k} : clerk'[q] = clerk[q]
      BY <1>0, <3>1 DEF Turns
    <3>3. /\ tank' \in [Tank -> [cycles : Nat, lives : BOOLEAN]] /\ ~tank'[c].lives
          /\ \A d \in Tank : tank'[d].cycles = tank[d].cycles /\ (d # c => tank'[d] = tank[d])
      BY <1>0, <2>2, <2>3
    <3>4. burnt' \in [Tank -> Nat] /\ burnt'[c] <= SweepReserve /\ \A d \in Tank \ {c} : burnt'[d] = burnt[d]
      <4> DEFINE b == IF tank[c].cycles > late THEN tank[c].cycles - late ELSE 0
      <4>1. b \in Nat /\ b <= SweepReserve BY <2>2
      <4>2. burnt' = [burnt EXCEPT ![c] = b] BY <2>3
      <4> HIDE DEF b
      <4> QED BY <1>0, <2>2, <4>1, <4>2
    <3>5. gauge' \in [Tank -> Nat \cup {NoRow}] /\ \A d \in Tank \ {c} : gauge'[d] = gauge[d] BY <1>0, <2>2, <2>3
    <3>6. TreasuryOK' BY <1>0, <2>1, <3>2, <3>3, <3>4, <3>5 DEF TreasuryOK
    <3>7. DestroyPaysBack' BY <2>2, <3>3, <3>4, <3>5 DEF TreasuryInv, DestroyPaysBack
    <3>8. ASSUME NEW q \in Clerks, clerk'[q].at = "delete"
          PROVE  tank'[Head(clerk'[q].todo)].cycles <= SweepReserve + clerk'[q].late
      <4>1. clerk'[q] = clerk[q] BY <3>1, <3>2, <3>8
      <4>2. clerk[q] \in LateRecord BY <1>0, <3>8, <4>1, ClerksAt
      <4>3. Of(q) \in Tank /\ Head(clerk[q].todo) = Of(q) BY <4>2, ErrandsGoOn DEF LateRecord, Of
      <4>4. tank[Of(q)].cycles <= SweepReserve + clerk[q].late BY <3>8, <4>1 DEF TreasuryInv
      <4> QED BY <3>3, <4>1, <4>3, <4>4
    <3> QED BY <3>6, <3>7, <3>8 DEF TreasuryInv, Of
  <2>4. CASE Refuses(k) /\ UNCHANGED <<tank, gauge, burnt>> BY <1>1, <1>4, <2>1, <2>4
  <2> QED BY <1>7, <2>3, <2>4 DEF Deleted
<1> QED BY <1>2, <1>5, <1>6, <1>7

LEMMA TreasuryKept == ASSUME TreasuryInv, [TreasuryNext]_treasuryVars PROVE TreasuryInv'
<1>1. CASE UNCHANGED treasuryVars
  BY <1>1 DEF treasuryVars, TreasuryInv, TreasuryOK, DestroyPaysBack, Of
<1>2. CASE CreateSpends
  <2>1. balance \in Nat /\ balance' \in Nat BY <1>2, TreasuryConstants DEF CreateSpends, TreasuryInv, TreasuryOK
  <2> QED BY <1>2, <2>1 DEF CreateSpends, TreasuryInv, TreasuryOK, DestroyPaysBack, Of
<1>3. ASSUME NEW k \in Clerks,
             \/ TopUpBegins(k) \/ Gauge(k) \/ TopUp(k) \/ Deposited(k)
             \/ RefreshBegins(k) \/ Refreshed(k) \/ CyclesSend(k) \/ Sent(k)
             \/ DestroyBegins(k) \/ ReadSweep(k) \/ Swept(k) \/ Deleted(k)
      PROVE  TreasuryInv'
  BY <1>3, TopUpKeeps, DepositKeeps, MoneyMovesKeep, DestroyKeeps
<1> QED BY <1>1, <1>2, <1>3 DEF TreasuryNext

\* Whatever is topped up, sent, created or destroyed meanwhile, and whichever calls fail, a
\* destroyed canister takes no more than the sweeper's reserve with it, and its row goes
\* only when it is gone (`destroy' of src/canisters.py and stands.py, sweeper.py).
THEOREM DestroyedPaysBack == Spec => []DestroyPaysBack
<1>1. Init => TreasuryInv
  <2>1. TreasuryInit => TreasuryOK
    <3>1. NoClerk \in ClerkRecord BY DEF ClerkRecord
    <3> QED BY <3>1, TreasuryConstants DEF TreasuryInit, TreasuryOK
  <2>2. TreasuryInit => DestroyPaysBack BY TreasuryConstants DEF TreasuryInit, DestroyPaysBack
  <2>3. TreasuryInit => \A k \in Clerks : clerk[k].at # "delete" BY DEF TreasuryInit, NoClerk
  <2> QED BY <2>1, <2>2, <2>3 DEF Init, TreasuryInv
<1>2. TreasuryInv /\ [Next]_vars => TreasuryInv' BY TreasuryKept, PartsMoveApart
<1>3. TreasuryInv => DestroyPaysBack BY DEF TreasuryInv
<1> QED BY <1>1, <1>2, <1>3, PTL DEF Spec
-----------------------------------------------------------------------------
(* A stand's rows and its baton *)

ReaderRecord ==
  [at : {"idle", "list", "apply", "settle", "propose"}, since : Nat, todo : Seq(Nat), beside : BOOLEAN, proposes : BOOLEAN,
   rows : {<<>>} \cup [Members -> Modules]]

SyncOK ==
  /\ actions \in Seq(Action) /\ runs \in [Members -> Modules] /\ wasm \in [Members -> Modules] /\ synced \in Nat
  /\ reader \in [Readers -> ReaderRecord]
  /\ \A i \in DOMAIN actions : actions[i].status = "open" => i = Len(actions)
  /\ synced \in {0} \cup Completed

Touches(i, m) == m \in DOMAIN actions[i].to

\* What a member runs is what the last completed action for it said.
RunsSay ==
  \A m \in Members, i \in Completed :
    Touches(i, m) /\ (\A j \in Completed : Touches(j, m) => j <= i) => runs[m] = actions[i].to[m]

\* The row of a member says what it runs once no action for it is past the watermark.
RowsSay ==
  ~outOfTurn => \A m \in Members : (\A j \in Completed : Touches(j, m) => j <= synced) => wasm[m] = runs[m]

\* A sync that nobody overtook has the completed actions past the watermark before it, but
\* for those that completed since it listed them, in order.
HasTheRest(todo, done, mark) ==
  /\ \A j \in done : j > mark => j \in ToSet(todo) \/ \A i \in ToSet(todo) : i < j
  /\ \A i \in ToSet(todo) : i > mark
Rising(todo) == \A a, b \in 1..Len(todo) : a < b => todo[a] < todo[b]
ReaderSound(r, known, done, mark) ==
  /\ r.at = "list" /\ ~r.beside => r.since = mark
  /\ r.at = "apply" => r.todo # <<>> /\ ToSet(r.todo) \subseteq done /\ Rising(r.todo)
  /\ r.at = "apply" /\ ~r.beside => HasTheRest(r.todo, done, mark)
  /\ r.at = "settle" => r.todo # <<>> /\ Head(r.todo) \in known
  /\ r.at = "propose" => r.rows \in [Members -> Modules]
ReadersSound == \A q \in Readers : ReaderSound(reader[q], DOMAIN actions, Completed, synced)

SyncInv == SyncOK /\ RunsSay /\ RowsSay /\ ReadersSound

LEMMA CompletedIsFinite ==
  ASSUME SyncOK
  PROVE  Completed \subseteq 1..Len(actions) /\ IsFiniteSet(Completed) /\ Len(actions) \in Nat /\ DOMAIN actions = 1..Len(actions)
<1>1. Completed \subseteq 1..Len(actions) /\ Len(actions) \in Nat /\ DOMAIN actions = 1..Len(actions) BY DEF SyncOK, Completed
<1>2. IsFiniteSet(1..Len(actions)) BY <1>1, FS_Interval
<1> QED BY <1>1, <1>2, FS_Subset

\* What happens to the baton or to a reader and completes no action leaves the rows.
LEMMA NothingDone ==
  ASSUME SyncInv, Completed' = Completed, \A i \in Completed : actions'[i].to = actions[i].to, UNCHANGED <<runs, wasm, synced, outOfTurn>>
  PROVE  RunsSay' /\ RowsSay' /\ synced' \in {0} \cup Completed'
BY DEF SyncInv, SyncOK, RunsSay, RowsSay, Touches

LEMMA GoneIsSound == \A known, done, mark : ReaderSound(Gone, known, done, mark) /\ Gone \in ReaderRecord
BY DEF Gone, ReaderSound, ReaderRecord

LEMMA KnowsMore ==
  ASSUME NEW r, NEW known, NEW more, NEW done, NEW mark, known \subseteq more, ReaderSound(r, known, done, mark)
  PROVE  ReaderSound(r, more, done, mark)
BY DEF ReaderSound

LEMMA FiledKeeps ==
  ASSUME SyncInv, NEW a \in Action, a.status = "open", Filed(a), UNCHANGED <<runs, wasm, synced, outOfTurn>>,
         reader' \in [Readers -> ReaderRecord], \A q \in Readers : reader'[q] = reader[q] \/ reader'[q] = Gone
  PROVE  SyncInv'
<1>1. /\ actions' \in Seq(Action) /\ Len(actions') = Len(actions) + 1 /\ Len(actions) \in Nat
      /\ DOMAIN actions' = 1..(Len(actions) + 1) /\ DOMAIN actions = 1..Len(actions)
      /\ actions'[Len(actions) + 1] = a /\ \A i \in 1..Len(actions) : actions'[i] = actions[i]
  BY DEF SyncInv, SyncOK, Filed
<1>2. \A i \in DOMAIN actions : actions[i].status # "open" BY DEF Filed, Open
<1>3. Completed' = Completed
  <2>1. Completed' = {i \in DOMAIN actions' : actions'[i].status = "COMPLETE"} BY DEF Completed
  <2>2. \A i \in DOMAIN actions' : i \in DOMAIN actions \/ i = Len(actions) + 1 BY <1>1
  <2> QED BY <1>1, <2>1, <2>2 DEF Completed
<1>4. \A i \in Completed : actions'[i].to = actions[i].to BY <1>1 DEF Completed
<1>5. RunsSay' /\ RowsSay' /\ synced' \in {0} \cup Completed' BY <1>3, <1>4, NothingDone
<1>6. SyncOK'
  <2>1. \A i \in DOMAIN actions' : actions'[i].status = "open" => i = Len(actions') BY <1>1, <1>2
  <2> QED BY <1>1, <1>5, <2>1 DEF SyncInv, SyncOK
<1>7. ReadersSound'
  <2>1. DOMAIN actions \subseteq DOMAIN actions' BY <1>1
  <2>2. ASSUME NEW q \in Readers PROVE ReaderSound(reader'[q], DOMAIN actions', Completed', synced')
    <3>1. ReaderSound(reader[q], DOMAIN actions, Completed, synced) BY DEF SyncInv, ReadersSound
    <3>2. ReaderSound(reader[q], DOMAIN actions', Completed', synced') BY <1>3, <2>1, <3>1, KnowsMore
    <3> QED BY <3>2, GoneIsSound
  <2> QED BY <2>2 DEF ReadersSound
<1> QED BY <1>5, <1>6, <1>7 DEF SyncInv

\* A reader that moves on while the rest stays.
LEMMA ReaderMoves ==
  ASSUME SyncInv, UNCHANGED <<actions, runs, wasm, synced, outOfTurn>>, NEW r \in Readers, NEW next \in ReaderRecord,
         ReaderSound(next, DOMAIN actions, Completed, synced), reader' = [reader EXCEPT ![r] = next]
  PROVE  SyncInv'
<1>1. Completed' = Completed BY DEF Completed
<1>2. RunsSay' /\ RowsSay' /\ synced' \in {0} \cup Completed' BY <1>1, NothingDone
<1>3. SyncOK' BY <1>2 DEF SyncInv, SyncOK
<1>4. \A q \in Readers : reader'[q] = reader[q] \/ reader'[q] = next BY DEF SyncInv, SyncOK
<1>5. ReadersSound' BY <1>1, <1>4 DEF SyncInv, ReadersSound
<1> QED BY <1>2, <1>3, <1>5 DEF SyncInv

\* A sync that is over, with or without a release to propose.
LEMMA SyncedIsSound ==
  ASSUME NEW r, NEW rows \in [Members -> Modules], NEW next \in Synced(r, rows)
  PROVE  next \in ReaderRecord /\ \A known, done, mark : ReaderSound(next, known, done, mark)
<1>1. CASE next = Gone BY <1>1, GoneIsSound
<1>2. CASE next # Gone
  <2>1. next = [Gone EXCEPT !.at = "propose", !.rows = rows] BY <1>2 DEF Synced
  <2>2. next \in ReaderRecord /\ next.at = "propose" /\ next.rows = rows
    <3>1. next = [at |-> "propose", since |-> 0, todo |-> <<>>, beside |-> FALSE, proposes |-> FALSE, rows |-> rows] BY <2>1 DEF Gone
    <3>2. <<>> \in Seq(Nat) OBVIOUS
    <3> QED BY <3>1, <3>2 DEF ReaderRecord
  <2> QED BY <2>2 DEF ReaderSound
<1> QED BY <1>1, <1>2

LEMMA BeginsKeep == ASSUME SyncInv, NEW r \in Readers, BeginSync(r) \/ BeginSettle(r) \/ ReadFails(r) PROVE SyncInv'
<1>1. UNCHANGED <<actions, runs, wasm, synced, outOfTurn>> BY DEF BeginSync, BeginSettle, ReadFails
<1>2. synced \in Nat /\ DOMAIN actions \subseteq Nat BY DEF SyncInv, SyncOK
<1>3. ASSUME NEW proposes \in BOOLEAN, reader' = [reader EXCEPT ![r] = [Gone EXCEPT !.at = "list", !.since = synced, !.proposes = proposes]]
      PROVE  SyncInv'
  <2> DEFINE next == [Gone EXCEPT !.at = "list", !.since = synced, !.proposes = proposes]
  <2>1. next \in ReaderRecord /\ next.at = "list" /\ next.since = synced
    <3>1. \A g \in ReaderRecord, n \in Nat : LET h == [g EXCEPT !.at = "list", !.since = n, !.proposes = proposes]
                                             IN h \in ReaderRecord /\ h.at = "list" /\ h.since = n
      BY DEF ReaderRecord
    <3> QED BY <1>2, <3>1, GoneIsSound
  <2> HIDE DEF next
  <2>2. ReaderSound(next, DOMAIN actions, Completed, synced) BY <2>1 DEF ReaderSound
  <2> QED BY <1>1, <1>3, <2>1, <2>2, ReaderMoves DEF next
<1>4. ASSUME NEW i \in DOMAIN actions, reader' = [reader EXCEPT ![r] = [Gone EXCEPT !.at = "settle", !.todo = <<i>>]]
      PROVE  SyncInv'
  <2> DEFINE next == [Gone EXCEPT !.at = "settle", !.todo = <<i>>]
  <2>1. <<i>> \in Seq(Nat) /\ <<i>> # <<>> /\ Head(<<i>>) = i BY <1>2
  <2>2. next \in ReaderRecord /\ next.at = "settle" /\ next.todo = <<i>> BY <2>1 DEF Gone, ReaderRecord
  <2> HIDE DEF next
  <2>3. ReaderSound(next, DOMAIN actions, Completed, synced) BY <2>1, <2>2 DEF ReaderSound
  <2> QED BY <1>1, <1>4, <2>2, <2>3, ReaderMoves DEF next
<1>5. CASE reader' = [reader EXCEPT ![r] = Gone] BY <1>1, <1>5, GoneIsSound, ReaderMoves
<1> QED BY <1>3, <1>4, <1>5 DEF BeginSync, BeginSettle, ReadFails

LEMMA ListKeeps == ASSUME SyncInv, NEW r \in Readers, ListActions(r) PROVE SyncInv'
<1> DEFINE found == {i \in Completed : i > reader[r].since}
<1>1. UNCHANGED <<actions, runs, wasm, synced, outOfTurn>> /\ reader[r].at = "list" BY DEF ListActions, Reading
<1>2. reader[r] \in ReaderRecord /\ ReaderSound(reader[r], DOMAIN actions, Completed, synced) /\ wasm \in [Members -> Modules]
  BY DEF SyncInv, SyncOK, ReadersSound
<1>3. CASE found # {} /\ reader' = [reader EXCEPT ![r].at = "apply", ![r].since = 0, ![r].todo = InOrder(found)]
  <2> DEFINE next == [reader[r] EXCEPT !.at = "apply", !.since = 0, !.todo = InOrder(found)]
  <2>1. found \subseteq Nat /\ IsFiniteSet(found) /\ found \subseteq Completed
    <3>1. Completed \subseteq Nat /\ IsFiniteSet(Completed) BY CompletedIsFinite DEF SyncInv
    <3> QED BY <3>1, FS_Subset
  <2>2. InOrder(found) \in Seq(found) /\ ToSet(InOrder(found)) = found
        /\ \A a, b \in 1..Len(InOrder(found)) : a < b => InOrder(found)[a] < InOrder(found)[b]
    <3> HIDE DEF found
    <3> QED BY <2>1, AscendingLists DEF InOrder
  <2> DEFINE todo == InOrder(found)
  <2>3. todo \in Seq(Nat) /\ todo # <<>>
    <3>1. ToSet(<<>>) = {} BY DEF ToSet
    <3>2. todo \in Seq(found) BY <2>2
    <3> HIDE DEF found, todo
    <3>3. ToSet(todo) = found BY <2>2 DEF todo
    <3> QED BY <1>3, <2>1, <3>1, <3>2, <3>3, SeqOfSubset
  <2>4. ToSet(todo) = found /\ Rising(todo)
    <3> HIDE DEF found
    <3> QED BY <2>2 DEF Rising
  <2> HIDE DEF todo
  <2>5. next \in ReaderRecord /\ next.at = "apply" /\ next.todo = todo /\ next.beside = reader[r].beside
    <3> HIDE DEF found
    <3> QED BY <1>2, <2>3 DEF ReaderRecord, todo
  <2>6. reader' = [reader EXCEPT ![r] = next]
    <3> HIDE DEF found
    <3> QED BY <1>3 DEF SyncInv, SyncOK
  <2>7. ~reader[r].beside => HasTheRest(todo, Completed, synced)
    <3>1. ~reader[r].beside => reader[r].since = synced BY <1>1, <1>2 DEF ReaderSound
    <3> QED BY <2>4, <3>1 DEF HasTheRest
  <2> HIDE DEF next
  <2>8. ReaderSound(next, DOMAIN actions, Completed, synced)
    <3> HIDE DEF found
    <3> QED BY <2>1, <2>3, <2>4, <2>5, <2>7 DEF ReaderSound
  <2> QED BY <1>1, <2>5, <2>6, <2>8, ReaderMoves
<1>4. ASSUME NEW next \in Synced(r, wasm), reader' = [reader EXCEPT ![r] = next] PROVE SyncInv'
  <2>1. next \in ReaderRecord /\ ReaderSound(next, DOMAIN actions, Completed, synced) BY <1>2, SyncedIsSound
  <2> QED BY <1>1, <1>4, <2>1, ReaderMoves
<1> QED BY <1>3, <1>4 DEF ListActions

LEMMA ProposesKeep == ASSUME SyncInv, ProposeUpgrade \/ ProposeRestore \/ (\E r \in Readers : ProposeRelease(r)) PROVE SyncInv'
<1>1. ASSUME NEW kind \in {"upgrade", "restore"}, NEW to \in Wishes, Propose(kind, to) PROVE SyncInv'
  <2> DEFINE a == [kind |-> kind, to |-> to, pinned |-> runs, status |-> "open"]
  <2>1. a \in Action /\ a.status = "open"
    <3>1. to \in UNION {[T -> Modules] : T \in SUBSET Members} BY WishesAssumption
    <3>2. runs \in [Members -> Modules] BY DEF SyncInv, SyncOK
    <3> QED BY <3>1, <3>2 DEF Action
  <2>2. Filed(a) /\ UNCHANGED <<runs, wasm, synced, outOfTurn, reader>> BY <1>1 DEF Propose
  <2> HIDE DEF a
  <2>3. reader' \in [Readers -> ReaderRecord] /\ \A q \in Readers : reader'[q] = reader[q] BY <2>2 DEF SyncInv, SyncOK
  <2> QED BY <2>1, <2>2, <2>3, FiledKeeps
<1>2. ASSUME NEW r \in Readers, ProposeRelease(r) PROVE SyncInv'
  <2>0. PICK plan \in Plans(reader[r].rows) :
          Filed([kind |-> "release", to |-> plan.to, pinned |-> plan.pinned, status |-> "open"])
    BY <1>2 DEF ProposeRelease
  <2> DEFINE a == [kind |-> "release", to |-> plan.to, pinned |-> plan.pinned, status |-> "open"]
  <2>1. a \in Action /\ a.status = "open"
    <3> DEFINE rows == reader[r].rows
    <3>1. rows \in [Members -> Modules] BY <1>2 DEF ProposeRelease, Reading, SyncInv, ReadersSound, ReaderSound
    <3> HIDE DEF rows
    <3>2. PICK spec \in Wishes : plan = [to |-> Restrict(spec, Changed(spec, rows)), pinned |-> rows] BY <2>0 DEF Plans, rows
    <3>3. PICK T \in SUBSET Members : spec \in [T -> Modules] BY WishesAssumption
    <3>4. Changed(spec, rows) \in SUBSET Members /\ Changed(spec, rows) \subseteq T BY <3>3 DEF Changed
    <3>5. Restrict(spec, Changed(spec, rows)) \in [Changed(spec, rows) -> Modules] BY <3>3, <3>4 DEF Restrict
    <3>6. plan.to \in UNION {[S -> Modules] : S \in SUBSET Members} BY <3>2, <3>4, <3>5
    <3> QED BY <3>1, <3>2, <3>6 DEF Action
  <2>2. Filed(a) /\ UNCHANGED <<runs, wasm, synced, outOfTurn>> /\ reader' = [reader EXCEPT ![r] = Gone] BY <1>2, <2>0 DEF ProposeRelease
  <2> HIDE DEF a
  <2>3. reader' \in [Readers -> ReaderRecord] /\ \A q \in Readers : reader'[q] = reader[q] \/ reader'[q] = Gone
    BY <2>2, GoneIsSound DEF SyncInv, SyncOK
  <2> QED BY <2>1, <2>2, <2>3, FiledKeeps
<1> QED BY <1>1, <1>2 DEF ProposeUpgrade, ProposeRestore

\* The open action, which is the last, ends.
LEMMA LastEnds ==
  ASSUME SyncInv, Open, NEW status \in {"COMPLETE", "FAILED"}, Ended(status)
  PROVE  /\ Len(actions) \in DOMAIN actions /\ Len(actions) \notin Completed /\ Last(actions) = actions[Len(actions)]
         /\ actions' \in Seq(Action) /\ DOMAIN actions' = DOMAIN actions /\ Len(actions') = Len(actions)
         /\ \A i \in DOMAIN actions : actions'[i].to = actions[i].to /\ actions'[i].status # "open"
         /\ Completed' = IF status = "COMPLETE" THEN Completed \cup {Len(actions)} ELSE Completed
<1> DEFINE n == Len(actions)
<1>1. n \in Nat /\ DOMAIN actions = 1..n /\ actions \in Seq(Action) /\ \A i \in 1..n : actions[i] \in Action
  BY DEF SyncInv, SyncOK
<1>2. n \in DOMAIN actions /\ actions[n].status = "open" BY DEF Open, SyncInv, SyncOK
<1>3. actions' = [actions EXCEPT ![n].status = status] BY DEF Ended
<1> HIDE DEF n
<1>4. /\ DOMAIN actions' = DOMAIN actions /\ \A i \in DOMAIN actions \ {n} : actions'[i] = actions[i]
      /\ actions'[n] = [actions[n] EXCEPT !.status = status]
  BY <1>2, <1>3
<1>5. actions'[n] \in Action /\ actions'[n].to = actions[n].to /\ actions'[n].status = status
  BY <1>1, <1>2, <1>4 DEF Action
<1>6. actions' \in Seq(Action) /\ Len(actions') = n
  <2>1. actions' = [i \in 1..n |-> actions'[i]] BY <1>1, <1>3
  <2>2. \A i \in 1..n : actions'[i] \in Action BY <1>1, <1>4, <1>5
  <2> QED BY <1>1, <2>1, <2>2
<1>7. \A i \in DOMAIN actions : actions'[i].to = actions[i].to /\ actions'[i].status # "open"
  <2>1. \A i \in DOMAIN actions \ {n} : actions[i].status # "open" BY DEF SyncInv, SyncOK, n
  <2> QED BY <1>4, <1>5, <2>1
<1>8. Completed' = IF status = "COMPLETE" THEN Completed \cup {n} ELSE Completed
  <2>1. Completed' = {i \in DOMAIN actions : actions'[i].status = "COMPLETE"} BY <1>4 DEF Completed
  <2>2. n \notin Completed BY <1>2 DEF Completed
  <2> QED BY <1>2, <1>4, <1>5, <2>1, <2>2 DEF Completed
<1>9. Last(actions) = actions[n] /\ n \notin Completed BY <1>2 DEF Last, n, Completed
<1> QED BY <1>1, <1>2, <1>4, <1>6, <1>7, <1>8, <1>9 DEF n

LEMMA FailsKeep == ASSUME SyncInv, BatonFails \/ AbortRelease PROVE SyncInv'
<1>1. Open /\ Ended("FAILED") /\ UNCHANGED <<runs, wasm, synced, outOfTurn, reader>> BY DEF BatonFails, AbortRelease
<1>2. /\ actions' \in Seq(Action) /\ DOMAIN actions' = DOMAIN actions /\ Completed' = Completed
      /\ \A i \in DOMAIN actions : actions'[i].to = actions[i].to /\ actions'[i].status # "open"
  BY <1>1, LastEnds
<1>3. \A i \in Completed : actions'[i].to = actions[i].to BY <1>2 DEF Completed
<1>4. RunsSay' /\ RowsSay' /\ synced' \in {0} \cup Completed' BY <1>1, <1>2, <1>3, NothingDone
<1>5. SyncOK' BY <1>1, <1>2, <1>4 DEF SyncInv, SyncOK
<1>6. ReadersSound' BY <1>1, <1>2 DEF SyncInv, ReadersSound
<1> QED BY <1>4, <1>5, <1>6 DEF SyncInv

LEMMA CompletesKeep == ASSUME SyncInv, BatonCompletes PROVE SyncInv'
<1> DEFINE n == Len(actions)
<1>1. Open /\ Ended("COMPLETE") /\ UNCHANGED <<wasm, synced, outOfTurn, reader>> /\ runs' = Over(runs, Last(actions).to)
  BY DEF BatonCompletes
<1>2. /\ n \in DOMAIN actions /\ n \notin Completed /\ Last(actions) = actions[n]
      /\ actions' \in Seq(Action) /\ DOMAIN actions' = DOMAIN actions
      /\ \A i \in DOMAIN actions : actions'[i].to = actions[i].to /\ actions'[i].status # "open"
      /\ Completed' = Completed \cup {n}
  BY <1>1, LastEnds
<1>3. /\ n \in Nat /\ n # 0 /\ Completed \subseteq 1..n /\ runs \in [Members -> Modules] /\ wasm \in [Members -> Modules]
      /\ synced \in {0} \cup Completed /\ synced \in Nat
  BY <1>2, CompletedIsFinite DEF SyncInv, SyncOK
<1>4. \A j \in Completed : j < n /\ j \in Nat BY <1>2, <1>3
<1>5. synced < n BY <1>3, <1>4
<1> HIDE DEF n
<1>6. /\ runs' \in [Members -> Modules] /\ \A m \in Members : Touches(n, m) => runs'[m] = actions[n].to[m]
      /\ \A m \in Members : ~Touches(n, m) => runs'[m] = runs[m]
  <2>1. actions[n] \in Action BY <1>2 DEF SyncInv, SyncOK
  <2>2. PICK T \in SUBSET Members : actions[n].to \in [T -> Modules] BY <2>1 DEF Action
  <2>3. runs' = [m \in Members |-> IF m \in T THEN actions[n].to[m] ELSE runs[m]] BY <1>1, <1>2, <1>3, <2>2 DEF Over
  <2> QED BY <1>3, <2>2, <2>3 DEF Touches
<1>7. \A i \in DOMAIN actions, m \in Members : Touches(i, m)' <=> Touches(i, m) BY <1>2 DEF Touches
<1>8. Completed \subseteq DOMAIN actions BY DEF Completed
<1>9. RunsSay'
  <2>1. ASSUME NEW m \in Members, NEW i \in Completed', Touches(i, m)', \A j \in Completed' : Touches(j, m)' => j <= i
        PROVE  runs'[m] = actions'[i].to[m]
    <3>0. \A j \in Completed' : j \in DOMAIN actions BY <1>2, <1>8
    <3>1. Touches(i, m) /\ \A j \in Completed' : Touches(j, m) => j <= i BY <1>7, <2>1, <3>0
    <3>2. CASE i = n BY <1>2, <1>6, <3>1, <3>2
    <3>3. CASE i # n
      <4>1. i \in Completed /\ i < n /\ i \in Nat BY <1>2, <1>4, <3>3
      <4>2. ~Touches(n, m) BY <1>2, <1>3, <3>1, <4>1
      <4>3. runs[m] = actions[i].to[m] BY <1>2, <3>1, <4>1 DEF SyncInv, RunsSay
      <4> QED BY <1>2, <1>6, <3>0, <4>2, <4>3
    <3> QED BY <3>2, <3>3
  <2> QED BY <2>1 DEF RunsSay
<1>10. RowsSay'
  <2>1. ASSUME ~outOfTurn, NEW m \in Members, \A j \in Completed' : Touches(j, m)' => j <= synced
        PROVE  wasm[m] = runs'[m]
    <3>0. \A j \in Completed' : j \in DOMAIN actions BY <1>2, <1>8
    <3>1. \A j \in Completed' : Touches(j, m) => j <= synced BY <1>7, <2>1, <3>0
    <3>2. ~Touches(n, m) BY <1>2, <1>3, <1>5, <3>1
    <3>3. wasm[m] = runs[m] BY <1>2, <2>1, <3>1 DEF SyncInv, RowsSay
    <3> QED BY <1>6, <3>2, <3>3
  <2> QED BY <1>1, <2>1 DEF RowsSay
<1>11. SyncOK' BY <1>1, <1>2, <1>6 DEF SyncInv, SyncOK
<1>12. ReadersSound'
  <2>1. ASSUME NEW q \in Readers PROVE ReaderSound(reader[q], DOMAIN actions, Completed \cup {n}, synced)
    <3>1. ReaderSound(reader[q], DOMAIN actions, Completed, synced) BY DEF SyncInv, ReadersSound
    <3>2. reader[q].at = "apply" => \A i \in ToSet(reader[q].todo) : i < n BY <1>4, <3>1 DEF ReaderSound
    <3>3. reader[q].at = "apply" /\ HasTheRest(reader[q].todo, Completed, synced) => HasTheRest(reader[q].todo, Completed \cup {n}, synced)
      BY <3>2 DEF HasTheRest
    <3> QED BY <3>1, <3>3 DEF ReaderSound
  <2> QED BY <1>1, <1>2, <2>1 DEF ReadersSound
<1> QED BY <1>9, <1>10, <1>11, <1>12 DEF SyncInv

\* The members an action is for get what it says, in the rows or for real.
LEMMA OverRows ==
  ASSUME SyncOK, NEW f \in [Members -> Modules], NEW i \in DOMAIN actions
  PROVE  /\ Over(f, actions[i].to) \in [Members -> Modules]
         /\ \A m \in Members : Over(f, actions[i].to)[m] = IF Touches(i, m) THEN actions[i].to[m] ELSE f[m]
<1>1. actions[i] \in Action BY DEF SyncOK
<1>2. PICK T \in SUBSET Members : actions[i].to \in [T -> Modules] BY <1>1 DEF Action
<1>3. Over(f, actions[i].to) = [m \in Members |-> IF m \in T THEN actions[i].to[m] ELSE f[m]] BY <1>2 DEF Over
<1> QED BY <1>2, <1>3 DEF Touches

LEMMA SettleKeeps == ASSUME SyncInv, NEW r \in Readers, SettleRelease(r) PROVE SyncInv'
<1> DEFINE i == Head(reader[r].todo)
<1>1. /\ reader[r].at = "settle" /\ reader' = [reader EXCEPT ![r] = Gone] /\ UNCHANGED <<actions, runs, synced>>
      /\ (i \in Completed /\ wasm' = Over(wasm, actions[i].to)) \/ UNCHANGED wasm
      /\ outOfTurn' = (outOfTurn \/ \E j \in Completed : j > i)
  <2>1. reader[r].at = "settle" /\ ReaderSound(reader[r], DOMAIN actions, Completed, synced)
    BY DEF SettleRelease, Reading, SyncInv, ReadersSound
  <2>2. i \in DOMAIN actions BY <2>1 DEF ReaderSound
  <2> HIDE DEF i
  <2>3. actions[i].status = "COMPLETE" => i \in Completed BY <2>2 DEF Completed
  <2> QED BY <2>1, <2>3 DEF SettleRelease, i
<1> HIDE DEF i
<1>2. Completed' = Completed /\ Completed \subseteq DOMAIN actions /\ Completed \subseteq Nat
  BY <1>1, CompletedIsFinite DEF Completed, SyncInv
<1>3. wasm \in [Members -> Modules] /\ runs \in [Members -> Modules] BY DEF SyncInv, SyncOK
<1>4. wasm' \in [Members -> Modules] BY <1>1, <1>2, <1>3, OverRows DEF SyncInv
<1>5. \A q \in Readers : reader'[q] = reader[q] \/ reader'[q] = Gone BY <1>1 DEF SyncInv, SyncOK
<1>6. SyncOK'
  <2>1. reader' \in [Readers -> ReaderRecord] BY <1>1, GoneIsSound DEF SyncInv, SyncOK
  <2> QED BY <1>1, <1>2, <1>4, <2>1 DEF SyncInv, SyncOK
<1>7. RunsSay' BY <1>1, <1>2 DEF SyncInv, RunsSay, Touches
<1>8. ReadersSound' BY <1>1, <1>2, <1>5, GoneIsSound DEF SyncInv, ReadersSound
<1>9. RowsSay'
  <2>1. ASSUME ~outOfTurn', NEW m \in Members, \A j \in Completed : Touches(j, m) => j <= synced
        PROVE  wasm'[m] = runs[m]
    <3>1. ~outOfTurn /\ wasm[m] = runs[m] BY <1>1, <2>1 DEF SyncInv, RowsSay
    <3>2. CASE UNCHANGED wasm BY <3>1, <3>2
    <3>3. CASE i \in Completed /\ wasm' = Over(wasm, actions[i].to)
      <4>1. i \in DOMAIN actions BY <1>2, <3>3
      <4>2. wasm'[m] = IF Touches(i, m) THEN actions[i].to[m] ELSE wasm[m] BY <1>3, <3>3, <4>1, OverRows DEF SyncInv
      <4>a. \A j \in Completed : ~(j > i) BY <1>1, <2>1, Zenon
      <4>3. \A j \in Completed : j <= i BY <1>2, <3>3, <4>a
      <4>4. Touches(i, m) => runs[m] = actions[i].to[m] BY <3>3, <4>3 DEF SyncInv, RunsSay
      <4> QED BY <3>1, <4>2, <4>4
    <3> QED BY <1>1, <3>2, <3>3
  <2> QED BY <1>1, <1>2, <2>1 DEF RowsSay, Touches
<1> QED BY <1>6, <1>7, <1>8, <1>9 DEF SyncInv

\* The least of what a sync is to apply is its first.
LEMMA HeadIsLeast ==
  ASSUME NEW todo \in Seq(Nat), todo # <<>>, Rising(todo)
  PROVE  /\ Head(todo) \in ToSet(todo) /\ \A j \in ToSet(todo) : j = Head(todo) \/ (Head(todo) < j /\ j \in ToSet(Tail(todo)))
         /\ Tail(todo) \in Seq(Nat) /\ Rising(Tail(todo)) /\ ToSet(Tail(todo)) \subseteq ToSet(todo)
         /\ \A j \in ToSet(Tail(todo)) : Head(todo) < j
<1>1. /\ Len(todo) \in Nat \ {0} /\ DOMAIN todo = 1..Len(todo) /\ Head(todo) = todo[1]
      /\ DOMAIN Tail(todo) = 1..(Len(todo) - 1) /\ Len(Tail(todo)) = Len(todo) - 1
      /\ \A a \in 1..(Len(todo) - 1) : Tail(todo)[a] = todo[a + 1]
  OBVIOUS
<1>2. Head(todo) \in ToSet(todo) /\ Tail(todo) \in Seq(Nat) /\ ToSet(todo) = {Head(todo)} \cup ToSet(Tail(todo)) BY HeadAndTail
<1>3. \A j \in ToSet(Tail(todo)) : Head(todo) < j
  <2>1. ASSUME NEW a \in 1..(Len(todo) - 1) PROVE Head(todo) < Tail(todo)[a]
    <3>1. 1 \in 1..Len(todo) /\ a + 1 \in 1..Len(todo) /\ 1 < a + 1 BY <1>1
    <3>2. todo[1] < todo[a + 1] BY <3>1 DEF Rising
    <3> QED BY <1>1, <3>2
  <2> QED BY <1>1, <2>1 DEF ToSet
<1>4. Rising(Tail(todo))
  <2>1. ASSUME NEW a \in 1..(Len(todo) - 1), NEW b \in 1..(Len(todo) - 1), a < b PROVE Tail(todo)[a] < Tail(todo)[b]
    <3>1. a + 1 \in 1..Len(todo) /\ b + 1 \in 1..Len(todo) /\ a + 1 < b + 1 BY <1>1, <2>1
    <3>2. todo[a + 1] < todo[b + 1] BY <3>1 DEF Rising
    <3> QED BY <1>1, <3>2
  <2> QED BY <1>1, <2>1 DEF Rising
<1> QED BY <1>2, <1>3, <1>4

LEMMA ApplyKeeps == ASSUME SyncInv, NEW r \in Readers, ApplyAction(r) PROVE SyncInv'
<1> DEFINE todo == reader[r].todo
           i == Head(todo)
           rest == Tail(todo)
<1>1. /\ reader[r].at = "apply" /\ wasm' = Over(wasm, actions[i].to) /\ synced' = i /\ UNCHANGED <<actions, runs>>
      /\ outOfTurn' = (outOfTurn \/ (reader[r].beside /\ \E j \in Completed : synced < j /\ j < i))
      /\ (rest # <<>> /\ MovesOn(r, [reader[r] EXCEPT !.todo = rest])) \/ (\E next \in Synced(r, wasm') : MovesOn(r, next))
  BY DEF ApplyAction, Reading
<1>2. /\ reader[r] \in ReaderRecord /\ ReaderSound(reader[r], DOMAIN actions, Completed, synced)
      /\ wasm \in [Members -> Modules] /\ runs \in [Members -> Modules] /\ synced \in Nat /\ synced \in {0} \cup Completed
  BY DEF SyncInv, SyncOK, ReadersSound
<1>3. todo \in Seq(Nat) /\ todo # <<>> /\ ToSet(todo) \subseteq Completed /\ Rising(todo) /\ reader[r].beside \in BOOLEAN
  BY <1>1, <1>2 DEF ReaderSound, ReaderRecord
<1>4. /\ i \in ToSet(todo) /\ \A j \in ToSet(todo) : j = i \/ (i < j /\ j \in ToSet(rest))
      /\ rest \in Seq(Nat) /\ Rising(rest) /\ ToSet(rest) \subseteq ToSet(todo) /\ \A j \in ToSet(rest) : i < j
  BY <1>3, HeadIsLeast
<1>5. ~reader[r].beside => HasTheRest(todo, Completed, synced) BY <1>1, <1>2 DEF ReaderSound
<1>6. reader[r].todo = todo OBVIOUS
<1> HIDE DEF todo, i, rest
<1>7. Completed' = Completed /\ Completed \subseteq DOMAIN actions /\ Completed \subseteq Nat
  BY <1>1, CompletedIsFinite DEF Completed, SyncInv
<1>8. i \in Completed /\ i \in Nat /\ i \in DOMAIN actions BY <1>3, <1>4, <1>7
<1>9. wasm' \in [Members -> Modules] /\ \A m \in Members : wasm'[m] = IF Touches(i, m) THEN actions[i].to[m] ELSE wasm[m]
  BY <1>1, <1>2, <1>8, OverRows DEF SyncInv
\* Nothing that completed is passed over, or it is out of turn.
<1>10. ~outOfTurn' => ~outOfTurn /\ \A j \in Completed : synced < j => i <= j
  <2>1. CASE reader[r].beside
    <3> SUFFICES ASSUME ~outOfTurn' PROVE ~outOfTurn /\ \A j \in Completed : synced < j => i <= j OBVIOUS
    <3>1. ~outOfTurn /\ \A j \in Completed : ~(synced < j /\ j < i) BY <1>1, <2>1, Zenon
    <3> QED BY <1>2, <1>7, <1>8, <3>1
  <2>2. CASE ~reader[r].beside
    <3>1. ASSUME NEW j \in Completed, synced < j PROVE i <= j
      <4>1. j > synced BY <1>2, <1>7, <3>1
      <4>2. j \in ToSet(todo) \/ \A h \in ToSet(todo) : h < j BY <1>5, <2>2, <4>1 DEF HasTheRest
      <4> QED BY <1>4, <1>7, <1>8, <4>2
    <3> QED BY <1>1, <3>1
  <2> QED BY <2>1, <2>2
<1>11. RunsSay' BY <1>1, <1>7 DEF SyncInv, RunsSay, Touches
<1>12. RowsSay'
  <2>1. ASSUME ~outOfTurn', NEW m \in Members, \A j \in Completed : Touches(j, m) => j <= i
        PROVE  wasm'[m] = runs[m]
    <3>1. CASE Touches(i, m)
      <4>1. runs[m] = actions[i].to[m] BY <1>8, <2>1, <3>1 DEF SyncInv, RunsSay
      <4> QED BY <1>9, <3>1, <4>1
    <3>2. CASE ~Touches(i, m)
      <4>1. ASSUME NEW j \in Completed, Touches(j, m) PROVE j <= synced
        <5>1. j # i /\ j <= i /\ j \in Nat BY <1>7, <2>1, <3>2, <4>1
        <5>2. ~(synced < j) BY <1>8, <1>10, <2>1, <5>1
        <5> QED BY <1>2, <5>1, <5>2
      <4>2. wasm[m] = runs[m] BY <1>10, <2>1, <4>1 DEF SyncInv, RowsSay
      <4> QED BY <1>9, <3>2, <4>2
    <3> QED BY <3>1, <3>2
  <2> QED BY <1>1, <1>7, <2>1 DEF RowsSay, Touches
<1>13. ASSUME NEW next, next \in ReaderRecord, ReaderSound(next, DOMAIN actions, Completed, i), MovesOn(r, next)
       PROVE  reader' \in [Readers -> ReaderRecord] /\ ReadersSound'
  <2>1. ASSUME NEW q \in Readers PROVE reader'[q] \in ReaderRecord /\ ReaderSound(reader'[q], DOMAIN actions, Completed, i)
    <3>1. reader[q] \in ReaderRecord /\ ReaderSound(reader[q], DOMAIN actions, Completed, synced)
      BY DEF SyncInv, SyncOK, ReadersSound
    <3>2. CASE q = r BY <1>13, <2>1, <3>2 DEF MovesOn
    <3>3. CASE q # r /\ reader[q].at \in {"list", "apply"}
      <4>1. reader'[q] = [reader[q] EXCEPT !.beside = TRUE] BY <1>13, <3>3 DEF MovesOn
      <4>2. /\ reader'[q] \in ReaderRecord /\ reader'[q].at = reader[q].at /\ reader'[q].todo = reader[q].todo
            /\ reader'[q].rows = reader[q].rows /\ reader'[q].beside = TRUE
        BY <3>1, <4>1 DEF ReaderRecord
      <4> QED BY <3>1, <4>2 DEF ReaderSound
    <3>4. CASE q # r /\ reader[q].at \notin {"list", "apply"}
      <4>1. reader'[q] = reader[q] BY <1>13, <3>4 DEF MovesOn
      <4> QED BY <3>1, <3>4, <4>1 DEF ReaderSound
    <3> QED BY <3>2, <3>3, <3>4
  <2>2. reader' = [q \in Readers |-> reader'[q]] BY <1>13 DEF MovesOn
  <2>3. reader' \in [Readers -> ReaderRecord] BY <2>1, <2>2
  <2> QED BY <1>1, <1>7, <2>1, <2>3 DEF ReadersSound
<1>14. reader' \in [Readers -> ReaderRecord] /\ ReadersSound'
  <2>1. ASSUME rest # <<>>, MovesOn(r, [reader[r] EXCEPT !.todo = rest]) PROVE reader' \in [Readers -> ReaderRecord] /\ ReadersSound'
    <3> DEFINE next == [reader[r] EXCEPT !.todo = rest]
    <3>1. next \in ReaderRecord /\ next.at = "apply" /\ next.todo = rest /\ next.beside = reader[r].beside
      BY <1>1, <1>2, <1>4 DEF ReaderRecord
    <3>2. ~next.beside => HasTheRest(rest, Completed, i)
      <4>1. ASSUME ~reader[r].beside, NEW j \in Completed, j > i PROVE j \in ToSet(rest) \/ \A h \in ToSet(rest) : h < j
        <5>1. i > synced BY <1>4, <1>5, <4>1 DEF HasTheRest
        <5>2. j > synced BY <1>2, <1>7, <1>8, <4>1, <5>1
        <5>3. j \in ToSet(todo) \/ \A h \in ToSet(todo) : h < j BY <1>5, <4>1, <5>2 DEF HasTheRest
        <5> QED BY <1>4, <1>7, <1>8, <4>1, <5>3
      <4>2. \A h \in ToSet(rest) : h > i BY <1>3, <1>4, <1>7, <1>8
      <4> QED BY <3>1, <4>1, <4>2 DEF HasTheRest
    <3> HIDE DEF next
    <3>3. ToSet(rest) \subseteq Completed BY <1>3, <1>4
    <3>4. ReaderSound(next, DOMAIN actions, Completed, i) BY <1>4, <2>1, <3>1, <3>2, <3>3 DEF ReaderSound
    <3> QED BY <1>13, <2>1, <3>1, <3>4 DEF next
  <2>2. ASSUME NEW next \in Synced(r, wasm'), MovesOn(r, next) PROVE reader' \in [Readers -> ReaderRecord] /\ ReadersSound'
    <3>1. next \in ReaderRecord /\ ReaderSound(next, DOMAIN actions, Completed, i) BY <1>9, SyncedIsSound
    <3> QED BY <1>13, <2>2, <3>1
  <2> QED BY <1>1, <2>1, <2>2
<1>15. SyncOK' BY <1>1, <1>7, <1>8, <1>9, <1>14 DEF SyncInv, SyncOK
<1> QED BY <1>11, <1>12, <1>14, <1>15 DEF SyncInv

LEMMA SyncKept == ASSUME SyncInv, [SyncNext]_syncVars PROVE SyncInv'
<1>1. CASE UNCHANGED syncVars
  BY <1>1 DEF syncVars, SyncInv, SyncOK, RunsSay, RowsSay, ReadersSound, Touches, Completed
<1>2. CASE SyncNext
  BY <1>2, CompletesKeep, FailsKeep, ProposesKeep, BeginsKeep, ListKeeps, ApplyKeeps, SettleKeeps DEF SyncNext
<1> QED BY <1>1, <1>2

LEMMA SyncBegins == SyncInit => SyncInv
<1> SUFFICES ASSUME SyncInit PROVE SyncInv OBVIOUS
<1>1. Completed = {} /\ actions = <<>> /\ DOMAIN actions = {} BY DEF SyncInit, Completed
<1>2. runs \in [Members -> Modules] /\ wasm = runs BY ModulesAssumption DEF SyncInit
<1>3. SyncOK BY <1>1, <1>2, GoneIsSound DEF SyncInit, SyncOK
<1>4. ReadersSound BY GoneIsSound DEF SyncInit, ReadersSound
<1> QED BY <1>1, <1>2, <1>3, <1>4 DEF SyncInv, RunsSay, RowsSay

\* Whatever syncs and settled releases overlap or break off: when the watermark of a stand
\* is at the last action its baton completed, its rows say what its members run, unless an
\* action was passed over or settled out of turn (baton_sync, _apply and
\* baton_release_settle of src/batons.py).
THEOREM RowsCatchUp == Spec => []RowsFollowBaton
<1>1. Init => SyncInv BY SyncBegins DEF Init
<1>2. SyncInv /\ [Next]_vars => SyncInv' BY SyncKept, PartsMoveApart
<1>3. SyncInv => RowsFollowBaton
  <2> SUFFICES ASSUME SyncInv, synced = LastDone, ~outOfTurn PROVE wasm = runs BY DEF RowsFollowBaton
  <2>1. \A j \in Completed : j <= synced
    <3>1. CASE Completed = {} BY <3>1
    <3>2. CASE Completed # {}
      <4>1. Completed \subseteq 0..Len(actions) /\ Len(actions) \in Nat BY CompletedIsFinite DEF SyncInv
      <4> QED BY <3>2, <4>1, MaxOfBounded DEF LastDone
    <3> QED BY <3>1, <3>2
  <2>2. \A m \in Members : wasm[m] = runs[m] BY <2>1 DEF SyncInv, RowsSay
  <2> QED BY <2>2 DEF SyncInv, SyncOK
<1> QED BY <1>1, <1>2, <1>3, PTL DEF Spec
-----------------------------------------------------------------------------
(* The store *)

OpRecord == [verb : {"upload", "delete"}, file : Files]
JobsLeft == {<<"wasm", "frontend">>, <<"frontend">>}
SendRecord == [at : {"send"}, registry : Registries, left : JobsLeft, alone : BOOLEAN, keys : SUBSET Files, todo : Seq(OpRecord)]
CommitRecord ==
  [at : {"commit"}, registry : Registries, left : JobsLeft, alone : BOOLEAN, keys : SUBSET Files, todo : Seq(OpRecord) \ {<<>>}]
GoneRecord ==
  [at : {"late"}, registry : Registries, left : JobsLeft, alone : {FALSE}, keys : SUBSET Files, todo : Seq(OpRecord) \ {<<>>}]
PublisherRecord ==
  {NoPublisher} \cup [at : {"list"}, registry : Registries, left : JobsLeft, alone : BOOLEAN] \cup SendRecord \cup CommitRecord
  \cup GoneRecord \cup [at : {"done"}, registry : Registries, left : {<<>>}, alone : BOOLEAN]

PublishingOK == shelf \in [Shelves -> Listings] /\ publisher \in [Publishers -> PublisherRecord]

\* What a namespace says of a file is what the registry says: a wasm that it does not
\* name may be there.
FileIsRight(held, registry, n, f) == registry[n][f] = held[n][f] \/ (n = "wasm" /\ registry[n][f] = Absent)

\* An operation makes the file what the registry says.
OpIsRight(registry, n, op) ==
  \/ op.verb = "upload" /\ registry[n][op.file] # Absent
  \/ op.verb = "delete" /\ registry[n][op.file] = Absent /\ n = "frontend"

\* A publisher r that is alone has put right the namespaces behind it; of the one it is at,
\* it knows which files are there, and each is right or still to be sent or deleted.
JobIsRight(held, r) ==
  /\ r.at = "done" \/ Head(r.left) = "frontend" => \A f \in Files : FileIsRight(held, r.registry, "wasm", f)
  /\ r.at = "done" => \A f \in Files : FileIsRight(held, r.registry, "frontend", f)
  /\ r.at \in {"send", "commit"} =>
       /\ r.keys = {f \in Files : held[Head(r.left)][f] # Absent}
       /\ \A op \in ToSet(r.todo) : OpIsRight(r.registry, Head(r.left), op)
       /\ \A f \in Files : FileIsRight(held, r.registry, Head(r.left), f) \/ \E op \in ToSet(r.todo) : op.file = f

\* The inductive invariant: beside a publisher that is alone, nobody publishes.
PublishInv ==
  /\ PublishingOK
  /\ \A p \in Publishers : publisher[p].at # "idle" /\ publisher[p].alone =>
       /\ \A o \in Publishers \ {p} : publisher[o].at \in {"idle", "done"}
       /\ JobIsRight(shelf, publisher[p])

LEMMA PublishersAt ==
  ASSUME NEW r \in PublisherRecord
  PROVE  /\ r.at \in {"idle", "list", "send", "commit", "late", "done"}
         /\ r.at = "list" => r \in [at : {"list"}, registry : Registries, left : JobsLeft, alone : BOOLEAN]
         /\ (r.at = "send" => r \in SendRecord) /\ (r.at = "commit" => r \in CommitRecord) /\ (r.at = "late" => r \in GoneRecord)
         /\ r.at = "done" => r \in [at : {"done"}, registry : Registries, left : {<<>>}, alone : BOOLEAN]
<1>1. CASE r \in SendRecord BY <1>1 DEF SendRecord
<1>2. CASE r \in CommitRecord BY <1>2 DEF CommitRecord
<1>3. CASE r \in GoneRecord BY <1>3 DEF GoneRecord
<1>4. CASE r = NoPublisher BY <1>4 DEF NoPublisher
<1>5. CASE r \in [at : {"list"}, registry : Registries, left : JobsLeft, alone : BOOLEAN]
  <2>1. r.at = "list" BY <1>5
  <2> QED BY <1>5, <2>1
<1>6. CASE r \in [at : {"done"}, registry : Registries, left : {<<>>}, alone : BOOLEAN]
  <2>1. r.at = "done" BY <1>6
  <2> QED BY <1>6, <2>1
<1> QED BY <1>1, <1>2, <1>3, <1>4, <1>5, <1>6 DEF PublisherRecord

LEMMA AloneNoLonger ==
  ASSUME NEW r \in PublisherRecord, r.at # "idle"
  PROVE  r.alone \in BOOLEAN /\ LET q == [r EXCEPT !.alone = FALSE] IN q \in PublisherRecord /\ q.at = r.at /\ ~q.alone
<1>1. CASE r.at = "list"
  <2>1. r \in [at : {"list"}, registry : Registries, left : JobsLeft, alone : BOOLEAN] BY <1>1, PublishersAt
  <2> QED BY <2>1 DEF PublisherRecord
<1>2. CASE r.at = "send"
  <2>1. r \in SendRecord BY <1>2, PublishersAt
  <2> QED BY <2>1 DEF PublisherRecord, SendRecord
<1>4. CASE r.at = "commit"
  <2>1. r \in CommitRecord BY <1>4, PublishersAt
  <2> QED BY <2>1 DEF PublisherRecord, CommitRecord
<1>3. CASE r.at = "done"
  <2>1. r \in [at : {"done"}, registry : Registries, left : {<<>>}, alone : BOOLEAN] BY <1>3, PublishersAt
  <2> QED BY <2>1 DEF PublisherRecord
<1>5. CASE r.at = "late"
  <2>1. r \in GoneRecord BY <1>5, PublishersAt
  <2> QED BY <2>1 DEF PublisherRecord, GoneRecord
<1> QED BY <1>1, <1>2, <1>3, <1>4, <1>5, PublishersAt

LEMMA NamespacesInTurn ==
  ASSUME NEW left \in JobsLeft
  PROVE  /\ Head(left) \in Shelves
         /\ left = <<"wasm", "frontend">> => Head(left) = "wasm" /\ Tail(left) = <<"frontend">> /\ Tail(left) # <<>>
         /\ left = <<"frontend">> => Head(left) = "frontend" /\ Tail(left) = <<>>
<1>1. Tail(<<"wasm", "frontend">>) = <<"frontend">> /\ <<"frontend">> # <<>> /\ Tail(<<"frontend">>) = <<>> OBVIOUS
<1>2. Head(<<"wasm", "frontend">>) = "wasm" /\ Head(<<"frontend">>) = "frontend" OBVIOUS
<1> QED BY <1>1, <1>2 DEF JobsLeft, Shelves

\* A step that changes only the records, of p by its own choice and of the others at most
\* by their being alone no longer, keeps the invariant when p's new record is right.
LEMMA PublisherGoesOn ==
  ASSUME PublishInv, NEW p \in Publishers, NEW r \in PublisherRecord, NEW held \in [Shelves -> Listings],
         PublisherGoes(p, r), shelf' = held,
         publisher[p].at \notin {"idle", "done"},
         r.at # "idle" /\ r.alone => publisher[p].alone /\ JobIsRight(held, r)
  PROVE  PublishInv'
<1>1. publisher \in [Publishers -> PublisherRecord] /\ publisher' = [publisher EXCEPT ![p] = r] BY DEF PublishInv, PublishingOK, PublisherGoes
<1>2. publisher' \in [Publishers -> PublisherRecord] /\ publisher'[p] = r /\ \A o \in Publishers \ {p} : publisher'[o] = publisher[o] BY <1>1
<1>3. PublishingOK' BY <1>2 DEF PublishingOK
<1>4. ASSUME NEW q \in Publishers, publisher'[q].at # "idle" /\ publisher'[q].alone
      PROVE  /\ \A o \in Publishers \ {q} : publisher'[o].at \in {"idle", "done"}
             /\ JobIsRight(held, publisher'[q])
  <2>1. CASE q = p
    <3>1. publisher[p].alone /\ JobIsRight(held, r) BY <1>2, <1>4, <2>1
    <3>2. \A o \in Publishers \ {p} : publisher[o].at \in {"idle", "done"} BY <3>1 DEF PublishInv
    <3> QED BY <1>2, <2>1, <3>1, <3>2
  <2>2. CASE q # p
    <3>1. publisher'[q] = publisher[q] BY <1>2, <2>2
    <3>2. publisher[p].at \in {"idle", "done"} BY <1>4, <2>2, <3>1 DEF PublishInv
    <3> QED BY <3>2
  <2> QED BY <2>1, <2>2
<1> QED BY <1>3, <1>4 DEF PublishInv

LEMMA BeginPublishKeeps == ASSUME PublishInv, NEW p \in Publishers, BeginPublish(p) PROVE PublishInv'
<1>0. shelf' = shelf /\ publisher \in [Publishers -> PublisherRecord] BY DEF BeginPublish, PublishInv, PublishingOK
<1>1. PICK registry \in Registries :
        publisher' = [o \in Publishers |->
          IF o = p THEN [at |-> "list", registry |-> registry, left |-> <<"wasm", "frontend">>,
                         alone |-> \A other \in Publishers \ {p} : publisher[other].at \in {"idle", "done"}]
          ELSE IF publisher[o].at = "idle" THEN publisher[o] ELSE [publisher[o] EXCEPT !.alone = FALSE]]
  BY DEF BeginPublish
<1> DEFINE alone == \A other \in Publishers \ {p} : publisher[other].at \in {"idle", "done"}
<1>2. publisher'[p] = [at |-> "list", registry |-> registry, left |-> <<"wasm", "frontend">>, alone |-> alone] BY <1>1
<1>3. \A o \in Publishers \ {p} : publisher'[o] = IF publisher[o].at = "idle" THEN publisher[o] ELSE [publisher[o] EXCEPT !.alone = FALSE]
  BY <1>1
<1>4. ASSUME NEW o \in Publishers \ {p}
      PROVE  publisher'[o] \in PublisherRecord /\ publisher'[o].at = publisher[o].at /\ (publisher'[o].at # "idle" => ~publisher'[o].alone)
  <2>1. CASE publisher[o].at = "idle" BY <1>0, <1>3, <2>1
  <2>2. CASE publisher[o].at # "idle"
    <3>1. publisher[o] \in PublisherRecord /\ publisher'[o] = [publisher[o] EXCEPT !.alone = FALSE] BY <1>0, <1>3, <2>2
    <3>2. LET q == [publisher[o] EXCEPT !.alone = FALSE] IN q \in PublisherRecord /\ q.at = publisher[o].at /\ ~q.alone
      BY <2>2, <3>1, AloneNoLonger
    <3> QED BY <3>1, <3>2
  <2> QED BY <2>1, <2>2
<1>5. publisher'[p] \in PublisherRecord /\ publisher'[p].at = "list" /\ publisher'[p].alone = alone /\ Head(publisher'[p].left) = "wasm"
  <2>1. alone \in BOOLEAN OBVIOUS
  <2>2. <<"wasm", "frontend">> \in JobsLeft /\ Head(<<"wasm", "frontend">>) = "wasm" BY DEF JobsLeft
  <2> HIDE DEF alone
  <2> QED BY <1>2, <2>1, <2>2 DEF PublisherRecord
<1>6. publisher' \in [Publishers -> PublisherRecord]
  <2>1. DOMAIN publisher' = Publishers /\ publisher' = [o \in Publishers |-> publisher'[o]] BY <1>1
  <2> QED BY <1>4, <1>5, <2>1
<1>7. ASSUME NEW q \in Publishers, publisher'[q].at # "idle" /\ publisher'[q].alone
      PROVE  /\ \A o \in Publishers \ {q} : publisher'[o].at \in {"idle", "done"}
             /\ JobIsRight(shelf, publisher'[q])
  <2>1. q = p BY <1>4, <1>7
  <2>2. \A o \in Publishers \ {p} : publisher'[o].at \in {"idle", "done"}
    <3>1. alone BY <1>5, <1>7, <2>1
    <3> QED BY <1>4, <3>1
  <2>3. JobIsRight(shelf, publisher'[p]) BY <1>5 DEF JobIsRight
  <2> QED BY <2>1, <2>2, <2>3
<1> QED BY <1>0, <1>6, <1>7 DEF PublishInv, PublishingOK

LEMMA OpsListed ==
  ASSUME NEW S \in SUBSET Files, NEW verb \in {"upload", "delete"}
  PROVE  LET ops == SetToSeq({[verb |-> verb, file |-> f] : f \in S})
         IN ops \in Seq(OpRecord) /\ ToSet(ops) = {[verb |-> verb, file |-> f] : f \in S}
<1> DEFINE T == {[verb |-> verb, file |-> f] : f \in S}
<1>1. IsFiniteSet(S) BY FilesAssumption, FS_Subset
<1>2. IsFiniteSet(T)
  <2> DEFINE op == [f \in S |-> [verb |-> verb, file |-> f]]
  <2>1. op \in Surjection(S, T) BY DEF Surjection
  <2> HIDE DEF op, T
  <2> QED BY <1>1, <2>1, FS_Surjection
<1>3. T \subseteq OpRecord BY DEF OpRecord
<1> HIDE DEF T
<1>4. SetToSeq(T) \in Seq(T) /\ \A x \in T : \E i \in DOMAIN SetToSeq(T) : SetToSeq(T)[i] = x BY <1>2, SetToSeqLists
<1> DEFINE ops == SetToSeq(T)
<1> HIDE DEF ops
<1>5. ops \in Seq(T) /\ \A x \in T : \E i \in DOMAIN ops : ops[i] = x BY <1>4 DEF ops
<1>6. ops \in Seq(OpRecord) BY <1>3, <1>5, SeqOfSubset
<1>7. ToSet(ops) = T BY <1>5 DEF ToSet
<1> QED BY <1>6, <1>7 DEF ops, T

LEMMA ListStoreKeeps == ASSUME PublishInv, NEW p \in Publishers, ListStore(p) PROVE PublishInv'
<1> DEFINE n == Ns(p)
           listed == shelf[n]
           registry == publisher[p].registry
           wanted == registry[n]
           keys == {f \in Files : listed[f] # Absent}
           ups == {[verb |-> "upload", file |-> f] : f \in Uploads(listed, wanted)}
           downs == {[verb |-> "delete", file |-> f] : f \in Deletes(n, listed, wanted)}
           todo == SetToSeq(ups) \o SetToSeq(downs)
           r == [at |-> "send", registry |-> registry, left |-> publisher[p].left, alone |-> publisher[p].alone, keys |-> keys, todo |-> todo]
<1>1. publisher[p].at = "list" /\ PublisherGoes(p, r) /\ shelf' = shelf BY DEF ListStore, PublisherAt, Wanted
<1>2. /\ publisher[p] \in [at : {"list"}, registry : Registries, left : JobsLeft, alone : BOOLEAN]
      /\ shelf \in [Shelves -> Listings]
  BY <1>1, PublishersAt DEF PublishInv, PublishingOK
<1>3. n \in Shelves /\ registry \in [Shelves -> Listings]
  BY <1>2, NamespacesInTurn, RegistriesAssumption DEF Ns
<1>4. listed \in Listings /\ wanted \in Listings BY <1>2, <1>3
<1>5. Uploads(listed, wanted) \in SUBSET Files /\ Deletes(n, listed, wanted) \in SUBSET Files BY DEF Uploads, Deletes
<1>6. todo \in Seq(OpRecord) /\ ToSet(todo) = ups \cup downs
  <2>1. SetToSeq(ups) \in Seq(OpRecord) /\ ToSet(SetToSeq(ups)) = ups BY <1>5, OpsListed
  <2>2. SetToSeq(downs) \in Seq(OpRecord) /\ ToSet(SetToSeq(downs)) = downs BY <1>5, OpsListed
  <2> HIDE DEF ups, downs
  <2> QED BY <2>1, <2>2, ToSetConcat
<1> HIDE DEF n, listed, registry, wanted, keys, todo
<1>7. r \in PublisherRecord /\ r.at = "send"
  <2>1. keys \in SUBSET Files BY DEF keys
  <2> QED BY <1>2, <1>6, <2>1 DEF PublisherRecord, SendRecord, registry
<1>8. \A op \in ToSet(todo) : OpIsRight(registry, n, op)
  <2>1. \A op \in ups : OpIsRight(registry, n, op) BY DEF OpIsRight, Uploads, wanted
  <2>2. \A op \in downs : OpIsRight(registry, n, op) BY <1>3 DEF OpIsRight, Deletes, wanted, Shelves
  <2> QED BY <1>6, <2>1, <2>2
<1>9. ASSUME NEW f \in Files PROVE FileIsRight(shelf, registry, n, f) \/ \E op \in ToSet(todo) : op.file = f
  <2>1. CASE wanted[f] # Absent /\ wanted[f] # listed[f]
    <3> DEFINE op == [verb |-> "upload", file |-> f]
    <3>1. op \in ups /\ op.file = f BY <2>1 DEF Uploads
    <3> HIDE DEF op, ups, downs
    <3>2. op \in ToSet(todo) BY <1>6, <3>1
    <3> QED BY <3>1, <3>2
  <2>2. CASE wanted[f] = Absent /\ wanted[f] # listed[f] /\ n # "wasm"
    <3> DEFINE op == [verb |-> "delete", file |-> f]
    <3>1. op \in downs /\ op.file = f BY <2>2 DEF Deletes
    <3> HIDE DEF op, ups, downs
    <3>2. op \in ToSet(todo) BY <1>6, <3>1
    <3> QED BY <3>1, <3>2
  <2> QED BY <2>1, <2>2 DEF FileIsRight, wanted, listed
<1>10. publisher[p].alone => JobIsRight(shelf, r)
  <2>1. publisher[p].alone => JobIsRight(shelf, publisher[p]) BY <1>1 DEF PublishInv
  <2>2. publisher[p].alone /\ Head(publisher[p].left) = "frontend" => \A f \in Files : FileIsRight(shelf, registry, "wasm", f)
    BY <2>1 DEF JobIsRight, registry
  <2>3. r.keys = {f \in Files : shelf[Head(r.left)][f] # Absent} /\ Head(r.left) = n BY DEF keys, listed, n, Ns
  <2> QED BY <1>8, <1>9, <2>2, <2>3 DEF JobIsRight
<1> HIDE DEF r
<1> QED BY <1>1, <1>2, <1>7, <1>10, PublisherGoesOn DEF r

LEMMA SendChunksKeeps == ASSUME PublishInv, NEW p \in Publishers, SendChunks(p) PROVE PublishInv'
<1> DEFINE r == [publisher[p] EXCEPT !.at = "commit"]
<1>1. publisher[p].at = "send" /\ publisher[p].todo # <<>> /\ PublisherGoes(p, r) /\ shelf' = shelf BY DEF SendChunks, PublisherAt
<1>2. publisher[p] \in SendRecord /\ shelf \in [Shelves -> Listings] BY <1>1, PublishersAt DEF PublishInv, PublishingOK
<1>3. r \in CommitRecord /\ r.registry = publisher[p].registry /\ r.left = publisher[p].left /\ r.alone = publisher[p].alone
      /\ r.keys = publisher[p].keys /\ r.todo = publisher[p].todo /\ r.at = "commit"
  BY <1>1, <1>2 DEF SendRecord, CommitRecord
<1> HIDE DEF r
<1>4. r \in PublisherRecord BY <1>3 DEF PublisherRecord
<1>5. publisher[p].alone => JobIsRight(shelf, publisher[p]) BY <1>1 DEF PublishInv
<1>6. publisher[p].alone => JobIsRight(shelf, r) BY <1>1, <1>3, <1>5 DEF JobIsRight
<1> QED BY <1>1, <1>2, <1>3, <1>4, <1>6, PublisherGoesOn

LEMMA CommitKeeps == ASSUME PublishInv, NEW p \in Publishers, CommitBatch(p) PROVE PublishInv'
<1> DEFINE n == Ns(p)
           op == Head(publisher[p].todo)
           keys == publisher[p].keys
           registry == publisher[p].registry
           CommitsIt(bytes, known) == /\ shelf' = [shelf EXCEPT ![n][op.file] = bytes]
                                    /\ PublisherGoes(p, [publisher[p] EXCEPT !.at = "send", !.todo = Tail(@), !.keys = known])
<1>1. publisher[p].at = "commit" BY DEF CommitBatch, PublisherAt
<1>2. /\ publisher[p] \in CommitRecord /\ shelf \in [Shelves -> Listings] /\ registry \in [Shelves -> Listings]
  <2>1. publisher[p] \in CommitRecord /\ shelf \in [Shelves -> Listings] BY <1>1, PublishersAt DEF PublishInv, PublishingOK
  <2> QED BY <2>1, RegistriesAssumption DEF CommitRecord
<1>3. n \in Shelves /\ keys \in SUBSET Files /\ publisher[p].todo \in Seq(OpRecord) \ {<<>>}
  <2>1. publisher[p].left \in JobsLeft /\ keys \in SUBSET Files /\ publisher[p].todo \in Seq(OpRecord) \ {<<>>} BY <1>2 DEF CommitRecord
  <2> QED BY <2>1, NamespacesInTurn DEF Ns
<1>4. op \in OpRecord /\ Tail(publisher[p].todo) \in Seq(OpRecord) /\ ToSet(publisher[p].todo) = {op} \cup ToSet(Tail(publisher[p].todo))
  BY <1>3, HeadAndTail
<1>5. op.file \in Files BY <1>4 DEF OpRecord
<1>6. ASSUME NEW bytes \in Contents \cup {Absent}, NEW known \in SUBSET Files, CommitsIt(bytes, known),
             \/ op.verb = "upload" /\ bytes = registry[n][op.file] /\ known = keys \cup {op.file}
             \/ op.verb = "delete" /\ bytes = Absent /\ known = keys \ {op.file}
      PROVE  PublishInv'
  <2> DEFINE r == [publisher[p] EXCEPT !.at = "send", !.todo = Tail(@), !.keys = known]
             held == [shelf EXCEPT ![n][op.file] = bytes]
  <2>1. r \in SendRecord /\ r.registry = registry /\ r.left = publisher[p].left /\ r.alone = publisher[p].alone
        /\ r.keys = known /\ r.todo = Tail(publisher[p].todo) /\ r.at = "send"
    BY <1>2, <1>4 DEF SendRecord, CommitRecord
  <2>2. /\ held \in [Shelves -> Listings] /\ held[n][op.file] = bytes
        /\ \A f \in Files \ {op.file} : held[n][f] = shelf[n][f]
        /\ \A m \in Shelves \ {n} : held[m] = shelf[m]
    BY <1>2, <1>3, <1>5 DEF Listings
  <2>3. PublisherGoes(p, r) /\ shelf' = held BY <1>6
  <2> HIDE DEF r, held
  <2>4. ASSUME publisher[p].alone PROVE JobIsRight(held, r)
    <3>1. JobIsRight(shelf, publisher[p]) BY <1>1, <2>4 DEF PublishInv
    <3>2. /\ keys = {f \in Files : shelf[n][f] # Absent}
          /\ \A o \in ToSet(publisher[p].todo) : OpIsRight(registry, n, o)
          /\ \A f \in Files : FileIsRight(shelf, registry, n, f) \/ \E o \in ToSet(publisher[p].todo) : o.file = f
          /\ n = "frontend" => \A f \in Files : FileIsRight(shelf, registry, "wasm", f)
      BY <1>1, <3>1 DEF JobIsRight, Ns
    <3>3. OpIsRight(registry, n, op) BY <1>4, <3>2
    <3>4. bytes = registry[n][op.file] /\ (bytes # Absent <=> op.verb = "upload") BY <1>6, <3>3 DEF OpIsRight
    <3>5. known = {f \in Files : held[n][f] # Absent}
      <4>1. \A f \in Files : f \in keys <=> shelf[n][f] # Absent BY <3>2
      <4>2. op.file \in known <=> bytes # Absent BY <1>6, <3>4
      <4>3. \A f \in Files \ {op.file} : f \in known <=> f \in keys BY <1>6
      <4>4. \A f \in Files : f \in known <=> held[n][f] # Absent BY <2>2, <4>1, <4>2, <4>3
      <4> QED BY <4>4
    <3>6. \A o \in ToSet(r.todo) : OpIsRight(registry, n, o) BY <1>4, <2>1, <3>2
    <3>7. ASSUME NEW f \in Files PROVE FileIsRight(held, registry, n, f) \/ \E o \in ToSet(r.todo) : o.file = f
      <4>1. CASE f = op.file BY <2>2, <3>4, <4>1 DEF FileIsRight
      <4>2. CASE f # op.file
        <5>1. held[n][f] = shelf[n][f] BY <2>2, <4>2
        <5>2. (\E o \in ToSet(publisher[p].todo) : o.file = f) => \E o \in ToSet(r.todo) : o.file = f BY <1>4, <2>1, <4>2
        <5>3. FileIsRight(shelf, registry, n, f) => FileIsRight(held, registry, n, f) BY <5>1 DEF FileIsRight
        <5> QED BY <3>2, <5>2, <5>3
      <4> QED BY <4>1, <4>2
    <3>8. n = "frontend" => \A f \in Files : FileIsRight(held, registry, "wasm", f)
      <4>1. n = "frontend" => held["wasm"] = shelf["wasm"] BY <2>2 DEF Shelves
      <4> QED BY <3>2, <4>1 DEF FileIsRight
    <3>9. Head(r.left) = n /\ r.at = "send" BY <2>1 DEF Ns
    <3> QED BY <2>1, <3>5, <3>6, <3>7, <3>8, <3>9 DEF JobIsRight
  <2>5. r \in PublisherRecord BY <2>1 DEF PublisherRecord
  <2> QED BY <1>1, <2>1, <2>2, <2>3, <2>4, <2>5, PublisherGoesOn
<1>7. CASE PublisherGoes(p, NoPublisher) /\ UNCHANGED shelf
  <2>1. NoPublisher \in PublisherRecord /\ NoPublisher.at = "idle" BY DEF PublisherRecord, NoPublisher
  <2> QED BY <1>1, <1>2, <1>7, <2>1, PublisherGoesOn
<1>8. \/ op.verb = "upload" /\ CommitsIt(Wanted(p)[op.file], keys \cup {op.file})
      \/ PublisherGoes(p, NoPublisher) /\ UNCHANGED shelf
      \/ op.verb = "delete" /\ CommitsIt(Absent, keys \ {op.file})
  BY DEF CommitBatch, Commits
<1>9. Wanted(p)[op.file] = registry[n][op.file] /\ registry[n][op.file] \in Contents \cup {Absent} BY <1>2, <1>3, <1>5 DEF Wanted, Listings
<1>10. keys \cup {op.file} \in SUBSET Files /\ keys \ {op.file} \in SUBSET Files BY <1>3, <1>5
<1> HIDE DEF CommitsIt, n, op, keys, registry
<1>11. CASE op.verb = "upload" /\ CommitsIt(Wanted(p)[op.file], keys \cup {op.file}) BY <1>6, <1>9, <1>10, <1>11
<1>12. CASE op.verb = "delete" /\ CommitsIt(Absent, keys \ {op.file}) BY <1>6, <1>10, <1>12
<1> QED BY <1>7, <1>8, <1>11, <1>12

LEMMA PublishedKeeps == ASSUME PublishInv, NEW p \in Publishers, Published(p) PROVE PublishInv'
<1> DEFINE rest == Tail(publisher[p].left)
           registry == publisher[p].registry
           r == [at |-> IF rest = <<>> THEN "done" ELSE "list", registry |-> registry, left |-> rest, alone |-> publisher[p].alone]
<1>1. publisher[p].at = "send" /\ publisher[p].todo = <<>> /\ PublisherGoes(p, r) /\ shelf' = shelf BY DEF Published, PublisherAt
<1>2. publisher[p] \in SendRecord /\ shelf \in [Shelves -> Listings] BY <1>1, PublishersAt DEF PublishInv, PublishingOK
<1>3. publisher[p].left \in JobsLeft /\ registry \in Registries /\ publisher[p].alone \in BOOLEAN BY <1>2 DEF SendRecord
<1>4. ToSet(publisher[p].todo) = {} BY <1>1 DEF ToSet
<1>5. publisher[p].alone => JobIsRight(shelf, publisher[p]) BY <1>1 DEF PublishInv
<1>6. publisher[p].alone => \A f \in Files : FileIsRight(shelf, registry, Ns(p), f)
  BY <1>1, <1>4, <1>5 DEF JobIsRight, Ns
<1>7. CASE publisher[p].left = <<"wasm", "frontend">>
  <2>1. rest = <<"frontend">> /\ rest # <<>> /\ Ns(p) = "wasm" BY <1>3, <1>7, NamespacesInTurn DEF Ns
  <2>2. r.at = "list" /\ r.left = <<"frontend">> /\ r.registry = registry /\ r.alone = publisher[p].alone BY <2>1
  <2>3. r \in PublisherRecord
    <3>1. rest \in JobsLeft BY <2>1 DEF JobsLeft
    <3> QED BY <1>3, <2>1, <3>1 DEF PublisherRecord
  <2> HIDE DEF r
  <2>4. publisher[p].alone => JobIsRight(shelf, r) BY <1>6, <2>1, <2>2 DEF JobIsRight
  <2> QED BY <1>1, <1>2, <2>2, <2>3, <2>4, PublisherGoesOn
<1>8. CASE publisher[p].left = <<"frontend">>
  <2>1. rest = <<>> /\ Ns(p) = "frontend" /\ Head(publisher[p].left) = "frontend" BY <1>3, <1>8, NamespacesInTurn DEF Ns
  <2>2. r.at = "done" /\ r.registry = registry /\ r.alone = publisher[p].alone BY <2>1
  <2>3. r \in PublisherRecord BY <1>3, <2>1 DEF PublisherRecord
  <2> HIDE DEF r
  <2>4. publisher[p].alone => \A f \in Files : FileIsRight(shelf, registry, "wasm", f) BY <1>5, <2>1 DEF JobIsRight
  <2>5. publisher[p].alone => JobIsRight(shelf, r) BY <1>6, <2>1, <2>2, <2>4 DEF JobIsRight
  <2> QED BY <1>1, <1>2, <2>2, <2>3, <2>5, PublisherGoesOn
<1> QED BY <1>3, <1>7, <1>8 DEF JobsLeft

LEMMA KillKeeps == ASSUME PublishInv, NEW p \in Publishers, Kill(p) PROVE PublishInv'
<1>1. publisher[p].at \notin {"idle", "done"} /\ shelf' = shelf BY DEF Kill
<1>2. shelf \in [Shelves -> Listings] BY DEF PublishInv, PublishingOK
<1>3. NoPublisher \in PublisherRecord /\ NoPublisher.at = "idle" BY DEF PublisherRecord, NoPublisher
<1>4. CASE PublisherGoes(p, NoPublisher) BY <1>1, <1>2, <1>3, <1>4, PublisherGoesOn
<1> DEFINE r == [publisher[p] EXCEPT !.at = "late", !.alone = FALSE]
<1>5. CASE publisher[p].at = "commit" /\ PublisherGoes(p, r)
  <2>1. publisher[p] \in CommitRecord BY <1>5, PublishersAt DEF PublishInv, PublishingOK
  <2>2. r \in GoneRecord /\ ~r.alone BY <2>1 DEF CommitRecord, GoneRecord
  <2>3. r \in PublisherRecord BY <2>2 DEF PublisherRecord
  <2> QED BY <1>1, <1>2, <1>5, <2>2, <2>3, PublisherGoesOn
<1> QED BY <1>4, <1>5 DEF Kill, PublisherAt

\* While a commit is under way nobody publishes alone.
LEMMA LateCommitKeeps == ASSUME PublishInv, NEW p \in Publishers, LateCommit(p) PROVE PublishInv'
<1> DEFINE n == Ns(p)
           op == Head(publisher[p].todo)
<1>1. publisher[p].at = "late" /\ PublisherGoes(p, NoPublisher) BY DEF LateCommit, PublisherAt
<1>2. /\ publisher[p] \in GoneRecord /\ shelf \in [Shelves -> Listings] /\ publisher[p].registry \in [Shelves -> Listings]
  <2>1. publisher[p] \in GoneRecord /\ shelf \in [Shelves -> Listings] BY <1>1, PublishersAt DEF PublishInv, PublishingOK
  <2> QED BY <2>1, RegistriesAssumption DEF GoneRecord
<1>3. n \in Shelves /\ publisher[p].todo \in Seq(OpRecord) \ {<<>>} BY <1>2, NamespacesInTurn DEF GoneRecord, Ns
<1>4. op.file \in Files
  <2>1. op \in OpRecord BY <1>3, HeadAndTail
  <2> QED BY <2>1 DEF OpRecord
<1>5. Wanted(p)[op.file] \in Contents \cup {Absent} BY <1>2, <1>3, <1>4 DEF Wanted, Listings
<1>6. shelf' = shelf \/ \E bytes \in Contents \cup {Absent} : shelf' = [shelf EXCEPT ![n][op.file] = bytes]
  BY <1>5 DEF LateCommit, Commits
<1>7. shelf' \in [Shelves -> Listings] BY <1>2, <1>3, <1>4, <1>6 DEF Listings
<1>8. NoPublisher \in PublisherRecord /\ NoPublisher.at = "idle" BY DEF PublisherRecord, NoPublisher
<1> QED BY <1>1, <1>7, <1>8, PublisherGoesOn

LEMMA PublishKept == ASSUME PublishInv, [PublishNext]_publishVars PROVE PublishInv'
<1>1. CASE UNCHANGED publishVars
  BY <1>1 DEF publishVars, PublishInv, PublishingOK, JobIsRight, FileIsRight
<1>2. ASSUME NEW p \in Publishers, BeginPublish(p) \/ ListStore(p) \/ SendChunks(p) \/ CommitBatch(p) \/ Published(p) \/ Kill(p)
                               \/ LateCommit(p)
      PROVE  PublishInv'
  BY <1>2, BeginPublishKeeps, ListStoreKeeps, SendChunksKeeps, CommitKeeps, PublishedKeeps, KillKeeps, LateCommitKeeps
<1> QED BY <1>1, <1>2 DEF PublishNext

\* However many publishers were killed half way, or mixed what they sent, one that
\* publishes alone ends with the bundle's namespace holding exactly its files and every
\* wasm of its registry being the registry's (publish of casals_cli/registry.py and
\* wasm_store.py, bundle.diff).
THEOREM PublisherPutsRight == Spec => []PublishedExactly
<1>1. Init => PublishInv
  <2>1. PublishInit => PublishingOK
    <3>1. [n \in Shelves |-> [f \in Files |-> Absent]] \in [Shelves -> Listings] BY DEF Listings
    <3>2. [p \in Publishers |-> NoPublisher] \in [Publishers -> PublisherRecord] BY DEF PublisherRecord
    <3> QED BY <3>1, <3>2 DEF PublishInit, PublishingOK
  <2>2. PublishInit => \A p \in Publishers : publisher[p].at = "idle" BY DEF PublishInit, NoPublisher
  <2> QED BY <2>1, <2>2 DEF Init, PublishInv
<1>2. PublishInv /\ [Next]_vars => PublishInv' BY PublishKept, PartsMoveApart
<1>3. PublishInv => PublishedExactly
  <2> SUFFICES ASSUME PublishInv, NEW p \in Publishers, publisher[p].at = "done", publisher[p].alone
               PROVE  /\ shelf["frontend"] = publisher[p].registry["frontend"]
                      /\ \A f \in Files : publisher[p].registry["wasm"][f] \in {Absent, shelf["wasm"][f]}
    BY DEF PublishedExactly, PublisherAt
  <2>1. publisher[p] \in PublisherRecord /\ shelf \in [Shelves -> Listings] BY DEF PublishInv, PublishingOK
  <2>2. publisher[p].registry \in [Shelves -> Listings] BY <2>1, PublishersAt, RegistriesAssumption
  <2>3. shelf["frontend"] \in Listings /\ publisher[p].registry["frontend"] \in Listings BY <2>1, <2>2 DEF Shelves
  <2>4. JobIsRight(shelf, publisher[p]) BY DEF PublishInv
  <2>5. \A f \in Files : shelf["frontend"][f] = publisher[p].registry["frontend"][f] BY <2>4 DEF JobIsRight, FileIsRight
  <2>6. \A f \in Files : publisher[p].registry["wasm"][f] \in {Absent, shelf["wasm"][f]} BY <2>4 DEF JobIsRight, FileIsRight
  <2> QED BY <2>3, <2>5, <2>6 DEF Listings
<1> QED BY <1>1, <1>2, <1>3, PTL DEF Spec
-----------------------------------------------------------------------------
(* Rows, pages and the index *)

ListingRecord ==
  [at : {"reading", "read"}, from : Nat, count : Nat \ {0}, out : Seq(Nat), readable : SUBSET Values,
   throughout : SUBSET Id, ever : SUBSET Id]

RowsOK ==
  /\ field \in [Id -> Values \cup {Blank}] /\ stored \in [Id -> Values \cup {Blank}] /\ last \in Nat
  /\ index \in [complete : BOOLEAN, from : Nat] /\ listing \in {NoListing} \cup ListingRecord

\* The index has what is stored, which is what the rows hold or nothing; and something is
\* stored for each row that the backfill is past.
Indexed ==
  /\ \A i \in Id : stored[i] \in {Blank, field[i]}
  /\ entries = {<<stored[i], i>> : i \in {j \in Id : stored[j] # Blank}}
  /\ \A i \in There : index.complete \/ i < index.from => stored[i] = field[i]

\* A list has, in the order of the ids and up to where it goes on, the rows that could be
\* read all along, and none that never could.
ListedSoFar ==
  /\ listing # NoListing => Rising(listing.out) /\ ToSet(listing.out) \subseteq listing.ever
  /\ listing.at = "read" => listing.throughout \subseteq ToSet(listing.out)
  /\ listing.at = "reading" =>
       /\ \A i \in ToSet(listing.out) : i < listing.from
       /\ \A i \in listing.throughout : i \in There /\ field[i] \in listing.readable /\ (i < listing.from => i \in ToSet(listing.out))
       /\ \A i \in There : field[i] \in listing.readable => i \in listing.ever

RowsInv == RowsOK /\ Indexed /\ ListedSoFar

LEMMA RowsAreFinite == IsFiniteSet(Id) /\ Id \subseteq Nat /\ There \subseteq Id /\ \A S \in SUBSET Id : IsFiniteSet(S) /\ S \subseteq Nat
<1>1. IsFiniteSet(Id) /\ Id \subseteq Nat BY PagesAssumption, FS_Interval DEF Id
<1> QED BY <1>1, FS_Subset DEF There

LEMMA FirstOfMany ==
  \A s \in Seq(Nat), n \in Nat :
     n <= Len(s) => /\ SubSeq(s, 1, n) \in Seq(Nat) /\ Len(SubSeq(s, 1, n)) = n /\ DOMAIN SubSeq(s, 1, n) = 1..n
                    /\ \A i \in 1..n : SubSeq(s, 1, n)[i] = s[i]
<1> SUFFICES ASSUME NEW s \in Seq(Nat), NEW n \in Nat, n <= Len(s)
             PROVE  /\ SubSeq(s, 1, n) \in Seq(Nat) /\ Len(SubSeq(s, 1, n)) = n /\ DOMAIN SubSeq(s, 1, n) = 1..n
                    /\ \A i \in 1..n : SubSeq(s, 1, n)[i] = s[i]
  OBVIOUS
<1>1. Len(s) \in Nat /\ \A i \in 1..Len(s) : s[i] \in Nat OBVIOUS
<1>2. 1 + n - 1 = n /\ 1..n \subseteq 1..Len(s) BY <1>1
<1>3. SubSeq(s, 1, n) = [i \in 1..n |-> s[i]]
  <2>1. SubSeq(s, 1, n) = [i \in 1..(1 + n - 1) |-> s[i + 1 - 1]] OBVIOUS
  <2>2. \A i \in 1..n : i + 1 - 1 = i OBVIOUS
  <2> QED BY <1>2, <2>1, <2>2
<1>4. \A i \in 1..n : s[i] \in Nat BY <1>1, <1>2
<1> DEFINE t == [i \in 1..n |-> s[i]]
<1>5. t \in Seq(Nat) /\ Len(t) = n /\ DOMAIN t = 1..n /\ \A i \in 1..n : t[i] = s[i] BY <1>4
<1> QED BY <1>3, <1>5

\* A page has the rows from its start up to where the next one starts, or to the end.
LEMMA PagesFollowOn ==
  ASSUME NEW start \in Nat, NEW count \in Nat \ {0}
  PROVE  LET got == Page(start, count)
             next == NextFrom(got, count)
         IN /\ next \in Nat /\ (next # 0 => next > start) /\ got \in Seq(Nat) /\ ToSet(got) = {got[i] : i \in DOMAIN got}
            /\ ToSet(got) = {i \in There : i >= start /\ (next = 0 \/ i < next)}
<1> DEFINE from == {i \in There : i >= start}
           rows == Ascending(from)
           n == Min({count, Len(rows)})
           got == Page(start, count)
           next == NextFrom(got, count)
<1>1. from \subseteq Nat /\ IsFiniteSet(from)
  <2>1. from \in SUBSET Id BY RowsAreFinite
  <2> HIDE DEF from
  <2> QED BY <2>1, RowsAreFinite
<1>2. rows \in Seq(Nat) /\ ToSet(rows) = from /\ \A i, j \in 1..Len(rows) : i < j => rows[i] < rows[j]
  <2>1. rows \in Seq(from) /\ ToSet(rows) = from /\ \A i, j \in 1..Len(rows) : i < j => rows[i] < rows[j]
    <3> HIDE DEF from
    <3> QED BY <1>1, AscendingLists
  <2> HIDE DEF from, rows
  <2> QED BY <1>1, <2>1, SeqOfSubset
<1>3. got = SubSeq(rows, 1, n) BY DEF Page
<1> HIDE DEF rows, from, n, got
<1>4. Len(rows) \in Nat /\ DOMAIN rows = 1..Len(rows) BY <1>2
<1>5. n \in {count, Len(rows)} /\ n <= count /\ n <= Len(rows) /\ n \in Nat
  <2>1. {count, Len(rows)} \subseteq Nat /\ {count, Len(rows)} # {} BY <1>4
  <2>2. n \in {count, Len(rows)} /\ \A m \in {count, Len(rows)} : n <= m BY <2>1, MinOfNaturals DEF n
  <2> QED BY <1>4, <2>2
<1>6. got \in Seq(Nat) /\ Len(got) = n /\ DOMAIN got = 1..n /\ \A i \in 1..n : got[i] = rows[i]
  <2>1. rows \in Seq(Nat) /\ n \in Nat /\ n <= Len(rows) BY <1>2, <1>5
  <2>2. /\ SubSeq(rows, 1, n) \in Seq(Nat) /\ Len(SubSeq(rows, 1, n)) = n /\ DOMAIN SubSeq(rows, 1, n) = 1..n
        /\ \A i \in 1..n : SubSeq(rows, 1, n)[i] = rows[i]
    BY <2>1, FirstOfMany
  <2> QED BY <1>3, <2>2
<1>7. next = IF n = count THEN rows[count] + 1 ELSE 0
  <2>1. n = count => count \in 1..n BY <1>5
  <2> QED BY <1>6, <2>1 DEF NextFrom
<1>8. next \in Nat /\ (n = count => next # 0) /\ (next # 0 => next > start)
  <2>1. n = count => rows[count] \in Nat /\ rows[count] \in ToSet(rows) BY <1>2, <1>4, <1>5 DEF ToSet
  <2>2. n = count => rows[count] >= start BY <1>2, <2>1 DEF from
  <2> QED BY <1>7, <2>1, <2>2
<1>9. ToSet(got) = {rows[i] : i \in 1..n} BY <1>6 DEF ToSet
<1>10. ASSUME NEW i \in 1..Len(rows) PROVE i <= n <=> next = 0 \/ rows[i] < next
  <2>1. rows[i] \in Nat BY <1>2, <1>4
  <2>2. CASE n # count BY <1>5, <1>7, <1>10, <2>2
  <2>3. CASE n = count
    <3>1. count \in 1..Len(rows) /\ rows[count] \in Nat BY <1>2, <1>4, <1>5, <2>3
    <3>2. i <= count => rows[i] <= rows[count]
      <4>1. i < count => rows[i] < rows[count] BY <1>2, <3>1
      <4> QED BY <1>10, <2>1, <3>1, <4>1
    <3>3. count < i => rows[count] < rows[i] BY <1>2, <3>1
    <3>4. next = rows[count] + 1 /\ next # 0 BY <1>7, <1>8, <2>3
    <3> QED BY <1>4, <1>10, <2>1, <2>3, <3>1, <3>2, <3>3, <3>4
  <2> QED BY <2>2, <2>3
<1>11. from = {rows[i] : i \in 1..Len(rows)} BY <1>2, <1>4 DEF ToSet
<1> HIDE DEF next
<1>12. ToSet(got) = {x \in from : next = 0 \/ x < next}
  <2> DEFINE len == Len(rows)
  <2>0. len \in Nat /\ n \in Nat /\ n <= len BY <1>4, <1>5
  <2>1. ASSUME NEW i \in 1..n PROVE rows[i] \in from /\ (next = 0 \/ rows[i] < next)
    <3>1. i \in 1..len /\ i <= n
      <4> HIDE DEF len
      <4> QED BY <2>0
    <3> QED BY <1>10, <1>11, <3>1
  <2>2. ASSUME NEW i \in 1..Len(rows), next = 0 \/ rows[i] < next PROVE i \in 1..n
    <3>1. i <= n BY <1>10, <2>2
    <3>2. i \in 1..len OBVIOUS
    <3> HIDE DEF len
    <3> QED BY <2>0, <3>1, <3>2
  <2> QED BY <1>9, <1>11, <2>1, <2>2
<1>13. ToSet(got) = {i \in There : i >= start /\ (next = 0 \/ i < next)} BY <1>12 DEF from
<1> QED BY <1>6, <1>8, <1>13 DEF got, next, ToSet

LEMMA ReindexKeeps == ASSUME RowsInv, ReindexBatch PROVE RowsInv'
<1> DEFINE got == Page(index.from, BATCH)
           rows == {got[i] : i \in DOMAIN got}
           nxt == NextFrom(got, BATCH)
<1>1. /\ stored' = Derived(rows) /\ UNCHANGED <<field, last, listing>> /\ ~index.complete
      /\ entries' = entries \cup {<<stored'[i], i>> : i \in {j \in rows : stored'[j] # Blank}}
      /\ index' = IF nxt = 0 THEN [complete |-> TRUE, from |-> 1] ELSE [index EXCEPT !.from = nxt]
  BY DEF ReindexBatch
<1>2. index.from \in Nat /\ field \in [Id -> Values \cup {Blank}] /\ stored \in [Id -> Values \cup {Blank}] /\ There \subseteq Id
  BY RowsAreFinite DEF RowsInv, RowsOK
<1>3. nxt \in Nat /\ rows = {i \in There : i >= index.from /\ (nxt = 0 \/ i < nxt)}
  BY <1>2, PagesFollowOn, PagesAssumption
<1> HIDE DEF got, rows, nxt
<1>4. stored' = [i \in Id |-> IF i \in rows THEN field[i] ELSE stored[i]] /\ rows \subseteq There BY <1>1, <1>3 DEF Derived
<1>5. RowsOK' BY <1>1, <1>2, <1>3, <1>4 DEF RowsInv, RowsOK
<1>6. There' = There BY <1>1 DEF There
<1>7. \A i \in Id : stored'[i] \in {Blank, field[i]} /\ (stored[i] # Blank => stored'[i] = stored[i])
  BY <1>4 DEF RowsInv, Indexed
<1>8. entries' = {<<stored'[i], i>> : i \in {j \in Id : stored'[j] # Blank}}
  <2>1. entries = {<<stored[i], i>> : i \in {j \in Id : stored[j] # Blank}} BY DEF RowsInv, Indexed
  <2>2. \A i \in Id \ rows : stored'[i] = stored[i] BY <1>4
  <2>3. rows \subseteq Id BY <1>2, <1>4
  <2>4. ASSUME NEW e \in entries' PROVE \E i \in Id : stored'[i] # Blank /\ e = <<stored'[i], i>>
    <3>1. CASE e \in entries
      <4>1. PICK i \in Id : stored[i] # Blank /\ e = <<stored[i], i>> BY <2>1, <3>1
      <4> QED BY <1>7, <4>1
    <3>2. CASE e \notin entries
      <4>1. PICK i \in rows : stored'[i] # Blank /\ e = <<stored'[i], i>> BY <1>1, <2>4, <3>2
      <4> QED BY <2>3, <4>1
    <3> QED BY <3>1, <3>2
  <2>5. ASSUME NEW i \in Id, stored'[i] # Blank PROVE <<stored'[i], i>> \in entries'
    <3>1. CASE i \in rows BY <1>1, <2>5, <3>1
    <3>2. CASE i \notin rows BY <1>1, <2>1, <2>2, <2>5, <3>2
    <3> QED BY <3>1, <3>2
  <2> QED BY <2>4, <2>5
<1>9. \A i \in There : index'.complete \/ i < index'.from => stored'[i] = field[i]
  <2>1. \A i \in There : i \in Nat BY RowsAreFinite
  <2>2. \A i \in There : nxt = 0 \/ i < nxt => i \in rows \/ i < index.from BY <1>2, <1>3, <2>1
  <2>3. \A i \in There : i < index.from => stored[i] = field[i] BY DEF RowsInv, Indexed
  <2>4. \A i \in There : nxt = 0 \/ i < nxt => stored'[i] = field[i] BY <1>2, <1>4, <2>2, <2>3
  <2>5. nxt # 0 => ~index'.complete /\ index'.from = nxt BY <1>1 DEF RowsInv, RowsOK
  <2> QED BY <2>4, <2>5
<1>10. Indexed' BY <1>1, <1>6, <1>7, <1>8, <1>9 DEF Indexed
<1>11. ListedSoFar' BY <1>1, <1>6 DEF RowsInv, ListedSoFar
<1> QED BY <1>5, <1>10, <1>11 DEF RowsInv

LEMMA WritesKeep == ASSUME RowsInv, NEW i \in Id, NEW v \in Values \cup {Blank}, Writes(i, v), last' \in Nat PROVE RowsInv'
<1>1. /\ field' = [field EXCEPT ![i] = v] /\ stored' = [stored EXCEPT ![i] = v] /\ UNCHANGED index
      /\ entries' = {e \in entries : e[2] # i} \cup (IF v = Blank THEN {} ELSE {<<v, i>>}) /\ Changes(i, v)
  BY DEF Writes
<1>2. field \in [Id -> Values \cup {Blank}] /\ stored \in [Id -> Values \cup {Blank}] BY DEF RowsInv, RowsOK
<1>3. /\ field'[i] = v /\ stored'[i] = v /\ \A j \in Id \ {i} : field'[j] = field[j] /\ stored'[j] = stored[j]
      /\ field' \in [Id -> Values \cup {Blank}] /\ stored' \in [Id -> Values \cup {Blank}]
  BY <1>1, <1>2
<1>4. There' = IF v = Blank THEN There \ {i} ELSE There \cup {i} BY <1>3 DEF There
<1>5. Indexed'
  <2>1. entries = {<<stored[j], j>> : j \in {h \in Id : stored[h] # Blank}} BY DEF RowsInv, Indexed
  <2>2. ASSUME NEW e \in entries' PROVE \E j \in Id : stored'[j] # Blank /\ e = <<stored'[j], j>>
    <3>1. CASE e \in entries /\ e[2] # i
      <4>1. PICK j \in Id : stored[j] # Blank /\ e = <<stored[j], j>> BY <2>1, <3>1
      <4>2. j # i BY <3>1, <4>1
      <4> QED BY <1>3, <4>1, <4>2
    <3>2. CASE v # Blank /\ e = <<v, i>> BY <1>3, <3>2
    <3> QED BY <1>1, <2>2, <3>1, <3>2
  <2>3. ASSUME NEW j \in Id, stored'[j] # Blank PROVE <<stored'[j], j>> \in entries'
    <3>1. CASE j = i BY <1>1, <1>3, <2>3, <3>1
    <3>2. CASE j # i
      <4>1. <<stored[j], j>> \in entries /\ stored'[j] = stored[j] BY <1>3, <2>1, <2>3, <3>2
      <4>2. <<stored[j], j>>[2] # i BY <3>2
      <4> QED BY <1>1, <4>1, <4>2
    <3> QED BY <3>1, <3>2
  <2>4. entries' = {<<stored'[j], j>> : j \in {h \in Id : stored'[h] # Blank}} BY <2>2, <2>3
  <2>5. \A j \in Id : stored'[j] \in {Blank, field'[j]} BY <1>3 DEF RowsInv, Indexed
  <2>6. \A j \in There' : index.complete \/ j < index.from => stored'[j] = field'[j]
    <3>1. \A j \in There' : j = i \/ (j \in There /\ j \in Id) BY <1>4 DEF There
    <3> QED BY <1>3, <3>1 DEF RowsInv, Indexed
  <2> QED BY <1>1, <2>4, <2>5, <2>6 DEF Indexed
<1>6. CASE listing.at # "reading"
  <2>1. listing' = listing BY <1>1, <1>6 DEF Changes
  <2>2. RowsOK' BY <1>1, <1>3, <2>1 DEF RowsInv, RowsOK
  <2>3. ListedSoFar' BY <1>6, <2>1 DEF RowsInv, ListedSoFar
  <2> QED BY <1>5, <2>2, <2>3 DEF RowsInv
<1>7. CASE listing.at = "reading"
  <2>1. listing \in ListingRecord /\ listing # NoListing BY <1>7 DEF RowsInv, RowsOK, NoListing, ListingRecord
  <2>2. listing' = [listing EXCEPT !.throughout = IF v \in listing.readable THEN @ ELSE @ \ {i},
                                   !.ever = IF v \in listing.readable THEN @ \cup {i} ELSE @]
    BY <1>1, <1>7 DEF Changes
  <2>3. /\ listing' \in ListingRecord /\ listing'.at = "reading" /\ listing'.out = listing.out /\ listing'.from = listing.from
        /\ listing'.readable = listing.readable
        /\ listing'.throughout = (IF v \in listing.readable THEN listing.throughout ELSE listing.throughout \ {i})
        /\ listing'.ever = (IF v \in listing.readable THEN listing.ever \cup {i} ELSE listing.ever)
    BY <1>7, <2>1, <2>2 DEF ListingRecord
  <2>4. RowsOK' BY <1>1, <1>3, <2>3 DEF RowsInv, RowsOK
  <2>5. Rising(listing.out) /\ ToSet(listing.out) \subseteq listing.ever /\ \A j \in ToSet(listing.out) : j < listing.from
    BY <1>7, <2>1 DEF RowsInv, ListedSoFar
  <2>6. \A j \in listing'.throughout : j \in There' /\ field'[j] \in listing.readable /\ (j < listing.from => j \in ToSet(listing.out))
    <3> SUFFICES ASSUME NEW j \in listing'.throughout
                 PROVE  j \in There' /\ field'[j] \in listing.readable /\ (j < listing.from => j \in ToSet(listing.out))
      OBVIOUS
    <3>1. j \in listing.throughout /\ (j = i => v \in listing.readable) BY <2>3
    <3>2. j \in There /\ field[j] \in listing.readable /\ (j < listing.from => j \in ToSet(listing.out))
      BY <1>7, <3>1 DEF RowsInv, ListedSoFar
    <3>3. listing.readable \subseteq Values BY <2>1 DEF ListingRecord
    <3>4. j = i => v # Blank BY <3>1, <3>3, BlankAssumption
    <3>5. j \in Id BY <3>2 DEF There
    <3> QED BY <1>3, <1>4, <3>1, <3>2, <3>4, <3>5
  <2>7. \A j \in There' : field'[j] \in listing.readable => j \in listing'.ever
    <3> SUFFICES ASSUME NEW j \in There', field'[j] \in listing.readable PROVE j \in listing'.ever OBVIOUS
    <3>1. CASE j = i BY <1>3, <2>3, <3>1
    <3>2. CASE j # i
      <4>1. j \in There /\ j \in Id BY <1>4, <3>2 DEF There
      <4>2. j \in listing.ever BY <1>3, <1>7, <3>2, <4>1 DEF RowsInv, ListedSoFar
      <4> QED BY <2>3, <4>2
    <3> QED BY <3>1, <3>2
  <2>8. ToSet(listing'.out) \subseteq listing'.ever BY <2>3, <2>5
  <2>9. ListedSoFar' BY <2>3, <2>5, <2>6, <2>7, <2>8 DEF ListedSoFar
  <2> QED BY <1>5, <2>4, <2>9 DEF RowsInv
<1> QED BY <1>6, <1>7

LEMMA BeginsListKeeps == ASSUME RowsInv, ListBegins PROVE RowsInv'
<1>1. UNCHANGED <<field, stored, entries, index, last>> BY DEF ListBegins
<1>2. PICK readable \in SUBSET Values :
        LET mine == {i \in There : field[i] \in readable}
        IN listing' = [at |-> "reading", from |-> 1, count |-> PAGE, out |-> <<>>, readable |-> readable,
                       throughout |-> mine, ever |-> mine]
  BY DEF ListBegins
<1> DEFINE mine == {i \in There : field[i] \in readable}
<1>3. /\ listing'.at = "reading" /\ listing'.from = 1 /\ listing'.out = <<>> /\ listing'.readable = readable
      /\ listing'.throughout = mine /\ listing'.ever = mine
  BY <1>2
<1>4. listing' \in ListingRecord
  <2>1. mine \in SUBSET Id BY RowsAreFinite
  <2>0. <<>> \in Seq(Nat) OBVIOUS
  <2> HIDE DEF mine
  <2> QED BY <1>2, <2>0, <2>1, PagesAssumption DEF ListingRecord, mine
<1>5. RowsOK' BY <1>1, <1>4 DEF RowsInv, RowsOK
<1>6. There' = There BY <1>1 DEF There
<1>7. Indexed' BY <1>1, <1>6 DEF RowsInv, Indexed
<1>8. ToSet(<<>>) = {} BY DEF ToSet
<1>9. Rising(<<>>) BY DEF Rising
<1>10. \A i \in There : ~(i < 1)
  <2>1. \A i \in There : i \in 1..MaxRows BY DEF There, Id
  <2> QED BY <2>1, PagesAssumption
<1>11. ListedSoFar' BY <1>1, <1>3, <1>6, <1>8, <1>9, <1>10 DEF ListedSoFar
<1> QED BY <1>5, <1>7, <1>11 DEF RowsInv

LEMMA HalvedKeeps == ASSUME RowsInv, PageHalved PROVE RowsInv'
<1>1. UNCHANGED <<field, stored, entries, index, last>> /\ listing.at = "reading" /\ listing.count > 1
      /\ listing' = [listing EXCEPT !.count = @ \div 2]
  BY DEF PageHalved
<1>2. listing \in ListingRecord BY <1>1 DEF RowsInv, RowsOK, NoListing
<1>3. listing.count \in Nat /\ listing.count \div 2 \in Nat \ {0} BY <1>1, <1>2 DEF ListingRecord
<1>4. /\ listing' \in ListingRecord /\ listing'.at = listing.at /\ listing'.from = listing.from /\ listing'.out = listing.out
      /\ listing'.readable = listing.readable /\ listing'.throughout = listing.throughout /\ listing'.ever = listing.ever
  BY <1>1, <1>2, <1>3 DEF ListingRecord
<1>5. RowsOK' BY <1>1, <1>4 DEF RowsInv, RowsOK
<1>6. There' = There BY <1>1 DEF There
<1>7. Indexed' BY <1>1, <1>6 DEF RowsInv, Indexed
<1>8. listing # NoListing BY <1>1 DEF NoListing
<1>9. ListedSoFar' BY <1>1, <1>4, <1>6, <1>8 DEF RowsInv, ListedSoFar
<1> QED BY <1>5, <1>7, <1>9 DEF RowsInv

\* One list goes on where another ends.
LEMMA RisesOn ==
  ASSUME NEW s \in Seq(Nat), NEW t \in Seq(Nat), Rising(s), Rising(t), \A x \in ToSet(s), y \in ToSet(t) : x < y
  PROVE  s \o t \in Seq(Nat) /\ Rising(s \o t) /\ ToSet(s \o t) = ToSet(s) \cup ToSet(t)
<1> DEFINE u == s \o t
<1>1. /\ Len(s) \in Nat /\ Len(t) \in Nat /\ Len(u) = Len(s) + Len(t) /\ DOMAIN s = 1..Len(s) /\ DOMAIN t = 1..Len(t)
      /\ \A a \in 1..Len(s) : u[a] = s[a]
      /\ \A a \in (Len(s) + 1)..Len(u) : u[a] = t[a - Len(s)]
  OBVIOUS
<1>2. u \in Seq(Nat) /\ ToSet(u) = ToSet(s) \cup ToSet(t) BY ToSetConcat
<1> HIDE DEF u
<1>3. ASSUME NEW a \in 1..Len(u), NEW b \in 1..Len(u), a < b PROVE u[a] < u[b]
  <2>1. CASE b <= Len(s)
    <3>1. a \in 1..Len(s) /\ b \in 1..Len(s) BY <1>1, <1>3, <2>1
    <3> QED BY <1>1, <1>3, <3>1 DEF Rising
  <2>2. CASE a > Len(s)
    <3>1. a - Len(s) \in 1..Len(t) /\ b - Len(s) \in 1..Len(t) /\ a - Len(s) < b - Len(s)
          /\ a \in (Len(s) + 1)..Len(u) /\ b \in (Len(s) + 1)..Len(u)
      BY <1>1, <1>3, <2>2
    <3>2. t[a - Len(s)] < t[b - Len(s)] BY <3>1 DEF Rising
    <3> QED BY <1>1, <3>1, <3>2
  <2>3. CASE a <= Len(s) /\ b > Len(s)
    <3>1. a \in 1..Len(s) /\ b - Len(s) \in 1..Len(t) /\ b \in (Len(s) + 1)..Len(u) BY <1>1, <1>3, <2>3
    <3>2. s[a] \in ToSet(s) /\ t[b - Len(s)] \in ToSet(t) BY <1>1, <3>1 DEF ToSet
    <3> QED BY <1>1, <3>1, <3>2
  <2> QED BY <1>1, <1>3, <2>1, <2>2, <2>3
<1>4. Rising(u) BY <1>3 DEF Rising
<1> QED BY <1>2, <1>4 DEF u

LEMMA PageKeeps == ASSUME RowsInv, ListPage PROVE RowsInv'
<1> DEFINE page == Page(listing.from, listing.count)
           next == NextFrom(page, listing.count)
           mine == {i \in ToSet(page) : field[i] \in listing.readable}
           rows == Ascending(mine)
<1>1. UNCHANGED <<field, stored, entries, index, last>> /\ listing.at = "reading" BY DEF ListPage
<1>2. listing' = [listing EXCEPT !.out = @ \o rows, !.from = next, !.at = IF next = 0 THEN "read" ELSE "reading"]
  BY DEF ListPage, PageRead
<1>3. listing \in ListingRecord BY <1>1 DEF RowsInv, RowsOK, NoListing
<1>4. listing.from \in Nat /\ listing.count \in Nat \ {0} /\ listing.out \in Seq(Nat) BY <1>3 DEF ListingRecord
<1>5. next \in Nat /\ (next # 0 => next > listing.from) /\ ToSet(page) = {i \in There : i >= listing.from /\ (next = 0 \/ i < next)} BY <1>4, PagesFollowOn
<1> HIDE DEF page, next
<1>6. mine = {i \in There : field[i] \in listing.readable /\ i >= listing.from /\ (next = 0 \/ i < next)} BY <1>5
<1>7. mine \in SUBSET Id BY <1>6, RowsAreFinite
<1> HIDE DEF mine
<1>8. rows \in Seq(Nat) /\ Rising(rows) /\ ToSet(rows) = mine
  <2>1. mine \subseteq Nat /\ IsFiniteSet(mine) BY <1>7, RowsAreFinite
  <2>2. rows \in Seq(mine) /\ ToSet(rows) = mine /\ \A a, b \in 1..Len(rows) : a < b => rows[a] < rows[b] BY <2>1, AscendingLists
  <2> HIDE DEF rows
  <2> QED BY <2>1, <2>2, SeqOfSubset DEF Rising
<1> HIDE DEF rows
<1>9. listing # NoListing BY <1>1 DEF NoListing
<1>10. Rising(listing.out) /\ ToSet(listing.out) \subseteq listing.ever /\ \A i \in ToSet(listing.out) : i < listing.from
  BY <1>1, <1>9 DEF RowsInv, ListedSoFar
<1>11. \A x \in ToSet(listing.out), y \in ToSet(rows) : x < y
  <2>1. ToSet(listing.out) \subseteq Nat BY <1>4 DEF ToSet
  <2>2. \A y \in mine : y \in Nat /\ y >= listing.from BY <1>6, <1>7, RowsAreFinite
  <2> QED BY <1>4, <1>8, <1>10, <2>1, <2>2
<1>12. listing.out \o rows \in Seq(Nat) /\ Rising(listing.out \o rows) /\ ToSet(listing.out \o rows) = ToSet(listing.out) \cup mine
  BY <1>4, <1>8, <1>10, <1>11, RisesOn
<1>13. /\ listing' \in ListingRecord /\ listing'.out = listing.out \o rows /\ listing'.from = next
       /\ listing'.at = (IF next = 0 THEN "read" ELSE "reading")
       /\ listing'.readable = listing.readable /\ listing'.throughout = listing.throughout /\ listing'.ever = listing.ever
  BY <1>2, <1>3, <1>5, <1>12 DEF ListingRecord
<1>14. RowsOK' BY <1>1, <1>13 DEF RowsInv, RowsOK
<1>15. There' = There /\ There \subseteq Id /\ Id \subseteq Nat BY <1>1, RowsAreFinite DEF There
<1>16. Indexed' BY <1>1, <1>15 DEF RowsInv, Indexed
<1>17. mine \subseteq listing.ever BY <1>1, <1>6 DEF RowsInv, ListedSoFar
<1>18. \A i \in listing.throughout : i \in There /\ field[i] \in listing.readable /\ (i < listing.from => i \in ToSet(listing.out))
  BY <1>1 DEF RowsInv, ListedSoFar
<1>19. \A i \in listing.throughout : next = 0 \/ i < next => i \in ToSet(listing'.out)
  <2>0. \A i \in listing.throughout : i \in Nat BY <1>15, <1>18
  <2>1. \A i \in listing.throughout : i < listing.from \/ i >= listing.from BY <1>4, <2>0
  <2> QED BY <1>6, <1>12, <1>13, <1>18, <2>1
<1>20. next # 0 => \A i \in ToSet(listing'.out) : i < next
  <2>1. ASSUME next # 0, NEW i \in ToSet(listing.out) PROVE i < next
    <3>1. i < listing.from /\ i \in Nat BY <1>4, <1>10 DEF ToSet
    <3> QED BY <1>4, <1>5, <2>1, <3>1
  <2> QED BY <1>6, <1>12, <1>13, <2>1
<1>21. ListedSoFar'
  <2>1. ToSet(listing'.out) \subseteq listing'.ever BY <1>10, <1>12, <1>13, <1>17
  <2>2. listing'.at = "read" => next = 0 BY <1>13
  <2>3. listing'.at = "reading" => next # 0 BY <1>13
  <2>4. \A i \in There : field[i] \in listing.readable => i \in listing.ever BY <1>1 DEF RowsInv, ListedSoFar
  <2> QED BY <1>1, <1>12, <1>13, <1>15, <1>18, <1>19, <1>20, <2>1, <2>2, <2>3, <2>4 DEF ListedSoFar
<1> QED BY <1>14, <1>16, <1>21 DEF RowsInv

LEMMA RowsKept == ASSUME RowsInv, [RowsNext]_rowVars PROVE RowsInv'
<1>1. CASE UNCHANGED rowVars
  BY <1>1 DEF rowVars, RowsInv, RowsOK, Indexed, ListedSoFar, There
<1>2. CASE CreateRow
  <2>1. last \in Nat /\ last' = last + 1 /\ last < MaxRows BY <1>2 DEF CreateRow, RowsInv, RowsOK
  <2>2. last' \in Id /\ last' \in Nat BY <2>1, PagesAssumption DEF Id
  <2>3. PICK v \in Values : Writes(last', v) BY <1>2 DEF CreateRow
  <2>4. PICK i \in Id : i = last' /\ Writes(i, v) BY <2>2, <2>3
  <2> QED BY <2>2, <2>4, WritesKeep
<1>3. CASE WriteRow \/ DeleteRow
  <2>1. last' \in Nat BY <1>3 DEF WriteRow, DeleteRow, RowsInv, RowsOK
  <2>2. PICK i \in There, v \in Values \cup {Blank} : Writes(i, v) BY <1>3 DEF WriteRow, DeleteRow
  <2>3. i \in Id BY DEF There
  <2> QED BY <2>1, <2>2, <2>3, WritesKeep
<1> QED BY <1>1, <1>2, <1>3, ReindexKeeps, BeginsListKeeps, HalvedKeeps, PageKeeps DEF RowsNext

LEMMA RowsBegin == RowsInit => RowsInv
<1> SUFFICES ASSUME RowsInit PROVE RowsInv OBVIOUS
<1>1. RowsOK BY PagesAssumption DEF RowsInit, RowsOK
<1>2. \A i \in There : ~(i < 1)
  <2>1. \A i \in There : i \in 1..MaxRows BY DEF There, Id
  <2> QED BY <2>1, PagesAssumption
<1>3. Indexed BY <1>2 DEF RowsInit, Indexed
<1>4. ListedSoFar BY DEF RowsInit, ListedSoFar, NoListing
<1> QED BY <1>1, <1>3, <1>4 DEF RowsInv

\* Lookups find exactly the rows with a value, before, while and after the index is filled,
\* and a list read whole, whatever sizes its pages had, has each row that was readable all
\* along, once, and no row that never was (page, matching and reindex_batch of
\* src/model.py, query_all of casals_cli/ic.py).
THEOREM RowsAreAllFound == Spec => []RowsAreFound
<1>1. Init => RowsInv BY RowsBegin DEF Init
<1>2. RowsInv /\ [Next]_vars => RowsInv' BY RowsKept, PartsMoveApart
<1>3. RowsInv => RowsAreFound
  <2> SUFFICES ASSUME RowsInv PROVE RowsAreFound OBVIOUS
  <2>1. ASSUME NEW v \in Values PROVE Matching(v) = {i \in Id : field[i] = v}
    <3>1. CASE ~index.complete BY <3>1 DEF Matching
    <3>2. CASE index.complete
      <4>1. v # Blank BY BlankAssumption
      <4>2. \A i \in Id : <<v, i>> \in entries <=> stored[i] = v BY <4>1 DEF RowsInv, Indexed
      <4>3. \A i \in Id : stored[i] = v <=> field[i] = v BY <3>2, <4>1 DEF RowsInv, Indexed, There
      <4> QED BY <3>2, <4>2, <4>3 DEF Matching
    <3> QED BY <3>1, <3>2
  <2>2. ASSUME listing.at = "read"
        PROVE  /\ IsInjective(listing.out)
               /\ listing.throughout \subseteq ToSet(listing.out) /\ ToSet(listing.out) \subseteq listing.ever
    <3>1. listing # NoListing /\ listing \in ListingRecord BY <2>2 DEF RowsInv, RowsOK, NoListing
    <3>2. listing.out \in Seq(Nat) /\ Rising(listing.out) BY <3>1 DEF RowsInv, ListedSoFar, ListingRecord
    <3>3. IsInjective(listing.out)
      <4>1. DOMAIN listing.out = 1..Len(listing.out) /\ Len(listing.out) \in Nat
            /\ \A a \in 1..Len(listing.out) : listing.out[a] \in Nat
        BY <3>2
      <4>2. \A a, b \in 1..Len(listing.out) : listing.out[a] = listing.out[b] => ~(a < b) /\ ~(b < a)
        BY <3>2, <4>1 DEF Rising
      <4>3. \A a, b \in 1..Len(listing.out) : ~(a < b) /\ ~(b < a) => a = b BY <4>1
      <4> QED BY <4>1, <4>2, <4>3 DEF IsInjective
    <3> QED BY <2>2, <3>1, <3>3 DEF RowsInv, ListedSoFar
  <2> QED BY <2>1, <2>2 DEF RowsAreFound
<1> QED BY <1>1, <1>2, <1>3, PTL DEF Spec
-----------------------------------------------------------------------------
(* Content *)

SyncRecord ==
  [at : {"idle", "list", "live", "read", "apply"}, ns : Namespaces, want : Listing, puts : SUBSET Paths, data : Listing,
   deletes : SUBSET Paths, left : Nat, alone : BOOLEAN]

ContentOK ==
  /\ store \in [Namespaces -> Listing] /\ served \in Listing /\ content \in Namespaces /\ uploaded \in Nat
  /\ bundles \in [Namespaces -> Listing \cup {Unlisted}] /\ sync \in [Callers -> SyncRecord]

\* What a sync s that was alone since it began has found, and has still to do.
SyncIsRight(s, held, shown, seen) ==
  /\ s.at = "list" => held[s.ns] \in seen
  /\ s.at \in {"live", "read", "apply"} => s.want \in seen
  /\ s.at \in {"read", "apply"} /\ s.left = 0 =>
       \A p \in Paths : \/ p \in s.puts \cup s.deletes
                        \/ shown[p] = s.want[p]
  /\ s.at \in {"read", "apply"} => s.puts \subseteq Present(s.want) /\ \A p \in s.deletes : s.want[p] = NoFile

\* The inductive invariant: while one is alone nobody else changes the frontend, and what
\* was settled is settled only until the next begins.
ContentInv ==
  /\ ContentOK
  /\ \A t \in Callers : sync[t].at # "idle" /\ sync[t].alone =>
       /\ \A u \in Callers \ {t} : sync[u].at = "idle"
       /\ SyncIsRight(sync[t], store, served, recent)
  /\ settled # Unlisted => /\ \A t \in Callers : sync[t].at = "idle"
                           /\ deploy = "done" /\ served = settled /\ settled \in recent

LEMMA ContentConstants ==
  /\ IsFiniteSet(Paths) /\ Paths \subseteq Nat /\ MAX_FILES \in Nat \ {0} /\ TheRound \notin Operators
  /\ Unlisted \notin Listing /\ Empty \in Listing /\ Idle \in SyncRecord /\ Idle.at = "idle" /\ Idle.ns \in Namespaces
  /\ Idle.puts = {} /\ Idle.deletes = {} /\ Idle.left = 0
<1>1. Empty \in Listing BY DEF Empty, Listing, File
<1>2. (CHOOSE n \in Namespaces : TRUE) \in Namespaces BY ContentAssumption
<1>3. Idle \in SyncRecord BY <1>1, <1>2 DEF Idle, SyncRecord
<1> QED BY <1>1, <1>2, <1>3, ContentAssumption, UnlistedAssumption DEF Idle

LEMMA FirstPath == ASSUME NEW S \in SUBSET Paths, S # {} PROVE Min(S) \in S
BY ContentConstants, MinOfNaturals

\* One more begins: it is alone when nobody else is busy, and nobody else is alone any more.
LEMMA BeganKeeps ==
  ASSUME ContentInv, NEW t \in Callers, sync[t].at = "idle", NEW n \in Namespaces, NEW at \in {"list", "live"}, NEW want \in Listing,
         Began(t, n, at, want), settled' = Unlisted, UNCHANGED <<store, served, content, uploaded>>,
         bundles' \in [Namespaces -> Listing \cup {Unlisted}],
         at = "list" => store[n] \in recent',
         at = "live" => want \in recent'
  PROVE  ContentInv'
<1> USE ContentConstants
<1> DEFINE next == [Idle EXCEPT !.at = at, !.ns = n, !.want = want, !.alone = Busy = {}]
<1>1. sync \in [Callers -> SyncRecord] BY DEF ContentInv, ContentOK
<1>2. sync' = [s \in Callers |-> IF s = t THEN next ELSE [sync[s] EXCEPT !.alone = FALSE]] BY DEF Began
<1>3. next \in SyncRecord /\ next.at = at /\ next.ns = n /\ next.want = want /\ next.alone = (Busy = {}) /\ next.puts = {}
  <2> DEFINE b == (Busy = {})
  <2>1. b \in BOOLEAN OBVIOUS
  <2> HIDE DEF b
  <2> QED BY <2>1 DEF SyncRecord, b
<1> HIDE DEF next
<1>4. ASSUME NEW u \in Callers \ {t} PROVE sync'[u] \in SyncRecord /\ sync'[u].at = sync[u].at /\ ~sync'[u].alone
  <2>1. sync[u] \in SyncRecord /\ sync'[u] = [sync[u] EXCEPT !.alone = FALSE] BY <1>1, <1>2
  <2> QED BY <2>1 DEF SyncRecord
<1>5. sync'[t] = next BY <1>2
<1>6. sync' \in [Callers -> SyncRecord]
  <2>1. sync' = [s \in Callers |-> sync'[s]] /\ \A s \in Callers : sync'[s] \in SyncRecord BY <1>2, <1>3, <1>4, <1>5
  <2> QED BY <2>1
<1>7. ContentOK' BY <1>6 DEF ContentInv, ContentOK
<1>8. ASSUME NEW u \in Callers, sync'[u].at # "idle" /\ sync'[u].alone
      PROVE  /\ \A v \in Callers \ {u} : sync'[v].at = "idle"
             /\ SyncIsRight(sync'[u], store', served', recent')
  <2>1. u = t BY <1>4, <1>8
  <2>2. \A v \in Callers \ {t} : sync'[v].at = "idle"
    <3>1. Busy = {} BY <1>3, <1>5, <1>8, <2>1
    <3> QED BY <1>4, <3>1 DEF Busy
  <2>3. SyncIsRight(next, store, served', recent') BY <1>3 DEF SyncIsRight
  <2> QED BY <1>5, <2>1, <2>2, <2>3
<1> QED BY <1>7, <1>8 DEF ContentInv

\* A busy sync goes on with r, which is right if it was alone; nothing was settled.
LEMMA SyncGoesOn ==
  ASSUME ContentInv, NEW t \in Callers, sync[t].at # "idle", NEW r \in SyncRecord, sync' = [sync EXCEPT ![t] = r],
         UNCHANGED <<store, recent, uploaded>>, served' \in Listing, content' \in Namespaces,
         bundles' \in [Namespaces -> Listing \cup {Unlisted}],
         r.at # "idle" /\ r.alone => sync[t].alone /\ SyncIsRight(r, store, served', recent),
         settled' # Unlisted => /\ sync[t].alone /\ r.at = "idle" /\ deploy' = "done" /\ served' = settled' /\ settled' \in recent
  PROVE  ContentInv'
<1>1. sync \in [Callers -> SyncRecord] BY DEF ContentInv, ContentOK
<1>2. sync'[t] = r /\ sync' \in [Callers -> SyncRecord] /\ \A u \in Callers \ {t} : sync'[u] = sync[u] BY <1>1
<1>3. ContentOK' BY <1>2 DEF ContentInv, ContentOK
<1>4. sync[t].alone => \A u \in Callers \ {t} : sync[u].at = "idle" BY DEF ContentInv
<1>5. ASSUME NEW u \in Callers, sync'[u].at # "idle" /\ sync'[u].alone
      PROVE  /\ \A v \in Callers \ {u} : sync'[v].at = "idle"
             /\ SyncIsRight(sync'[u], store', served', recent')
  <2>1. CASE u = t BY <1>2, <1>4, <1>5, <2>1
  <2>2. CASE u # t
    <3>1. sync[u].at # "idle" /\ sync[u].alone BY <1>2, <1>5, <2>2
    <3>2. sync[t].at = "idle" BY <2>2, <3>1 DEF ContentInv
    <3> QED BY <3>2
  <2> QED BY <2>1, <2>2
<1>6. settled' # Unlisted => \A u \in Callers : sync'[u].at = "idle" BY <1>2, <1>4
<1> QED BY <1>3, <1>5, <1>6 DEF ContentInv

LEMMA ContentFacts ==
  ASSUME ContentInv
  PROVE  /\ store \in [Namespaces -> Listing] /\ served \in Listing /\ content \in Namespaces /\ uploaded \in Nat
         /\ bundles \in [Namespaces -> Listing \cup {Unlisted}] /\ sync \in [Callers -> SyncRecord]
         /\ \A t \in Callers : sync[t] \in SyncRecord /\ (sync[t].at # "idle" => settled = Unlisted)
         /\ \A t \in Callers : sync[t].at # "idle" /\ sync[t].alone => SyncIsRight(sync[t], store, served, recent)
BY DEF ContentInv, ContentOK

LEMMA SyncFields ==
  ASSUME NEW s \in SyncRecord
  PROVE  /\ s.at \in {"idle", "list", "live", "read", "apply"} /\ s.ns \in Namespaces /\ s.want \in Listing /\ s.puts \in SUBSET Paths
         /\ s.data \in Listing /\ s.deletes \in SUBSET Paths /\ s.left \in Nat /\ s.alone \in BOOLEAN
BY DEF SyncRecord

\* A failing sync ends, and settles nothing.
LEMMA FailureKeeps ==
  ASSUME ContentInv, NEW t \in Callers, sync[t].at # "idle", SyncFails(t), UNCHANGED <<store, recent, uploaded>>,
         served' \in Listing, bundles' = bundles
  PROVE  ContentInv'
<1>1. /\ sync' = [sync EXCEPT ![t] = Idle] /\ settled' = Unlisted /\ content' \in Namespaces
      /\ bundles' \in [Namespaces -> Listing \cup {Unlisted}]
  BY ContentFacts DEF SyncFails
<1> QED BY <1>1, ContentConstants, SyncGoesOn

LEMMA BundlesKeep ==
  ASSUME ContentInv, NEW n \in Namespaces,
         \/ SetContent(n) \/ ListingExpires(n) \/ UpgradeForgets
         \/ \E p \in Paths : Upload(n, p)
  PROVE  ContentInv'
<1> USE ContentConstants
<1>1. CASE SetContent(n) \/ ListingExpires(n)
  <2>1. /\ UNCHANGED <<store, served, deploy, sync, settled, recent>> /\ content' \in Namespaces /\ uploaded' \in Nat
        /\ bundles' \in [Namespaces -> Listing \cup {Unlisted}]
    BY <1>1, ContentFacts DEF SetContent, ListingExpires
  <2> QED BY <2>1 DEF ContentInv, ContentOK
<1>2. CASE UpgradeForgets
  <2>1. /\ UNCHANGED <<store, served, content, uploaded>> /\ bundles' = [m \in Namespaces |-> Unlisted]
        /\ sync' = [t \in Callers |-> Idle] /\ settled' = Unlisted
    BY <1>2 DEF UpgradeForgets
  <2>2. bundles' \in [Namespaces -> Listing \cup {Unlisted}] /\ sync' \in [Callers -> SyncRecord] BY <2>1
  <2>3. \A t \in Callers : sync'[t].at = "idle" BY <2>1
  <2>4. ContentOK' BY <2>1, <2>2, ContentFacts DEF ContentOK
  <2> QED BY <2>1, <2>3, <2>4 DEF ContentInv
<1>3. ASSUME NEW p \in Paths, Upload(n, p) PROVE ContentInv'
  <2>1. PICK f \in {<<n, uploaded'>>, NoFile} : store' = [store EXCEPT ![n][p] = f]
    BY <1>3 DEF Upload
  <2>2. uploaded' = uploaded + 1 /\ UNCHANGED <<served, content, deploy, bundles, queued, sync, lost, settled>>
        /\ recent' = IF \E t \in Busy : sync[t].ns = n THEN recent \cup {store'[n]} ELSE recent
    BY <1>3 DEF Upload
  <2>3. uploaded' \in Nat /\ f \in File BY <2>1, <2>2, ContentFacts DEF File
  <2>4. store' \in [Namespaces -> Listing] /\ \A m \in Namespaces \ {n} : store'[m] = store[m] BY <2>1, <2>3, ContentFacts DEF Listing
  <2>5. ContentOK' BY <2>2, <2>3, <2>4, ContentFacts DEF ContentOK
  <2>6. recent \subseteq recent' BY <2>2
  <2>7. ASSUME NEW t \in Callers, sync[t].at # "idle", SyncIsRight(sync[t], store, served, recent)
        PROVE  SyncIsRight(sync[t], store', served, recent')
    <3>1. t \in Busy BY <2>7 DEF Busy
    <3>2. store'[sync[t].ns] \in recent' \/ (store'[sync[t].ns] = store[sync[t].ns] /\ sync[t].ns # n)
      <4>1. sync[t].ns \in Namespaces BY ContentFacts, SyncFields
      <4> QED BY <2>2, <2>4, <3>1, <4>1
    <3> QED BY <2>6, <2>7, <3>2 DEF SyncIsRight
  <2> QED BY <2>2, <2>5, <2>6, <2>7 DEF ContentInv
<1> QED BY <1>1, <1>2, <1>3

LEMMA DeploysBegin == ASSUME ContentInv, NEW n \in Namespaces, (\E t \in Operators : BeginDeploy(t, n)) \/ BeginRound PROVE ContentInv'
<1> USE ContentConstants
<1>1. ASSUME NEW t \in Operators, BeginDeploy(t, n) PROVE ContentInv'
  <2>1. t \in Callers BY DEF Callers
  <2>2. /\ sync[t].at = "idle" /\ Began(t, n, "list", Empty) /\ settled' = Unlisted /\ UNCHANGED <<store, served, content, uploaded>>
        /\ bundles' = [bundles EXCEPT ![n] = Unlisted] /\ recent' = {store[n]}
    BY <1>1 DEF BeginDeploy
  <2>3. bundles' \in [Namespaces -> Listing \cup {Unlisted}] BY <2>2, ContentFacts
  <2>4. store[n] \in recent' BY <2>2
  <2> QED BY <2>1, <2>2, <2>3, <2>4, BeganKeeps
<1>2. CASE BeginRound
  <2>1. TheRound \in Callers BY DEF Callers
  <2>2. /\ sync[TheRound].at = "idle" /\ settled' = Unlisted /\ UNCHANGED <<store, served, content, bundles, uploaded>>
        /\ recent' = (recent \cup {store[content], bundles[content]}) \ {Unlisted}
        /\ IF bundles[content] = Unlisted THEN Began(TheRound, content, "list", Empty)
           ELSE Began(TheRound, content, "live", bundles[content])
    BY <1>2 DEF BeginRound
  <2>3. /\ content \in Namespaces /\ store[content] \in Listing /\ bundles[content] \in Listing \cup {Unlisted}
        /\ bundles' \in [Namespaces -> Listing \cup {Unlisted}]
    BY <2>2, ContentFacts
  <2>4. CASE bundles[content] = Unlisted
    <3>1. Began(TheRound, content, "list", Empty) /\ store[content] \in recent' BY <2>2, <2>3, <2>4
    <3> QED BY <2>1, <2>2, <2>3, <3>1, BeganKeeps
  <2>5. CASE bundles[content] # Unlisted
    <3>1. Began(TheRound, content, "live", bundles[content]) /\ bundles[content] \in recent' /\ bundles[content] \in Listing BY <2>2, <2>3, <2>5
    <3> QED BY <2>1, <2>2, <2>3, <3>1, BeganKeeps
  <2> QED BY <2>4, <2>5
<1> QED BY <1>1, <1>2

LEMMA ListedKeeps == ASSUME ContentInv, NEW t \in Callers, Listed(t) PROVE ContentInv'
<1>1. sync[t].at = "list" /\ UNCHANGED <<store, served, uploaded, lost, recent>> BY DEF Listed
<1>2. sync[t] \in SyncRecord /\ settled = Unlisted /\ store[sync[t].ns] \in Listing /\ sync[t].ns \in Namespaces BY <1>1, ContentFacts, SyncFields
<1>3. CASE SyncFails(t) /\ UNCHANGED bundles BY <1>1, <1>3, ContentFacts, FailureKeeps
<1>4. CASE /\ bundles' = [bundles EXCEPT ![sync[t].ns] = store[sync[t].ns]]
           /\ sync' = [sync EXCEPT ![t].at = "live", ![t].want = store[sync[t].ns]]
           /\ UNCHANGED <<deploy, content, queued, settled>>
  <2> DEFINE s == [sync[t] EXCEPT !.at = "live", !.want = store[sync[t].ns]]
  <2>1. sync' = [sync EXCEPT ![t] = s]
    <3>1. sync \in [Callers -> SyncRecord] BY ContentFacts
    <3> QED BY <1>4, <3>1
  <2>2. s \in SyncRecord /\ s.at = "live" /\ s.want = store[sync[t].ns] /\ s.alone = sync[t].alone
    BY <1>2 DEF SyncRecord
  <2> HIDE DEF s
  <2>3. bundles' \in [Namespaces -> Listing \cup {Unlisted}] BY <1>2, <1>4, ContentFacts
  <2>4. s.alone => SyncIsRight(s, store, served', recent)
    <3>1. s.alone => SyncIsRight(sync[t], store, served, recent) BY <1>1, <2>2, ContentFacts
    <3>2. s.alone => s.want \in recent BY <1>1, <2>2, <3>1 DEF SyncIsRight
    <3> QED BY <2>2, <3>2 DEF SyncIsRight
  <2>5. served' \in Listing /\ content' \in Namespaces /\ settled' = Unlisted BY <1>1, <1>2, <1>4, ContentFacts
  <2> QED BY <1>1, <2>1, <2>2, <2>3, <2>4, <2>5, SyncGoesOn
<1> QED BY <1>1, <1>3, <1>4 DEF Listed

LEMMA BatchIsOfThem == ASSUME NEW differing \in SUBSET Paths PROVE Batch(differing) \subseteq differing /\ (Cardinality(differing \ Batch(differing)) = 0 => Batch(differing) = differing) /\ Cardinality(differing \ Batch(differing)) \in Nat
<1>1. Batch(differing) \subseteq differing BY DEF Batch
<1>2. differing \ Batch(differing) \in SUBSET Paths OBVIOUS
<1>3. IsFiniteSet(differing \ Batch(differing)) BY <1>2, ContentConstants, FS_Subset
<1>4. Cardinality(differing \ Batch(differing)) = 0 => differing \ Batch(differing) = {} BY <1>3, FS_EmptySet
<1> QED BY <1>1, <1>3, <1>4, FS_CardinalityType

LEMMA ComparedKeeps == ASSUME ContentInv, NEW t \in Callers, Compared(t) PROVE ContentInv'
<1> DEFINE want == sync[t].want
           differing == {p \in Present(want) : served[p] # want[p]}
           puts == Batch(differing)
           left == Cardinality(differing \ puts)
           deletes == IF left = 0 THEN Present(served) \ Present(want) ELSE {}
           at == IF puts # {} THEN "read" ELSE "apply"
           s == [sync[t] EXCEPT !.at = at, !.puts = puts, !.deletes = deletes, !.left = left]
<1>1. /\ sync[t].at = "live" /\ UNCHANGED <<store, served, content, deploy, bundles, queued, uploaded, lost, settled, recent>>
      /\ sync' = [sync EXCEPT ![t].at = at, ![t].puts = puts, ![t].deletes = deletes, ![t].left = left]
  BY DEF Compared
<1>2. sync \in [Callers -> SyncRecord] /\ sync[t] \in SyncRecord /\ settled = Unlisted /\ want \in Listing /\ served \in Listing
  BY <1>1, ContentFacts, SyncFields
<1>3. differing \in SUBSET Paths /\ differing \subseteq Present(want) /\ \A p \in Paths : p \in differing <=> want[p] # NoFile /\ served[p] # want[p]
  BY DEF Present
<1>4. deletes \in SUBSET Paths /\ (\A p \in deletes : want[p] = NoFile)
      /\ (left = 0 => \A p \in Paths : want[p] = NoFile /\ served[p] # NoFile => p \in deletes)
  BY DEF Present
<1> HIDE DEF differing
<1>5. puts \subseteq differing /\ left \in Nat /\ (left = 0 => puts = differing) BY <1>3, BatchIsOfThem
<1> HIDE DEF puts, left, deletes, want
<1>6. sync' = [sync EXCEPT ![t] = s] BY <1>1, <1>2
<1>7. s \in SyncRecord /\ s.at \in {"read", "apply"} /\ s.puts = puts /\ s.deletes = deletes /\ s.left = left /\ s.want = want /\ s.alone = sync[t].alone
  BY <1>2, <1>3, <1>4, <1>5 DEF SyncRecord, want
<1> HIDE DEF s, at
<1>8. s.alone => SyncIsRight(s, store, served', recent)
  <2>1. s.alone => sync[t].want \in recent BY <1>1, <1>7, ContentFacts DEF SyncIsRight
  <2>2. left = 0 => \A p \in Paths : p \in puts \cup deletes \/ served[p] = want[p] BY <1>3, <1>4, <1>5
  <2>3. puts \subseteq Present(want) BY <1>3, <1>5
  <2> QED BY <1>1, <1>4, <1>7, <2>1, <2>2, <2>3 DEF SyncIsRight, want
<1>9. /\ served' \in Listing /\ content' \in Namespaces /\ settled' = Unlisted
      /\ bundles' \in [Namespaces -> Listing \cup {Unlisted}]
  BY <1>1, <1>2, ContentFacts
<1> QED BY <1>1, <1>6, <1>7, <1>8, <1>9, SyncGoesOn

LEMMA BytesReadKeep == ASSUME ContentInv, NEW t \in Callers, ReadFiles(t) PROVE ContentInv'
<1> DEFINE s == [sync[t] EXCEPT !.at = "apply", !.data = store[sync[t].ns]]
<1>1. sync[t].at = "read" /\ UNCHANGED <<store, served, bundles, uploaded, lost, recent>> BY DEF ReadFiles
<1>2. sync \in [Callers -> SyncRecord] /\ sync[t] \in SyncRecord /\ settled = Unlisted /\ store[sync[t].ns] \in Listing
  BY <1>1, ContentFacts, SyncFields
<1>3. CASE SyncFails(t) BY <1>1, <1>3, ContentFacts, FailureKeeps
<1>4. CASE sync' = [sync EXCEPT ![t].at = "apply", ![t].data = store[sync[t].ns]] /\ UNCHANGED <<deploy, content, queued, settled>>
  <2>1. sync' = [sync EXCEPT ![t] = s] BY <1>2, <1>4
  <2>2. s \in SyncRecord /\ s.at = "apply" /\ s.puts = sync[t].puts /\ s.deletes = sync[t].deletes /\ s.left = sync[t].left
        /\ s.want = sync[t].want /\ s.alone = sync[t].alone
    BY <1>2 DEF SyncRecord
  <2> HIDE DEF s
  <2>3. s.alone => SyncIsRight(sync[t], store, served, recent) BY <1>1, <2>2, ContentFacts
  <2>4. s.alone => SyncIsRight(s, store, served', recent) BY <1>1, <2>2, <2>3 DEF SyncIsRight
  <2>5. /\ served' \in Listing /\ content' \in Namespaces /\ settled' = Unlisted
        /\ bundles' \in [Namespaces -> Listing \cup {Unlisted}]
    BY <1>1, <1>2, <1>4, ContentFacts
  <2> QED BY <1>1, <2>1, <2>2, <2>4, <2>5, SyncGoesOn
<1> QED BY <1>1, <1>3, <1>4 DEF ReadFiles

\* A file put is as the listing has it, and one deleted is not in it.
LEMMA FilesKeep == ASSUME ContentInv, NEW t \in Callers, PutFile(t) \/ DeleteFile(t) PROVE ContentInv'
<1>1. sync[t].at = "apply" /\ UNCHANGED <<store, bundles, uploaded, lost, recent>> BY DEF PutFile, DeleteFile
<1>2. sync \in [Callers -> SyncRecord] /\ sync[t] \in SyncRecord /\ settled = Unlisted BY <1>1, ContentFacts
<1>3. /\ sync[t].puts \in SUBSET Paths /\ sync[t].deletes \in SUBSET Paths /\ sync[t].want \in Listing /\ served \in Listing
      /\ sync[t].alone => SyncIsRight(sync[t], store, served, recent)
      /\ bundles' \in [Namespaces -> Listing \cup {Unlisted}]
  BY <1>1, <1>2, ContentFacts, SyncFields
<1>4. CASE PutFile(t)
  <2> DEFINE p == Min(sync[t].puts)
  <2>1. sync[t].puts # {} BY <1>4 DEF PutFile
  <2>2. p \in sync[t].puts /\ p \in Paths BY <1>3, <2>1, FirstPath
  <2>3. CASE served' = [served EXCEPT ![p] = NoFile] /\ SyncFails(t)
    <3>1. served' \in Listing BY <1>3, <2>2, <2>3 DEF Listing, File
    <3> QED BY <1>1, <2>3, <3>1, FailureKeeps
  <2>4. CASE /\ served' = [served EXCEPT ![p] = sync[t].want[p]]
             /\ sync' = [sync EXCEPT ![t].puts = @ \ {p}]
             /\ UNCHANGED <<deploy, content, queued, settled>>
    <3> HIDE DEF p
    <3> DEFINE s == [sync[t] EXCEPT !.puts = @ \ {p}]
    <3>1. sync' = [sync EXCEPT ![t] = s] BY <1>2, <2>4
    <3>2. s \in SyncRecord /\ s.at = "apply" /\ s.puts = sync[t].puts \ {p} /\ s.deletes = sync[t].deletes /\ s.left = sync[t].left
          /\ s.want = sync[t].want /\ s.alone = sync[t].alone
      BY <1>1, <1>2, <1>3 DEF SyncRecord
    <3> HIDE DEF s
    <3>3. served' \in Listing /\ served'[p] = sync[t].want[p] /\ \A q \in Paths \ {p} : served'[q] = served[q]
      BY <1>3, <2>2, <2>4 DEF Listing
    <3>4. s.alone => SyncIsRight(s, store, served', recent)
      <4> SUFFICES ASSUME s.alone PROVE SyncIsRight(s, store, served', recent) OBVIOUS
      <4>1. SyncIsRight(sync[t], store, served, recent) BY <1>3, <3>2
      <4>2. s.want \in recent /\ s.puts \subseteq Present(s.want) /\ \A q \in s.deletes : s.want[q] = NoFile
        BY <1>1, <3>2, <4>1 DEF SyncIsRight
      <4>3. s.left = 0 => \A q \in Paths : q \in s.puts \cup s.deletes \/ served'[q] = s.want[q]
        BY <1>1, <3>2, <3>3, <4>1 DEF SyncIsRight
      <4> QED BY <3>2, <4>2, <4>3 DEF SyncIsRight
    <3>5. content' \in Namespaces /\ settled' = Unlisted BY <1>2, <2>4, ContentFacts
    <3> QED BY <1>1, <1>3, <3>1, <3>2, <3>3, <3>4, <3>5, SyncGoesOn
  <2> QED BY <1>4, <2>3, <2>4 DEF PutFile
<1>5. CASE DeleteFile(t)
  <2> DEFINE p == Min(sync[t].deletes)
  <2>1. sync[t].deletes # {} /\ sync[t].puts = {} BY <1>5 DEF DeleteFile
  <2>2. p \in sync[t].deletes /\ p \in Paths BY <1>3, <2>1, FirstPath
  <2>3. /\ served' = [served EXCEPT ![p] = NoFile]
        /\ sync' = [sync EXCEPT ![t].deletes = @ \ {p}]
        /\ UNCHANGED <<content, settled>>
    BY <1>5 DEF DeleteFile
  <2> HIDE DEF p
  <2> DEFINE s == [sync[t] EXCEPT !.deletes = @ \ {p}]
  <2>4. sync' = [sync EXCEPT ![t] = s] BY <1>2, <2>3
  <2>5. s \in SyncRecord /\ s.at = "apply" /\ s.puts = sync[t].puts /\ s.deletes = sync[t].deletes \ {p} /\ s.left = sync[t].left
        /\ s.want = sync[t].want /\ s.alone = sync[t].alone
    BY <1>1, <1>2, <1>3 DEF SyncRecord
  <2> HIDE DEF s
  <2>6. served' \in Listing /\ served'[p] = NoFile /\ \A q \in Paths \ {p} : served'[q] = served[q]
    BY <1>3, <2>2, <2>3 DEF Listing, File
  <2>7. s.alone => SyncIsRight(s, store, served', recent)
    <3> SUFFICES ASSUME s.alone PROVE SyncIsRight(s, store, served', recent) OBVIOUS
    <3>1. SyncIsRight(sync[t], store, served, recent) BY <1>3, <2>5
    <3>2. s.want \in recent /\ s.puts \subseteq Present(s.want) /\ (\A q \in sync[t].deletes : s.want[q] = NoFile)
      BY <1>1, <2>5, <3>1 DEF SyncIsRight
    <3>3. served'[p] = s.want[p] BY <2>2, <2>6, <3>2
    <3>4. s.left = 0 => \A q \in Paths : q \in s.puts \cup s.deletes \/ served'[q] = s.want[q]
      BY <1>1, <2>5, <2>6, <3>1, <3>3 DEF SyncIsRight
    <3>5. \A q \in s.deletes : s.want[q] = NoFile BY <2>5, <3>2
    <3> QED BY <2>5, <3>2, <3>4, <3>5 DEF SyncIsRight
  <2>8. content' \in Namespaces /\ settled' = Unlisted BY <1>2, <2>3, ContentFacts
  <2> QED BY <1>1, <1>3, <2>4, <2>5, <2>6, <2>7, <2>8, SyncGoesOn
<1> QED BY <1>4, <1>5

\* One that was alone to its end serves what it settles.
LEMMA AppliedKeeps == ASSUME ContentInv, NEW t \in Callers, Applied(t) PROVE ContentInv'
<1>1. /\ sync[t].at = "apply" /\ sync[t].puts = {} /\ sync[t].deletes = {} /\ Ends(t)
      /\ UNCHANGED <<store, served, uploaded, lost, recent>>
  BY DEF Applied
<1>2. /\ sync[t] \in SyncRecord /\ sync[t].ns \in Namespaces /\ sync[t].want \in Listing /\ served \in Listing /\ content \in Namespaces
      /\ bundles \in [Namespaces -> Listing \cup {Unlisted}]
  BY ContentFacts, SyncFields
<1>3. /\ content' = (IF t \in Operators THEN sync[t].ns ELSE content)
      /\ deploy' = (IF sync[t].left > 0 THEN "running" ELSE "done")
      /\ settled' = (IF sync[t].left = 0 /\ sync[t].alone THEN sync[t].want ELSE Unlisted)
      /\ sync' = [sync EXCEPT ![t] = Idle]
  BY <1>1 DEF Ends, SyncEnds
<1>4. bundles' \in [Namespaces -> Listing \cup {Unlisted}]
  <2>1. bundles' = (IF sync[t].left = 0 THEN [bundles EXCEPT ![sync[t].ns] = Unlisted] ELSE bundles) BY <1>1 DEF Ends
  <2>2. CASE sync[t].left = 0 BY <1>2, <2>1, <2>2
  <2>3. CASE sync[t].left # 0 BY <1>2, <2>1, <2>3
  <2> QED BY <2>2, <2>3
<1>5. ASSUME settled' # Unlisted PROVE sync[t].alone /\ deploy' = "done" /\ served' = settled' /\ settled' \in recent
  <2>1. sync[t].left = 0 /\ sync[t].alone /\ settled' = sync[t].want BY <1>3, <1>5
  <2>2. SyncIsRight(sync[t], store, served, recent) BY <1>1, <2>1, ContentFacts
  <2>3. sync[t].want \in recent /\ \A p \in Paths : served[p] = sync[t].want[p] BY <1>1, <2>1, <2>2 DEF SyncIsRight
  <2>4. served = sync[t].want BY <1>2, <2>3 DEF Listing
  <2> QED BY <1>1, <1>3, <2>1, <2>3, <2>4
<1>6. content' \in Namespaces /\ served' \in Listing BY <1>1, <1>2, <1>3
<1> QED BY <1>1, <1>3, <1>4, <1>5, <1>6, ContentConstants, SyncGoesOn

LEMMA RefusedKeeps == ASSUME ContentInv, NEW t \in Callers, CallRefused(t) PROVE ContentInv'
<1>1. sync[t].at # "idle" /\ SyncFails(t) /\ UNCHANGED <<store, bundles, uploaded, recent>> BY DEF CallRefused, Busy
<1>2. sync[t].puts \in SUBSET Paths /\ sync[t].want \in Listing /\ served \in Listing BY ContentFacts, SyncFields
<1>3. served' \in Listing
  <2>1. CASE UNCHANGED served BY <1>2, <2>1
  <2>2. CASE /\ sync[t].puts # {}
             /\ \E f \in {NoFile} \cup ({sync[t].want[Min(sync[t].puts)]} \cap {sync[t].data[Min(sync[t].puts)]}) :
                  served' = [served EXCEPT ![Min(sync[t].puts)] = f]
    <3>1. PICK p \in Paths : \E f \in {NoFile, sync[t].want[p]} : served' = [served EXCEPT ![p] = f] BY <1>2, <2>2, FirstPath
    <3>2. \A f \in {NoFile, sync[t].want[p]} : f \in File BY <1>2 DEF Listing, File
    <3> QED BY <1>2, <3>1, <3>2 DEF Listing
  <2> QED BY <2>1, <2>2 DEF CallRefused
<1> QED BY <1>1, <1>3, FailureKeeps

LEMMA ContentKept == ASSUME ContentInv, [ContentNext]_contentVars PROVE ContentInv'
<1>1. CASE UNCHANGED contentVars BY <1>1 DEF contentVars, ContentInv, ContentOK, SyncIsRight
<1>2. CASE \E n \in Namespaces : SetContent(n) \/ ListingExpires(n) \/ \E p \in Paths : Upload(n, p) BY <1>2, BundlesKeep
<1>3. CASE \E t \in Operators, n \in Namespaces : BeginDeploy(t, n) BY <1>3, DeploysBegin
<1>4. CASE BeginRound BY <1>4, ContentConstants, DeploysBegin
<1>5. CASE \E t \in Callers : Listed(t) \/ Compared(t) \/ ReadFiles(t) \/ PutFile(t) \/ DeleteFile(t) \/ Applied(t) \/ CallRefused(t)
  BY <1>5, ListedKeeps, ComparedKeeps, BytesReadKeep, FilesKeep, AppliedKeeps, RefusedKeeps
<1>6. CASE UpgradeForgets BY <1>6, ContentConstants, BundlesKeep
<1> QED BY <1>1, <1>2, <1>3, <1>4, <1>5, <1>6 DEF ContentNext

\* A deploy that no other crossed and that is recorded as done serves, whole, a bundle as
\* the store held it since the deploy was asked for: whatever is uploaded between its
\* calls and its rounds, and however often it failed (content_deploy and deploy_round of
\* src/content.py, store.apply).
THEOREM DoneIsWhole == Spec => []DoneServesTheBundle
<1>1. Init => ContentInv
  <2>1. ContentInit => ContentOK
    <3> SUFFICES ASSUME ContentInit PROVE ContentOK OBVIOUS
    <3>1. store = [n \in Namespaces |-> [p \in Paths |-> <<n, 0>>]] BY DEF ContentInit
    <3>2. [n \in Namespaces |-> [p \in Paths |-> <<n, 0>>]] \in [Namespaces -> Listing] BY DEF Listing, File
    <3>3. store \in [Namespaces -> Listing] BY <3>1, <3>2
    <3>4. bundles \in [Namespaces -> Listing \cup {Unlisted}] /\ sync \in [Callers -> SyncRecord] BY ContentConstants DEF ContentInit
    <3>5. served \in Listing /\ content \in Namespaces /\ uploaded \in Nat BY ContentConstants DEF ContentInit
    <3> QED BY <3>3, <3>4, <3>5 DEF ContentOK
  <2>2. ContentInit => settled = Unlisted /\ \A t \in Callers : sync[t].at = "idle" BY ContentConstants DEF ContentInit
  <2> QED BY <2>1, <2>2 DEF Init, ContentInv
<1>2. ContentInv /\ [Next]_vars => ContentInv' BY ContentKept, PartsMoveApart
<1>3. ContentInv => DoneServesTheBundle BY DEF ContentInv, DoneServesTheBundle
<1> QED BY <1>1, <1>2, <1>3, PTL DEF Spec
-----------------------------------------------------------------------------
(* What `casals upgrade' reports *)

\* The calls a command makes.
CallRequest ==
  [op : {"authorize", "sync", "settle", "deploy", "copy"}] \cup [op : {"upgrade", "propose"}, of : Ship]
  \cup [op : {"file"}, kind : {"upgrade", "release"}, of : SUBSET Ship]

ProposalRecord == [of : Ship, status : {"pending", "executed", "failed", "rejected", "expired"}]
ActRecord ==
  [kind : {"upgrade", "release", "other"}, of : SUBSET Ship, status : {"open"} \cup TERMINAL, ends : SUBSET TERMINAL]
AfloatRecord ==
  [build : [Ship -> {"old", "new"}], ran : SUBSET Ship, catalog : BOOLEAN, proposals : Seq(ProposalRecord),
   acts : Seq(ActRecord), deploy : {"none", "running", "done", "failed"}, whose : {"ours", "theirs"},
   served : BOOLEAN, theirs : BOOLEAN, crossed : BOOLEAN]

\* What the IC holds: what runs the new module did run it, an action that is at an end has
\* had that end, a deploy of ours that is done was done.
AfloatOK(w) ==
  /\ w \in AfloatRecord
  /\ \A c \in Ship : w.build[c] = "new" => c \in w.ran
  /\ \A i \in DOMAIN w.acts : w.acts[i].status # "open" => w.acts[i].status \in w.acts[i].ends
  /\ w.deploy = "done" => w.served \/ w.whose = "theirs"

\* v comes after w: nothing of what was is undone, and an end that was had was had.
Onward(w, v) ==
  /\ w.ran \subseteq v.ran /\ (w.served => v.served) /\ (w.crossed => v.crossed)
  /\ \A i \in DOMAIN w.proposals : i \in DOMAIN v.proposals /\ v.proposals[i].of = w.proposals[i].of
  /\ \A i \in DOMAIN w.acts :
       /\ i \in DOMAIN v.acts /\ v.acts[i].of = w.acts[i].of
       /\ w.acts[i].ends \subseteq v.acts[i].ends

\* No other operator's deploy has begun from w to v, nor come to be the one on record but
\* of one that was under way.
Calm(w, v) ==
  /\ TheirsIsOut(v) => TheirsIsOut(w)
  /\ v.whose = "theirs" => w.whose = "theirs" \/ TheirsIsOut(w)
Further(w, v) == Onward(w, v) /\ Calm(w, v)

\* The deploys are as they were.
SameDeploys(w, v) ==
  v.deploy = w.deploy /\ v.whose = w.whose /\ v.served = w.served /\ v.theirs = w.theirs /\ v.crossed = w.crossed

\* What comes of a call, by what it asks.
AnswerOK(req, w, r) ==
  /\ AfloatOK(r.afloat) /\ Further(w, r.afloat) /\ r.ok \in BOOLEAN /\ r.n \in Nat
  /\ r.ok /\ req.op = "upgrade" => req.of \in r.afloat.ran
  /\ r.ok /\ req.op = "propose" => r.n \in DOMAIN r.afloat.proposals /\ r.afloat.proposals[r.n].of = req.of
  /\ r.ok /\ req.op = "file" => r.n \in DOMAIN r.afloat.acts /\ r.afloat.acts[r.n].of = req.of
  /\ r.ok /\ req.op \in {"deploy", "copy"} => r.afloat.whose # "theirs"

\* The rows a command prints; each is true of w.
ShipRow ==
  [result : {"none", "skipped", "upgraded", "failed", "deferred", "synced"}]
  \cup [result : {"upgraded", "pending", "failed"}, by : {"committee"}, n : Nat]
  \cup [result : {"pending"}, by : {"baton"}, n : Nat] \cup [result : {"ended"}, by : {"baton"}, n : Nat, status : TERMINAL]
ShipRowOK(w, c, row) ==
  /\ row \in ShipRow
  /\ row.result \in {"upgraded", "skipped"} => c \in w.ran
  /\ row.result = "pending" /\ row.by = "baton" => row.n \in DOMAIN w.acts /\ c \in w.acts[row.n].of
  /\ row.result = "pending" /\ row.by = "committee" => row.n \in DOMAIN w.proposals /\ w.proposals[row.n].of = c
  /\ row.result = "ended" => row.n \in DOMAIN w.acts /\ row.status \in w.acts[row.n].ends
  /\ row.result = "synced" => w.served \/ w.crossed

\* Where a command is.
OnWasm(at) == [at : at, kind : {"wasm"}, todo : Seq(Ship), batch : SUBSET Ship]
AwaitsOnWasm(at) == [at : at, req : CallRequest, tries : Nat, kind : {"wasm"}, todo : Seq(Ship), batch : SUBSET Ship]
Decision == [at : {"decided"}, kind : {"wasm"}, todo : Seq(Ship), batch : SUBSET Ship, n : Nat]
AwaitsOnRelease(at) == [at : at, req : CallRequest, tries : Nat, kind : {"release"}]
Polling == [at : {"poll"}, kind : {"release"}, n : Nat, seen : {"?", "open", "COMPLETE"}]
Settling == [at : {"settle"}, req : CallRequest, tries : Nat, kind : {"release"}, n : Nat]
AwaitsDeploy == [at : {"deploy"}, req : CallRequest, tries : Nat, kind : {"content"}]
ShipRecord ==
  {NoShip} \cup OnWasm({"next"}) \cup AwaitsOnWasm({"authorize", "upgrade", "propose", "batch"}) \cup Decision
  \cup AwaitsOnRelease({"sync", "authorize", "file"}) \cup [at : {"check"}, kind : {"release"}] \cup Polling \cup Settling
  \cup AwaitsDeploy \cup [at : {"status"}]

\* What a command that waits knows of what it waits for.
ShipOK(w, s) ==
  /\ s \in ShipRecord
  /\ s.at \in {"upgrade", "propose"} => s.req.op = s.at /\ s.todo # <<>> /\ s.req.of = Head(s.todo)
  /\ s.at = "decided" => s.todo # <<>> /\ s.n \in DOMAIN w.proposals /\ w.proposals[s.n].of = Head(s.todo)
  /\ s.at = "batch" => s.req.op = "file" /\ s.req.of = s.batch
  /\ s.at = "file" => s.req.op = "file"
  /\ s.at = "poll" => s.n \in DOMAIN w.acts /\ (s.seen = "COMPLETE" => "COMPLETE" \in w.acts[s.n].ends)
  /\ s.at = "settle" => s.n \in DOMAIN w.acts /\ "COMPLETE" \in w.acts[s.n].ends
  /\ s.at = "deploy" => s.req.op \in {"deploy", "copy"}
  /\ s.at \in {"deploy", "status"} => w.crossed \/ ~TheirsIsOut(w)
  /\ s.at = "status" => w.crossed \/ w.whose # "theirs"

\* The inductive invariant.
ShipInv ==
  /\ AfloatOK(afloat) /\ under \subseteq CallRequest /\ ShipOK(afloat, ship)
  /\ reports \in [Ship -> ShipRow] /\ \A c \in Ship : ShipRowOK(afloat, c, reports[c])

\* What was true of the IC stays true: of the rows ...
LEMMA RowsStay ==
  ASSUME NEW w, NEW v, Onward(w, v), NEW c, NEW row, ShipRowOK(w, c, row)
  PROVE  ShipRowOK(v, c, row)
BY DEF ShipRowOK, Onward

\* ... and of what a command waits for.
LEMMA ShipStays ==
  ASSUME NEW w, NEW v, Further(w, v), NEW s, ShipOK(w, s)
  PROVE  ShipOK(v, s)
<1>1. Onward(w, v) /\ Calm(w, v) BY DEF Further
<1>2. (s.at = "poll" /\ s.seen = "COMPLETE") \/ s.at = "settle" => "COMPLETE" \in v.acts[s.n].ends
  BY <1>1 DEF ShipOK, Onward
<1>3. s.at \in {"deploy", "status"} => v.crossed \/ ~TheirsIsOut(v) BY <1>1 DEF ShipOK, Onward, Calm
<1>4. s.at = "status" => v.crossed \/ v.whose # "theirs"
  <2> SUFFICES ASSUME s.at = "status", ~v.crossed PROVE v.whose # "theirs" OBVIOUS
  <2>1. ~w.crossed BY <1>1 DEF Onward
  <2>2. ~TheirsIsOut(w) /\ w.whose # "theirs" BY <2>1 DEF ShipOK
  <2> QED BY <1>1, <2>2 DEF Calm
<1> QED BY <1>1, <1>2, <1>3, <1>4 DEF ShipOK, Onward

\* Nothing happens to what is left as it is.
LEMMA FurtherSelf == ASSUME NEW w PROVE Further(w, w)
BY DEF Further, Onward, Calm

LEMMA SameIsCalm == ASSUME NEW w, NEW v, SameDeploys(w, v) PROVE Calm(w, v)
BY DEF SameDeploys, Calm, TheirsIsOut

\* What an upgrade leaves.
LEMMA RunningOK ==
  ASSUME NEW w, AfloatOK(w), NEW C \in SUBSET Ship
  PROVE  /\ AfloatOK(NowRunning(w, C)) /\ Further(w, NowRunning(w, C)) /\ C \subseteq NowRunning(w, C).ran
         /\ NowRunning(w, C).proposals = w.proposals /\ NowRunning(w, C).acts = w.acts
<1> DEFINE b == [c \in Ship |-> IF c \in C THEN "new" ELSE w.build[c]]
           v == [w EXCEPT !.build = b, !.ran = @ \cup C]
<1>1. w \in AfloatRecord BY DEF AfloatOK
<1>2. b \in [Ship -> {"old", "new"}] /\ \A c \in Ship : b[c] = "new" => c \in C \/ w.build[c] = "new"
  BY <1>1 DEF AfloatRecord, SameDeploys
<1> HIDE DEF b
<1>3. v \in AfloatRecord /\ v.build = b /\ v.ran = w.ran \cup C /\ v.proposals = w.proposals /\ v.acts = w.acts
      /\ SameDeploys(w, v)
  BY <1>1, <1>2 DEF AfloatRecord, SameDeploys
<1>4. v = NowRunning(w, C) BY DEF NowRunning, b
<1> HIDE DEF v
<1>5. AfloatOK(v) BY <1>2, <1>3 DEF AfloatOK, SameDeploys
<1>6. Further(w, v) BY <1>3, SameIsCalm DEF Further, Onward, SameDeploys
<1> QED BY <1>3, <1>4, <1>5, <1>6

\* One more proposal.
LEMMA ProposingOK ==
  ASSUME NEW w, AfloatOK(w), NEW p \in ProposalRecord
  PROVE  LET v == [w EXCEPT !.proposals = Append(@, p)] n == Len(w.proposals) + 1
         IN AfloatOK(v) /\ Further(w, v) /\ n \in DOMAIN v.proposals /\ v.proposals[n] = p /\ n \in Nat
<1>1. w \in AfloatRecord /\ w.proposals \in Seq(ProposalRecord) BY DEF AfloatOK, AfloatRecord
<1> DEFINE s == Append(w.proposals, p)
           v == [w EXCEPT !.proposals = s]
           n == Len(w.proposals) + 1
<1>2. /\ s \in Seq(ProposalRecord) /\ n \in DOMAIN s /\ s[n] = p /\ n \in Nat
      /\ \A i \in DOMAIN w.proposals : i \in DOMAIN s /\ s[i] = w.proposals[i]
  BY <1>1, OneMore
<1> HIDE DEF s, n
<1>3. /\ v \in AfloatRecord /\ v.build = w.build /\ v.ran = w.ran /\ v.proposals = s /\ v.acts = w.acts
      /\ SameDeploys(w, v)
  BY <1>1, <1>2 DEF AfloatRecord, SameDeploys
<1> HIDE DEF v
<1>4. AfloatOK(v) BY <1>3 DEF AfloatOK, SameDeploys
<1>5. Further(w, v) BY <1>2, <1>3, SameIsCalm DEF Further, Onward, SameDeploys
<1> QED BY <1>2, <1>3, <1>4, <1>5 DEF v, s, n

\* A proposal decided.
LEMMA ProposalEndsOK ==
  ASSUME NEW w, AfloatOK(w), NEW i \in DOMAIN w.proposals, NEW status \in {"executed", "failed", "rejected", "expired"}
  PROVE  LET v == [w EXCEPT !.proposals[i].status = status]
         IN AfloatOK(v) /\ Further(w, v) /\ w.proposals[i].of \in Ship
<1>1. w \in AfloatRecord /\ w.proposals \in Seq(ProposalRecord) BY DEF AfloatOK, AfloatRecord
<1>2. w.proposals[i] \in ProposalRecord BY <1>1
<1> DEFINE p == [w.proposals[i] EXCEPT !.status = status]
           s == [w.proposals EXCEPT ![i] = p]
           v == [w EXCEPT !.proposals = s]
<1>3. p \in ProposalRecord /\ p.of = w.proposals[i].of /\ w.proposals[i].of \in Ship BY <1>2 DEF ProposalRecord
<1>4. /\ s \in Seq(ProposalRecord) /\ DOMAIN s = DOMAIN w.proposals
      /\ \A j \in DOMAIN w.proposals : s[j] = IF j = i THEN p ELSE w.proposals[j]
  BY <1>1, <1>3, OneChanged
<1>5. [w EXCEPT !.proposals[i].status = status] = v OBVIOUS
<1> HIDE DEF s, p
<1>6. /\ v \in AfloatRecord /\ v.build = w.build /\ v.ran = w.ran /\ v.proposals = s /\ v.acts = w.acts
      /\ SameDeploys(w, v)
  BY <1>1, <1>4 DEF AfloatRecord, SameDeploys
<1> HIDE DEF v
<1>7. AfloatOK(v) BY <1>6 DEF AfloatOK, SameDeploys
<1>8. Further(w, v) BY <1>3, <1>4, <1>6, SameIsCalm DEF Further, Onward, SameDeploys
<1> QED BY <1>3, <1>5, <1>7, <1>8

\* One more action.
LEMMA FilingOK ==
  ASSUME NEW w, AfloatOK(w), NEW a \in ActRecord, a.status = "open"
  PROVE  LET v == [w EXCEPT !.acts = Append(@, a)] n == Len(v.acts)
         IN AfloatOK(v) /\ Further(w, v) /\ n \in DOMAIN v.acts /\ v.acts[n] = a /\ n \in Nat
<1>1. w \in AfloatRecord /\ w.acts \in Seq(ActRecord) BY DEF AfloatOK, AfloatRecord
<1> DEFINE s == Append(w.acts, a)
           v == [w EXCEPT !.acts = s]
           n == Len(w.acts) + 1
<1>2. /\ s \in Seq(ActRecord) /\ n \in DOMAIN s /\ s[n] = a /\ n \in Nat /\ n = Len(s)
      /\ \A i \in DOMAIN w.acts : i \in DOMAIN s /\ s[i] = w.acts[i]
      /\ \A i \in DOMAIN s : i = n \/ i \in DOMAIN w.acts
  BY <1>1, OneMore
<1> HIDE DEF s, n
<1>3. /\ v \in AfloatRecord /\ v.build = w.build /\ v.ran = w.ran /\ v.proposals = w.proposals /\ v.acts = s
      /\ SameDeploys(w, v)
  BY <1>1, <1>2 DEF AfloatRecord, SameDeploys
<1> HIDE DEF v
<1>4. AfloatOK(v) BY <1>2, <1>3 DEF AfloatOK, SameDeploys
<1>5. Further(w, v) BY <1>2, <1>3, SameIsCalm DEF Further, Onward, SameDeploys
<1> QED BY <1>2, <1>3, <1>4, <1>5 DEF v, s, n

\* An action ended.
LEMMA ActEndsOK ==
  ASSUME NEW w, AfloatOK(w), NEW i \in DOMAIN w.acts, w.acts[i].status = "open", NEW status \in TERMINAL
  PROVE  LET v == [w EXCEPT !.acts[i].status = status, !.acts[i].ends = @ \cup {status}]
         IN AfloatOK(v) /\ Further(w, v) /\ w.acts[i].of \in SUBSET Ship
<1>1. w \in AfloatRecord /\ w.acts \in Seq(ActRecord) BY DEF AfloatOK, AfloatRecord
<1>2. w.acts[i] \in ActRecord BY <1>1
<1> DEFINE a == [w.acts[i] EXCEPT !.status = status, !.ends = @ \cup {status}]
           s == [w.acts EXCEPT ![i] = a]
           v == [w EXCEPT !.acts = s]
<1>3. /\ a \in ActRecord /\ a.of = w.acts[i].of /\ w.acts[i].of \in SUBSET Ship
      /\ a.status = status /\ a.ends = w.acts[i].ends \cup {status}
  BY <1>2 DEF ActRecord
<1>4. /\ s \in Seq(ActRecord) /\ DOMAIN s = DOMAIN w.acts
      /\ \A j \in DOMAIN w.acts : s[j] = IF j = i THEN a ELSE w.acts[j]
  BY <1>1, <1>3, OneChanged
<1>5. [w EXCEPT !.acts[i].status = status, !.acts[i].ends = @ \cup {status}] = v BY <1>2 DEF ActRecord
<1> HIDE DEF s, a
<1>6. /\ v \in AfloatRecord /\ v.build = w.build /\ v.ran = w.ran /\ v.proposals = w.proposals /\ v.acts = s
      /\ SameDeploys(w, v)
  BY <1>1, <1>4 DEF AfloatRecord, SameDeploys
<1> HIDE DEF v
<1>7. AfloatOK(v) BY <1>3, <1>4, <1>6 DEF AfloatOK, SameDeploys
<1>8. Further(w, v) BY <1>3, <1>4, <1>6, SameIsCalm DEF Further, Onward, SameDeploys
<1> QED BY <1>3, <1>5, <1>7, <1>8

\* An action that was at an end is open again.
LEMMA ActReturnsOK ==
  ASSUME NEW w, AfloatOK(w), NEW i \in DOMAIN w.acts
  PROVE  LET v == [w EXCEPT !.acts[i].status = "open"] IN AfloatOK(v) /\ Further(w, v)
<1>1. w \in AfloatRecord /\ w.acts \in Seq(ActRecord) BY DEF AfloatOK, AfloatRecord
<1>2. w.acts[i] \in ActRecord BY <1>1
<1> DEFINE a == [w.acts[i] EXCEPT !.status = "open"]
           s == [w.acts EXCEPT ![i] = a]
           v == [w EXCEPT !.acts = s]
<1>3. a \in ActRecord /\ a.of = w.acts[i].of /\ a.status = "open" /\ a.ends = w.acts[i].ends BY <1>2 DEF ActRecord
<1>4. /\ s \in Seq(ActRecord) /\ DOMAIN s = DOMAIN w.acts
      /\ \A j \in DOMAIN w.acts : s[j] = IF j = i THEN a ELSE w.acts[j]
  BY <1>1, <1>3, OneChanged
<1>5. [w EXCEPT !.acts[i].status = "open"] = v OBVIOUS
<1> HIDE DEF s, a
<1>6. /\ v \in AfloatRecord /\ v.build = w.build /\ v.ran = w.ran /\ v.proposals = w.proposals /\ v.acts = s
      /\ SameDeploys(w, v)
  BY <1>1, <1>4 DEF AfloatRecord, SameDeploys
<1> HIDE DEF v
<1>7. AfloatOK(v) BY <1>3, <1>4, <1>6 DEF AfloatOK, SameDeploys
<1>8. Further(w, v) BY <1>3, <1>4, <1>6, SameIsCalm DEF Further, Onward, SameDeploys
<1> QED BY <1>5, <1>7, <1>8

\* A deploy's record, of ours or of theirs.
LEMMA DeployingOK ==
  ASSUME NEW w, AfloatOK(w), NEW whose \in {"ours", "theirs"}, whose = "theirs" => TheirsIsOut(w),
         NEW v \in {Running(w, whose), Deployed(w, whose)}
  PROVE  AfloatOK(v) /\ Further(w, v) /\ v.whose = whose /\ v \in AfloatRecord
<1>1. w \in AfloatRecord BY DEF AfloatOK
<1>2. /\ v \in AfloatRecord /\ v.build = w.build /\ v.ran = w.ran /\ v.proposals = w.proposals /\ v.acts = w.acts
      /\ v.whose = whose /\ v.theirs = w.theirs /\ v.crossed = w.crossed /\ (w.served => v.served)
      /\ (v.deploy = "done" => v.served \/ whose = "theirs")
  <2>1. CASE v = Running(w, whose) BY <1>1, <2>1 DEF AfloatRecord, Running
  <2>2. CASE v = Deployed(w, whose) BY <1>1, <2>2 DEF AfloatRecord, Deployed
  <2> QED BY <2>1, <2>2
<1>3. AfloatOK(v) BY <1>2 DEF AfloatOK
<1>4. TheirsIsOut(v) => TheirsIsOut(w) BY <1>2 DEF TheirsIsOut
<1> QED BY <1>2, <1>3, <1>4 DEF Further, Onward, Calm

\* What comes after what came after.
LEMMA FurtherOn ==
  ASSUME NEW u, NEW v, NEW w, Further(u, v), Further(v, w)
  PROVE  Further(u, w)
BY DEF Further, Onward, Calm

\* A call that is answered with an error, or has no effect here, leaves all as it was.
LEMMA FailsOK ==
  ASSUME AfloatOK(afloat), NEW req \in CallRequest
  PROVE  AnswerOK(req, afloat, Fails(afloat))
BY FurtherSelf DEF AnswerOK, Fails

\* Whatever comes of a call, carried out in time or late, is what AnswerOK says.
LEMMA OutcomesOK ==
  ASSUME AfloatOK(afloat), NEW req \in CallRequest, NEW r \in Outcomes(req)
  PROVE  AnswerOK(req, afloat, r)
<1>0. afloat \in AfloatRecord BY DEF AfloatOK
<1>1. CASE r = Fails(afloat) BY <1>1, FailsOK
<1>2. CASE req.op = "authorize" /\ r # Fails(afloat)
  <2> DEFINE v == [afloat EXCEPT !.catalog = TRUE]
  <2>1. r = Done(v) BY <1>2 DEF Outcomes, Authorized
  <2>2. /\ v \in AfloatRecord /\ v.build = afloat.build /\ v.ran = afloat.ran /\ v.proposals = afloat.proposals
        /\ v.acts = afloat.acts /\ SameDeploys(afloat, v)
    BY <1>0 DEF AfloatRecord, SameDeploys
  <2> HIDE DEF v
  <2>3. AfloatOK(v) /\ Further(afloat, v) BY <2>2, SameIsCalm DEF AfloatOK, Further, Onward, SameDeploys
  <2> QED BY <1>2, <2>1, <2>3 DEF AnswerOK, Done
<1>3. CASE req.op = "upgrade" /\ r # Fails(afloat)
  <2>1. req.of \in Ship BY <1>3 DEF CallRequest
  <2>2. r = Done(NowRunning(afloat, {req.of})) BY <1>3 DEF Outcomes, Upgraded
  <2>3. /\ AfloatOK(NowRunning(afloat, {req.of})) /\ Further(afloat, NowRunning(afloat, {req.of}))
        /\ {req.of} \subseteq NowRunning(afloat, {req.of}).ran
    BY <2>1, RunningOK
  <2> QED BY <1>3, <2>2, <2>3 DEF AnswerOK, Done
<1>4. CASE req.op = "propose" /\ r # Fails(afloat)
  <2>1. req.of \in Ship BY <1>4 DEF CallRequest
  <2>2. PICK s \in {"pending", "executed", "failed"} :
          r = [afloat |-> Decided([afloat EXCEPT !.proposals = Append(@, [of |-> req.of, status |-> s])], req.of, s),
               ok |-> TRUE, n |-> Len(afloat.proposals) + 1]
    BY <1>4 DEF Outcomes, Proposed
  <2> DEFINE p == [of |-> req.of, status |-> s]
             v == [afloat EXCEPT !.proposals = Append(@, p)]
             n == Len(afloat.proposals) + 1
  <2>3. p \in ProposalRecord BY <2>1 DEF ProposalRecord
  <2>4. AfloatOK(v) /\ Further(afloat, v) /\ n \in DOMAIN v.proposals /\ v.proposals[n] = p /\ n \in Nat
    BY <2>3, ProposingOK
  <2>5. r.afloat = Decided(v, req.of, s) /\ r.ok = TRUE /\ r.n = n /\ p.of = req.of BY <2>2
  <2> HIDE DEF v, p, n
  <2>6. AfloatOK(r.afloat) /\ Further(v, r.afloat) /\ r.afloat.proposals = v.proposals
    BY <2>1, <2>4, <2>5, RunningOK, FurtherSelf DEF Decided
  <2>7. Further(afloat, r.afloat) BY <2>4, <2>6, FurtherOn
  <2> QED BY <1>4, <2>4, <2>5, <2>6, <2>7 DEF AnswerOK
<1>5. CASE req.op = "file" /\ r # Fails(afloat)
  <2>1. req.of \in SUBSET Ship /\ req.kind \in {"upgrade", "release"} BY <1>5 DEF CallRequest
  <2> DEFINE a == [kind |-> req.kind, of |-> req.of, status |-> "open", ends |-> {}]
             v == [afloat EXCEPT !.acts = Append(@, a)]
             n == Len(v.acts)
  <2>2. r \in {Fails(v), [Done(v) EXCEPT !.n = n]} BY <1>5 DEF Outcomes, FiledActs
  <2>3. a \in ActRecord /\ a.of = req.of BY <2>1 DEF ActRecord
  <2>4. AfloatOK(v) /\ Further(afloat, v) /\ n \in DOMAIN v.acts /\ v.acts[n] = a /\ n \in Nat BY <2>3, FilingOK
  <2> HIDE DEF v, a, n
  <2>5. r.afloat = v /\ r.ok \in BOOLEAN /\ r.n \in Nat /\ (r.ok => r.n = n)
    <3>1. CASE r = Fails(v) BY <3>1 DEF Fails
    <3>2. CASE r = [Done(v) EXCEPT !.n = n]
      <4>1. r = [afloat |-> v, ok |-> TRUE, n |-> n] BY <3>2 DEF Done
      <4> QED BY <2>4, <4>1
    <3> QED BY <2>2, <3>1, <3>2
  <2> QED BY <1>5, <2>3, <2>4, <2>5 DEF AnswerOK
<1>6. CASE req.op \in {"deploy", "copy"} /\ r # Fails(afloat)
  <2>1. PICK v \in {Running(afloat, "ours"), Deployed(afloat, "ours")} : r = Done(v)
    BY <1>6 DEF Outcomes, BundleSynced
  <2>2. AfloatOK(v) /\ Further(afloat, v) /\ v.whose = "ours" BY DeployingOK
  <2> QED BY <1>6, <2>1, <2>2 DEF AnswerOK, Done
<1>7. CASE req.op \in {"sync", "settle"} /\ r # Fails(afloat)
  <2>1. r = Done(afloat) BY <1>7 DEF Outcomes
  <2> QED BY <1>7, <2>1, FurtherSelf DEF AnswerOK, Done
<1>8. req.op \in {"authorize", "sync", "settle", "deploy", "copy", "upgrade", "propose", "file"} BY DEF CallRequest
<1> QED BY <1>1, <1>2, <1>3, <1>4, <1>5, <1>6, <1>7, <1>8

-----------------------------------------------------------------------------
\* A step that only moves what the IC holds on.
LEMMA OthersKeepReports ==
  ASSUME ShipInv, AfloatOK(afloat'), Further(afloat, afloat'), under' \subseteq CallRequest,
         UNCHANGED <<ship, reports>>
  PROVE  ShipInv'
<1>1. PICK w, v, s : w = afloat /\ v = afloat' /\ s = ship OBVIOUS
<1>2. ShipOK(v, s) BY <1>1, ShipStays DEF ShipInv
<1>3. \A c \in Ship : ShipRowOK(v, c, reports[c]) BY <1>1, RowsStay DEF ShipInv, Further
<1>4. ship' = s /\ reports' = reports /\ afloat' = v BY <1>1
<1> QED BY <1>1, <1>2, <1>3, <1>4 DEF ShipInv

\* A step of the command: the row of one canister, or none, and where it goes on.
LEMMA ShipGoesOn ==
  ASSUME ShipInv, AfloatOK(afloat'), Further(afloat, afloat'), under' \subseteq CallRequest,
         NEW s, ship' = s, ShipOK(afloat', s), reports' \in [Ship -> ShipRow],
         \A c \in Ship : reports'[c] = reports[c] \/ ShipRowOK(afloat', c, reports'[c])
  PROVE  ShipInv'
<1>1. PICK w, v, rows : w = afloat /\ v = afloat' /\ rows = reports' OBVIOUS
<1>2. \A c \in Ship : ShipRowOK(v, c, rows[c])
  <2> SUFFICES ASSUME NEW c \in Ship, rows[c] = reports[c] PROVE ShipRowOK(v, c, rows[c]) BY <1>1
  <2> QED BY <1>1, RowsStay DEF ShipInv, Further
<1>3. ship' = s /\ reports' = rows /\ afloat' = v BY <1>1
<1> QED BY <1>1, <1>2, <1>3 DEF ShipInv

\* The row of c, if c is a canister of the fleet.
LEMMA OneRow ==
  ASSUME ShipInv, NEW c, NEW row, row \in ShipRow, Reports(c, row), ShipRowOK(afloat', c, row)
  PROVE  /\ reports' \in [Ship -> ShipRow]
         /\ \A d \in Ship : reports'[d] = reports[d] \/ ShipRowOK(afloat', d, reports'[d])
<1>1. reports \in [Ship -> ShipRow] /\ reports' = [reports EXCEPT ![c] = row] BY DEF ShipInv, Reports
<1>2. \A d \in Ship : reports'[d] = IF d = c THEN row ELSE reports[d] BY <1>1
<1> QED BY <1>1, <1>2

\* The answer of the call that the command waits for.
LEMMA AnswersOK ==
  ASSUME ShipInv, NEW r \in Outcomes(ship.req), ship.at \notin {"idle", "next", "decided", "check", "poll", "status"}
  PROVE  AnswerOK(ship.req, afloat, r)
<1>1. ship.req \in CallRequest
  BY DEF ShipInv, ShipOK, ShipRecord, NoShip, OnWasm, AwaitsOnWasm, Decision, AwaitsOnRelease, Polling, Settling, AwaitsDeploy
<1> QED BY <1>1, OutcomesOK DEF ShipInv

\* The fields of a record and of what is joined to it.
LEMMA ShipFields ==
  ASSUME ShipInv
  PROVE  /\ On("next") => ship \in OnWasm({"next"})
         /\ ship.at \in {"upgrade", "propose", "batch"} => ship \in AwaitsOnWasm({ship.at})
         /\ On("decided") => ship \in Decision
         /\ On("authorize") /\ ship.kind = "wasm" => ship \in AwaitsOnWasm({"authorize"})
         /\ On("authorize") /\ ship.kind = "release" => ship \in AwaitsOnRelease({"authorize"})
         /\ On("sync") => ship \in AwaitsOnRelease({"sync"})
         /\ On("file") => ship \in AwaitsOnRelease({"file"})
         /\ On("check") => ship \in [at : {"check"}, kind : {"release"}]
         /\ On("poll") => ship \in Polling
         /\ On("settle") => ship \in Settling
         /\ On("deploy") => ship \in AwaitsDeploy
BY DEF ShipInv, ShipOK, ShipRecord, NoShip, OnWasm, AwaitsOnWasm, Decision, AwaitsOnRelease, Polling, Settling, AwaitsDeploy, On

-----------------------------------------------------------------------------
\* What a joined record is: a call sent ...
LEMMA SentOnWasm ==
  ASSUME ShipInv, On("next"), NEW at, NEW req, Sends(at, req, Rest)
  PROVE  ship' = [at |-> at, req |-> req, tries |-> 1, kind |-> "wasm", todo |-> ship.todo, batch |-> ship.batch]
         /\ ship.todo \in Seq(Ship) /\ ship.batch \in SUBSET Ship
<1>1. ship \in OnWasm({"next"}) BY ShipFields
<1>2. DOMAIN ship = {"at", "kind", "todo", "batch"} /\ ship.kind = "wasm" /\ ship.todo \in Seq(Ship) /\ ship.batch \in SUBSET Ship
  BY <1>1 DEF OnWasm
<1>3. Rest = [kind |-> "wasm", todo |-> ship.todo, batch |-> ship.batch] BY <1>2 DEF Rest
<1> QED BY <1>2, <1>3 DEF Sends, Joined

\* ... and answered.
LEMMA RestOnWasm ==
  ASSUME ShipInv, ship.at \in {"authorize", "upgrade", "propose", "batch"}, ship.kind = "wasm"
  PROVE  Rest = [kind |-> "wasm", todo |-> ship.todo, batch |-> ship.batch]
         /\ ship.todo \in Seq(Ship) /\ ship.batch \in SUBSET Ship
<1>1. ship \in AwaitsOnWasm({ship.at}) BY ShipFields DEF On
<1>2. DOMAIN ship = {"at", "req", "tries", "kind", "todo", "batch"} /\ ship.todo \in Seq(Ship) /\ ship.batch \in SUBSET Ship
  BY <1>1 DEF AwaitsOnWasm
<1> QED BY <1>2 DEF Rest

LEMMA BeginWasmKeeps == ASSUME ShipInv, BeginWasm PROVE ShipInv'
<1>1. PICK S \in SUBSET Ship : Sends("authorize", Authorize, [todo |-> Having(Fleet, S), batch |-> {}, kind |-> "wasm"])
  BY DEF BeginWasm
<1> DEFINE todo == Having(Fleet, S)
           s == [at |-> "authorize", req |-> Authorize, tries |-> 1, kind |-> "wasm", todo |-> todo, batch |-> {}]
<1>2. todo \in Seq(Ship) BY FleetAssumption, HavingAre
<1> HIDE DEF todo
<1>3. ship' = s BY <1>1 DEF Sends, Joined, todo
<1>4. s \in AwaitsOnWasm({"authorize"}) /\ s.at = "authorize" BY <1>2 DEF AwaitsOnWasm, CallRequest, Authorize
<1> HIDE DEF s
<1>5. ShipOK(afloat, s) BY <1>4 DEF ShipOK, ShipRecord, AwaitsOnWasm
<1>6. afloat' = afloat /\ under' = under /\ reports' = [c \in Ship |-> NoReport] BY DEF BeginWasm, ShipBegins
<1>7. \A c \in Ship : reports'[c] = NoReport /\ NoReport \in ShipRow /\ ShipRowOK(afloat, c, NoReport)
  BY <1>6 DEF NoReport, ShipRow, ShipRowOK
<1>8. reports' \in [Ship -> ShipRow] BY <1>6, <1>7
<1> QED BY <1>3, <1>5, <1>6, <1>7, <1>8, FurtherSelf, ShipGoesOn DEF ShipInv

LEMMA WasmAuthorizedKeeps == ASSUME ShipInv, WasmAuthorized PROVE ShipInv'
<1>1. PICK r \in Outcomes(ship.req) : afloat' = r.afloat /\ ship' = IF r.ok THEN Joined(Rest, [at |-> "next"]) ELSE NoShip
  BY DEF WasmAuthorized, Answered
<1>2. On("authorize") /\ ship.kind = "wasm" /\ under' = under /\ reports' = reports BY DEF WasmAuthorized, Answered, ShipStep
<1>3. AnswerOK(ship.req, afloat, r) BY <1>1, <1>2, AnswersOK DEF On
<1> DEFINE s == IF r.ok THEN [at |-> "next", kind |-> "wasm", todo |-> ship.todo, batch |-> ship.batch] ELSE NoShip
<1>4. ship.todo \in Seq(Ship) /\ ship.batch \in SUBSET Ship
      /\ Rest = [kind |-> "wasm", todo |-> ship.todo, batch |-> ship.batch]
  BY <1>2, RestOnWasm DEF On
<1>5. ship' = s BY <1>1, <1>4 DEF Joined
<1>6. s \in OnWasm({"next"}) \cup {NoShip} /\ s.at \in {"next", "idle"} BY <1>4 DEF OnWasm, NoShip
<1> HIDE DEF s
<1>7. ShipOK(afloat', s) BY <1>6 DEF ShipOK, ShipRecord
<1>8. AfloatOK(afloat') /\ Further(afloat, afloat') BY <1>1, <1>3 DEF AnswerOK
<1> QED BY <1>2, <1>5, <1>7, <1>8, ShipGoesOn DEF ShipInv

\* The command goes on with the next canister.
LEMMA LaterKeeps ==
  ASSUME ShipInv, ship.kind = "wasm", ship.at \in {"next", "upgrade", "propose", "decided"}, ship.todo # <<>>,
         NEW batch \in SUBSET Ship, ship' = Later(batch),
         AfloatOK(afloat'), Further(afloat, afloat'), under' \subseteq CallRequest,
         \/ reports' = reports
         \/ \E row \in ShipRow : Reports(Turn, row) /\ ShipRowOK(afloat', Turn, row)
  PROVE  ShipInv'
<1> DEFINE s == Later(batch)
<1>1. ship.todo \in Seq(Ship)
  BY ShipFields DEF On, OnWasm, AwaitsOnWasm, Decision
<1>2. Tail(ship.todo) \in Seq(Ship) BY <1>1, HeadAndTail
<1>3. s \in OnWasm({"next"}) /\ s.at = "next" BY <1>2 DEF OnWasm, Later
<1>4. ship' = s OBVIOUS
<1> HIDE DEF s
<1>5. ShipOK(afloat', s) BY <1>3 DEF ShipOK, ShipRecord
<1>6. /\ reports' \in [Ship -> ShipRow]
      /\ \A c \in Ship : reports'[c] = reports[c] \/ ShipRowOK(afloat', c, reports'[c])
  <2>1. CASE reports' = reports BY <2>1 DEF ShipInv
  <2>2. CASE \E row \in ShipRow : Reports(Turn, row) /\ ShipRowOK(afloat', Turn, row)
    <3>1. PICK row \in ShipRow : Reports(Turn, row) /\ ShipRowOK(afloat', Turn, row) BY <2>2
    <3>2. PICK c : c = Turn OBVIOUS
    <3> QED BY <3>1, <3>2, OneRow
  <2> QED BY <2>1, <2>2
<1> QED BY <1>4, <1>5, <1>6, ShipGoesOn

\* The command asks for something about the canister whose turn it is.
LEMMA AsksKeep ==
  ASSUME ShipInv, On("next"), ship.todo # <<>>, UNCHANGED <<afloat, under, reports>>,
         NEW at \in {"upgrade", "propose"}, Sends(at, [op |-> at, of |-> Turn], Rest)
  PROVE  ShipInv'
<1> DEFINE req == [op |-> at, of |-> Turn]
           s == [at |-> at, req |-> req, tries |-> 1, kind |-> "wasm", todo |-> ship.todo, batch |-> ship.batch]
<1>1. ship' = s /\ ship.todo \in Seq(Ship) /\ ship.batch \in SUBSET Ship BY SentOnWasm
<1>2. Turn \in Ship /\ Turn = Head(ship.todo) BY <1>1, HeadAndTail DEF Turn
<1>3. req \in CallRequest /\ req.op = at /\ req.of = Head(ship.todo) BY <1>2 DEF CallRequest
<1> HIDE DEF req
<1>4. /\ s \in AwaitsOnWasm({"upgrade", "propose"}) /\ s.at = at /\ s.req = req /\ s.todo = ship.todo
  BY <1>1, <1>3 DEF AwaitsOnWasm
<1>5. AwaitsOnWasm({"upgrade", "propose"}) \subseteq ShipRecord BY DEF AwaitsOnWasm, ShipRecord
<1> HIDE DEF s
<1>6. ShipOK(afloat, s) BY <1>3, <1>4, <1>5 DEF ShipOK
<1> QED BY <1>1, <1>6, FurtherSelf, ShipGoesOn DEF ShipInv

LEMMA ShipWasmKeeps == ASSUME ShipInv, ShipWasm PROVE ShipInv'
<1>1. On("next") /\ ship.todo # <<>> /\ UNCHANGED <<afloat, under>> BY DEF ShipWasm
<1>2. ship.kind = "wasm" /\ ship.todo \in Seq(Ship) /\ ship.batch \in SUBSET Ship BY <1>1, ShipFields DEF OnWasm
<1>3. Turn \in Ship BY <1>1, <1>2, HeadAndTail DEF Turn
<1>4. CASE afloat.build[Turn] = "new" /\ Reports(Turn, [result |-> "skipped"]) /\ ship' = Later(ship.batch)
  <2>1. [result |-> "skipped"] \in ShipRow /\ ShipRowOK(afloat, Turn, [result |-> "skipped"])
    BY <1>3, <1>4 DEF ShipInv, AfloatOK, ShipRow, ShipRowOK
  <2> QED BY <1>1, <1>2, <1>4, <2>1, LaterKeeps, FurtherSelf DEF ShipInv, On
<1>5. CASE Sends("upgrade", [op |-> "upgrade", of |-> Turn], Rest) /\ reports' = reports BY <1>1, <1>5, AsksKeep
<1>6. CASE Sends("propose", [op |-> "propose", of |-> Turn], Rest) /\ reports' = reports BY <1>1, <1>6, AsksKeep
<1>7. CASE ship' = Later(ship.batch \cup {Turn}) /\ reports' = reports
  BY <1>1, <1>2, <1>3, <1>7, LaterKeeps, FurtherSelf DEF ShipInv, On
<1> QED BY <1>4, <1>5, <1>6, <1>7 DEF ShipWasm

\* Where the command waits for one canister.
LEMMA AwaitsTurn ==
  ASSUME ShipInv, ship.at \in {"upgrade", "propose"}
  PROVE  /\ ship.req.op = ship.at /\ ship.todo # <<>> /\ ship.req.of = Turn /\ Turn \in Ship
         /\ ship.kind = "wasm" /\ ship.todo \in Seq(Ship) /\ ship.batch \in SUBSET Ship
<1>1. ship.kind = "wasm" /\ ship.todo \in Seq(Ship) /\ ship.batch \in SUBSET Ship
  BY ShipFields DEF On, AwaitsOnWasm
<1>2. ship.req.op = ship.at /\ ship.todo # <<>> /\ ship.req.of = Turn BY DEF ShipInv, ShipOK, Turn
<1> QED BY <1>1, <1>2, HeadAndTail DEF Turn

LEMMA UpgradeAnsweredKeeps == ASSUME ShipInv, UpgradeAnswered PROVE ShipInv'
<1>1. PICK r \in Outcomes(ship.req) : /\ afloat' = r.afloat /\ ship' = Later(ship.batch)
                                      /\ Reports(Turn, [result |-> IF r.ok THEN "upgraded" ELSE "failed"])
  BY DEF UpgradeAnswered, Answered
<1>2. ship.at = "upgrade" /\ under' = under BY DEF UpgradeAnswered, Answered, ShipStep, On
<1>3. AnswerOK(ship.req, afloat, r) BY <1>1, <1>2, AnswersOK
<1> DEFINE row == [result |-> IF r.ok THEN "upgraded" ELSE "failed"]
<1>4. row \in ShipRow /\ ShipRowOK(afloat', Turn, row)
  BY <1>1, <1>2, <1>3, AwaitsTurn DEF ShipRow, ShipRowOK, AnswerOK
<1>5. AfloatOK(afloat') /\ Further(afloat, afloat') BY <1>1, <1>3 DEF AnswerOK
<1>6. \E x \in ShipRow : Reports(Turn, x) /\ ShipRowOK(afloat', Turn, x) BY <1>1, <1>4
<1> QED BY <1>1, <1>2, <1>5, <1>6, AwaitsTurn, LaterKeeps DEF ShipInv

LEMMA ProposeAnsweredKeeps == ASSUME ShipInv, ProposeAnswered PROVE ShipInv'
<1>1. PICK r \in Outcomes(ship.req) :
        /\ afloat' = r.afloat
        /\ \/ r.ok /\ ship' = Joined(Rest, [at |-> "decided", n |-> r.n]) /\ UNCHANGED reports
           \/ ~r.ok /\ Reports(Turn, [result |-> "failed"]) /\ ship' = Later(ship.batch)
  BY DEF ProposeAnswered, Answered
<1>2. ship.at = "propose" /\ under' = under BY DEF ProposeAnswered, Answered, ShipStep, On
<1>3. AnswerOK(ship.req, afloat, r) BY <1>1, <1>2, AnswersOK
<1>4. AfloatOK(afloat') /\ Further(afloat, afloat') BY <1>1, <1>3 DEF AnswerOK
<1>5. CASE r.ok /\ ship' = Joined(Rest, [at |-> "decided", n |-> r.n]) /\ UNCHANGED reports
  <2> DEFINE s == [at |-> "decided", kind |-> "wasm", todo |-> ship.todo, batch |-> ship.batch, n |-> r.n]
  <2>1. Rest = [kind |-> "wasm", todo |-> ship.todo, batch |-> ship.batch] BY <1>2, AwaitsTurn, RestOnWasm
  <2>2. ship' = s BY <1>5, <2>1 DEF Joined
  <2>3. s \in Decision /\ s.at = "decided" /\ s.n = r.n /\ s.todo = ship.todo
    BY <1>2, <1>3, AwaitsTurn DEF Decision, AnswerOK
  <2> HIDE DEF s
  <2>4. ship.todo # <<>> /\ r.n \in DOMAIN afloat'.proposals /\ afloat'.proposals[r.n].of = Head(ship.todo)
    BY <1>1, <1>2, <1>3, <1>5, AwaitsTurn DEF AnswerOK, Turn
  <2>5. ShipOK(afloat', s) BY <2>3, <2>4 DEF ShipOK, ShipRecord
  <2> QED BY <1>2, <1>4, <1>5, <2>2, <2>5, ShipGoesOn DEF ShipInv
<1>6. CASE Reports(Turn, [result |-> "failed"]) /\ ship' = Later(ship.batch)
  <2>1. [result |-> "failed"] \in ShipRow /\ ShipRowOK(afloat', Turn, [result |-> "failed"]) BY DEF ShipRow, ShipRowOK
  <2>2. \E x \in ShipRow : Reports(Turn, x) /\ ShipRowOK(afloat', Turn, x) BY <1>6, <2>1
  <2> QED BY <1>2, <1>4, <1>6, <2>2, AwaitsTurn, LaterKeeps DEF ShipInv
<1> QED BY <1>1, <1>5, <1>6

LEMMA ReadDecisionKeeps == ASSUME ShipInv, ReadDecision PROVE ShipInv'
<1>1. ship \in Decision /\ ship.at = "decided" BY ShipFields DEF ReadDecision, On
<1>2. /\ ship.kind = "wasm" /\ ship.todo \in Seq(Ship) /\ ship.batch \in SUBSET Ship /\ ship.n \in Nat
      /\ ship.todo # <<>> /\ ship.n \in DOMAIN afloat.proposals /\ afloat.proposals[ship.n].of = Turn
  BY <1>1 DEF ShipInv, ShipOK, Decision, Turn
<1>3. Turn \in Ship BY <1>2, HeadAndTail DEF Turn
<1> DEFINE told == CommitteeReport(afloat.proposals[ship.n].status, afloat.build[Turn])
           row == [result |-> told, by |-> "committee", n |-> ship.n]
<1>4. told \in {"upgraded", "pending", "failed"} /\ (told = "upgraded" => Turn \in afloat.ran)
  BY <1>3 DEF CommitteeReport, ShipInv, AfloatOK
<1>5. Reports(Turn, row) /\ ship' = Later(ship.batch) /\ afloat' = afloat /\ under' = under BY DEF ReadDecision, ShipStep
<1> HIDE DEF told
<1>6. row \in ShipRow BY <1>2, <1>4 DEF ShipRow
<1>7. ShipRowOK(afloat, Turn, row) BY <1>2, <1>4, <1>6 DEF ShipRowOK
<1>8. \E x \in ShipRow : Reports(Turn, x) /\ ShipRowOK(afloat', Turn, x) BY <1>5, <1>6, <1>7
<1> QED BY <1>1, <1>2, <1>5, <1>8, FurtherSelf, LaterKeeps DEF ShipInv

LEMMA ProposeBatchKeeps == ASSUME ShipInv, ProposeBatch PROVE ShipInv'
<1>1. On("next") /\ UNCHANGED <<afloat, under, reports>> BY DEF ProposeBatch, ShipStep
<1>2. CASE ship' = NoShip BY <1>1, <1>2, FurtherSelf, ShipGoesOn DEF ShipInv, ShipOK, ShipRecord, NoShip
<1>3. CASE Sends("batch", [op |-> "file", kind |-> "upgrade", of |-> ship.batch], Rest)
  <2> DEFINE req == [op |-> "file", kind |-> "upgrade", of |-> ship.batch]
             s == [at |-> "batch", req |-> req, tries |-> 1, kind |-> "wasm", todo |-> ship.todo, batch |-> ship.batch]
  <2>1. ship' = s /\ ship.todo \in Seq(Ship) /\ ship.batch \in SUBSET Ship BY <1>1, <1>3, SentOnWasm
  <2>2. req \in CallRequest /\ req.op = "file" /\ req.of = ship.batch BY <2>1 DEF CallRequest
  <2> HIDE DEF req
  <2>3. s \in AwaitsOnWasm({"authorize", "upgrade", "propose", "batch"}) /\ s.at = "batch" /\ s.req = req /\ s.batch = ship.batch
    BY <2>1, <2>2 DEF AwaitsOnWasm
  <2> HIDE DEF s
  <2>4. ShipOK(afloat, s) BY <2>2, <2>3 DEF ShipOK, ShipRecord
  <2> QED BY <1>1, <2>1, <2>4, FurtherSelf, ShipGoesOn DEF ShipInv
<1> QED BY <1>2, <1>3 DEF ProposeBatch

LEMMA BatchAnsweredKeeps == ASSUME ShipInv, BatchAnswered PROVE ShipInv'
<1>1. PICK r \in Outcomes(ship.req) :
        /\ afloat' = r.afloat /\ ship' = NoShip
        /\ reports' = [c \in Ship |->
             IF c \notin ship.batch THEN reports[c]
             ELSE IF r.ok THEN [result |-> "pending", by |-> "baton", n |-> r.n]
             ELSE [result |-> IF BatonBusy THEN "deferred" ELSE "failed"]]
  BY DEF BatchAnswered, Answered
<1>2. ship.at = "batch" /\ under' = under BY DEF BatchAnswered, Answered, ShipStep, On
<1>3. AnswerOK(ship.req, afloat, r) /\ ship.req.op = "file" /\ ship.req.of = ship.batch
  BY <1>1, <1>2, AnswersOK DEF ShipInv, ShipOK
<1>4. ASSUME NEW c \in Ship
      PROVE  reports'[c] \in ShipRow /\ (reports'[c] = reports[c] \/ ShipRowOK(afloat', c, reports'[c]))
  <2>1. CASE c \notin ship.batch BY <1>1, <2>1 DEF ShipInv
  <2>2. CASE c \in ship.batch /\ r.ok
    <3>1. reports'[c] = [result |-> "pending", by |-> "baton", n |-> r.n] BY <1>1, <2>2
    <3>2. r.n \in Nat /\ r.n \in DOMAIN afloat'.acts /\ afloat'.acts[r.n].of = ship.batch BY <1>1, <1>3, <2>2 DEF AnswerOK
    <3> QED BY <2>2, <3>1, <3>2 DEF ShipRow, ShipRowOK
  <2>3. CASE c \in ship.batch /\ ~r.ok
    <3>1. reports'[c] \in {[result |-> "deferred"], [result |-> "failed"]} BY <1>1, <2>3
    <3> QED BY <3>1 DEF ShipRow, ShipRowOK
  <2> QED BY <2>1, <2>2, <2>3
<1>5. reports' \in [Ship -> ShipRow]
  <2>1. DOMAIN reports' = Ship /\ reports' = [c \in DOMAIN reports' |-> reports'[c]] BY <1>1
  <2> QED BY <1>4, <2>1
<1>6. AfloatOK(afloat') /\ Further(afloat, afloat') BY <1>1, <1>3 DEF AnswerOK
<1>7. ShipOK(afloat', NoShip) BY DEF ShipOK, ShipRecord, NoShip
<1> QED BY <1>1, <1>2, <1>4, <1>5, <1>6, <1>7, ShipGoesOn DEF ShipInv

-----------------------------------------------------------------------------
\* A call that a release, its sync or a deploy makes.
LEMMA SentOnRelease ==
  ASSUME NEW at \in {"sync", "authorize", "file"}, NEW req \in CallRequest, at = "file" => req.op = "file",
         NEW s, s = [at |-> at, req |-> req, tries |-> 1, kind |-> "release"], NEW w
  PROVE  ShipOK(w, s)
<1>1. s \in AwaitsOnRelease({"sync", "authorize", "file"}) /\ s.at = at /\ s.req = req BY DEF AwaitsOnRelease
<1> QED BY <1>1 DEF ShipOK, ShipRecord

\* What a command that has just begun has printed.
LEMMA BegunKeeps ==
  ASSUME ShipInv, ShipBegins, AfloatOK(afloat'), Further(afloat, afloat'), NEW s, ship' = s, ShipOK(afloat', s)
  PROVE  ShipInv'
<1>1. under' = under /\ reports' = [c \in Ship |-> NoReport] BY DEF ShipBegins
<1>2. NoReport \in ShipRow /\ \A c \in Ship : reports'[c] = NoReport /\ ShipRowOK(afloat', c, NoReport)
  BY <1>1 DEF NoReport, ShipRow, ShipRowOK
<1>3. reports' \in [Ship -> ShipRow] BY <1>1, <1>2
<1> QED BY <1>1, <1>2, <1>3, ShipGoesOn DEF ShipInv

LEMMA BeginReleaseKeeps == ASSUME ShipInv, BeginRelease PROVE ShipInv'
<1> DEFINE req == [op |-> "sync"]
           s == [at |-> "sync", req |-> req, tries |-> 1, kind |-> "release"]
<1>1. ship' = s BY DEF BeginRelease, Sends, Joined
<1>2. req \in CallRequest BY DEF CallRequest
<1> HIDE DEF req
<1>3. ShipOK(afloat', s) /\ afloat' = afloat BY <1>2, SentOnRelease DEF BeginRelease
<1> QED BY <1>1, <1>3, BegunKeeps, FurtherSelf DEF BeginRelease, ShipInv

LEMMA BeginContentKeeps == ASSUME ShipInv, BeginContent PROVE ShipInv'
<1> DEFINE s == [at |-> "deploy", req |-> Deploy, tries |-> 1, kind |-> "content"]
           v == [afloat EXCEPT !.crossed = @ \/ TheirsIsOut(afloat)]
<1>1. ship' = s /\ afloat' = v BY DEF BeginContent, Sends, Joined
<1>2. AfloatOK(afloat) /\ afloat \in AfloatRecord BY DEF ShipInv, AfloatOK
<1>3. TheirsIsOut(afloat) \in BOOLEAN BY <1>2 DEF TheirsIsOut, AfloatRecord
<1>4. /\ v \in AfloatRecord /\ v.build = afloat.build /\ v.ran = afloat.ran /\ v.proposals = afloat.proposals
      /\ v.acts = afloat.acts /\ v.deploy = afloat.deploy /\ v.whose = afloat.whose /\ v.served = afloat.served
      /\ v.theirs = afloat.theirs /\ (v.crossed <=> afloat.crossed \/ TheirsIsOut(afloat))
  BY <1>2, <1>3 DEF AfloatRecord
<1> HIDE DEF v
<1>5. TheirsIsOut(v) <=> TheirsIsOut(afloat) BY <1>4 DEF TheirsIsOut
<1>6. AfloatOK(v) /\ Further(afloat, v) BY <1>2, <1>4, <1>5 DEF AfloatOK, Further, Onward, Calm
<1>7. s \in AwaitsDeploy /\ s.at = "deploy" /\ s.req.op = "deploy" BY DEF AwaitsDeploy, CallRequest, Deploy
<1> HIDE DEF s
<1>8. v.crossed \/ ~TheirsIsOut(v) BY <1>4, <1>5
<1>9. ShipOK(v, s) BY <1>7, <1>8 DEF ShipOK, ShipRecord
<1> QED BY <1>1, <1>6, <1>9, BegunKeeps DEF BeginContent

LEMMA NoneRunsKeeps == ASSUME ShipInv, NoneRuns PROVE ShipInv'
<1>1. UNCHANGED <<afloat, reports>> /\ Sync \in CallRequest /\ under \subseteq CallRequest
  BY DEF NoneRuns, ShipInv, CallRequest, Sync
<1>2. CASE On("deploy") /\ ship' = [ship EXCEPT !.req = Sync] /\ UNCHANGED under
  <2> DEFINE s == [ship EXCEPT !.req = Sync]
  <2>1. ship \in AwaitsDeploy BY <1>2, ShipFields
  <2>2. s \in AwaitsDeploy /\ s.at = "deploy" /\ s.req = Sync /\ ship.at = "deploy" BY <1>1, <1>2, <2>1 DEF AwaitsDeploy, On
  <2>3. ship' = s BY <1>2
  <2> HIDE DEF s
  <2>4. s.req.op = "copy" BY <2>2 DEF Sync
  <2>5. afloat.crossed \/ ~TheirsIsOut(afloat) BY <2>2 DEF ShipInv, ShipOK
  <2>6. ShipOK(afloat, s) BY <2>2, <2>4, <2>5 DEF ShipOK, ShipRecord
  <2> QED BY <1>1, <1>2, <2>3, <2>6, FurtherSelf, ShipGoesOn DEF ShipInv
<1>3. CASE under' = (under \ {Deploy}) \cup {Sync} /\ UNCHANGED ship
  <2>1. under' \subseteq CallRequest BY <1>1, <1>3
  <2> QED BY <1>1, <1>3, <2>1, FurtherSelf, OthersKeepReports DEF ShipInv
<1> QED BY <1>2, <1>3 DEF NoneRuns

LEMMA SyncAnsweredKeeps == ASSUME ShipInv, SyncAnswered PROVE ShipInv'
<1>1. PICK r \in Outcomes(ship.req) : afloat' = r.afloat /\ ship' = Joined(Rest, [at |-> "check"])
  BY DEF SyncAnswered, Answered
<1>2. On("sync") /\ under' = under /\ reports' = reports BY DEF SyncAnswered, Answered, ShipStep
<1>3. AnswerOK(ship.req, afloat, r) BY <1>1, <1>2, AnswersOK DEF On
<1>4. ship \in AwaitsOnRelease({"sync"}) BY <1>2, ShipFields
<1>5. Rest = [kind |-> "release"] BY <1>4 DEF AwaitsOnRelease, Rest
<1> DEFINE s == [at |-> "check", kind |-> "release"]
<1>6. ship' = s BY <1>1, <1>5 DEF Joined
<1>7. ShipOK(afloat', s) BY DEF ShipOK, ShipRecord
<1>8. AfloatOK(afloat') /\ Further(afloat, afloat') BY <1>1, <1>3 DEF AnswerOK
<1> QED BY <1>2, <1>6, <1>7, <1>8, ShipGoesOn DEF ShipInv

LEMMA CheckBatonKeeps == ASSUME ShipInv, CheckBaton PROVE ShipInv'
<1>1. On("check") /\ UNCHANGED <<afloat, reports, under>> BY DEF CheckBaton, ShipStep
<1>2. CASE ship' = NoShip BY <1>1, <1>2, FurtherSelf, ShipGoesOn DEF ShipInv, ShipOK, ShipRecord, NoShip
<1>3. CASE Sends("authorize", Authorize, Rest)
  <2>1. ship \in [at : {"check"}, kind : {"release"}] BY <1>1, ShipFields
  <2>2. Rest = [kind |-> "release"] BY <2>1 DEF Rest
  <2>3. ship' = [at |-> "authorize", req |-> Authorize, tries |-> 1, kind |-> "release"] BY <1>3, <2>2 DEF Sends, Joined
  <2>4. Authorize \in CallRequest BY DEF Authorize, CallRequest
  <2> QED BY <1>1, <2>3, <2>4, SentOnRelease, FurtherSelf, ShipGoesOn DEF ShipInv
<1> QED BY <1>2, <1>3 DEF CheckBaton

LEMMA ReleaseAuthorizedKeeps == ASSUME ShipInv, ReleaseAuthorized PROVE ShipInv'
<1> DEFINE req == [op |-> "file", kind |-> "release", of |-> {c \in Ship : keeper[c] = "baton"}]
           s == [at |-> "file", req |-> req, tries |-> 1, kind |-> "release"]
<1>1. PICK r \in Outcomes(ship.req) : afloat' = r.afloat /\ (Sends("file", req, Rest) \/ ship' = NoShip)
  BY DEF ReleaseAuthorized, Answered
<1>2. On("authorize") /\ ship.kind = "release" /\ under' = under /\ reports' = reports
  BY DEF ReleaseAuthorized, Answered, ShipStep
<1>3. AnswerOK(ship.req, afloat, r) BY <1>1, <1>2, AnswersOK DEF On
<1>4. AfloatOK(afloat') /\ Further(afloat, afloat') BY <1>1, <1>3 DEF AnswerOK
<1>5. CASE Sends("file", req, Rest)
  <2>1. ship \in AwaitsOnRelease({"authorize"}) BY <1>2, ShipFields
  <2>2. Rest = [kind |-> "release"] BY <2>1 DEF AwaitsOnRelease, Rest
  <2>3. req \in CallRequest /\ req.op = "file" BY DEF CallRequest
  <2> HIDE DEF req
  <2>4. ship' = s BY <1>5, <2>2 DEF Sends, Joined
  <2>5. ShipOK(afloat', s) BY <2>3, SentOnRelease
  <2> QED BY <1>2, <1>4, <2>4, <2>5, ShipGoesOn DEF ShipInv
<1>6. CASE ship' = NoShip
  <2>1. ShipOK(afloat', NoShip) BY DEF ShipOK, ShipRecord, NoShip
  <2> QED BY <1>2, <1>4, <1>6, <2>1, ShipGoesOn DEF ShipInv
<1> QED BY <1>1, <1>5, <1>6

\* The rows of the canisters of a stand.
LEMMA StandRows ==
  ASSUME ShipInv, NEW row \in ShipRow, ReportsStand(row), \A c \in Ship : ShipRowOK(afloat', c, row)
  PROVE  /\ reports' \in [Ship -> ShipRow]
         /\ \A c \in Ship : reports'[c] = reports[c] \/ ShipRowOK(afloat', c, reports'[c])
BY DEF ShipInv, ReportsStand

LEMMA ReleaseAnsweredKeeps == ASSUME ShipInv, ReleaseAnswered PROVE ShipInv'
<1>1. PICK r \in Outcomes(ship.req) :
        /\ afloat' = r.afloat
        /\ \/ r.ok /\ ship' = Joined(Rest, [at |-> "poll", n |-> r.n, seen |-> "?"]) /\ UNCHANGED reports
           \/ ~r.ok /\ ReportsStand([result |-> "failed"]) /\ ship' = NoShip
  BY DEF ReleaseAnswered, Answered
<1>2. On("file") /\ under' = under BY DEF ReleaseAnswered, Answered, ShipStep
<1>3. AnswerOK(ship.req, afloat, r) /\ ship.req.op = "file" BY <1>1, <1>2, AnswersOK DEF On, ShipInv, ShipOK
<1>4. AfloatOK(afloat') /\ Further(afloat, afloat') BY <1>1, <1>3 DEF AnswerOK
<1>5. CASE r.ok /\ ship' = Joined(Rest, [at |-> "poll", n |-> r.n, seen |-> "?"]) /\ UNCHANGED reports
  <2> DEFINE s == [at |-> "poll", kind |-> "release", n |-> r.n, seen |-> "?"]
  <2>1. ship \in AwaitsOnRelease({"file"}) BY <1>2, ShipFields
  <2>2. Rest = [kind |-> "release"] BY <2>1 DEF AwaitsOnRelease, Rest
  <2>3. ship' = s BY <1>5, <2>2 DEF Joined
  <2>4. r.n \in Nat /\ r.n \in DOMAIN afloat'.acts BY <1>1, <1>3, <1>5 DEF AnswerOK
  <2>5. s \in Polling /\ s.at = "poll" /\ s.n = r.n /\ s.seen = "?" BY <2>4 DEF Polling
  <2> HIDE DEF s
  <2>6. ShipOK(afloat', s) BY <2>4, <2>5 DEF ShipOK, ShipRecord
  <2> QED BY <1>2, <1>4, <1>5, <2>3, <2>6, ShipGoesOn DEF ShipInv
<1>6. CASE ReportsStand([result |-> "failed"]) /\ ship' = NoShip
  <2>1. [result |-> "failed"] \in ShipRow /\ \A c \in Ship : ShipRowOK(afloat', c, [result |-> "failed"])
    BY DEF ShipRow, ShipRowOK
  <2>2. ShipOK(afloat', NoShip) BY DEF ShipOK, ShipRecord, NoShip
  <2>3. PICK row \in ShipRow : ReportsStand(row) /\ \A c \in Ship : ShipRowOK(afloat', c, row) BY <1>6, <2>1
  <2> QED BY <1>2, <1>4, <1>6, <2>2, <2>3, StandRows, ShipGoesOn DEF ShipInv
<1> QED BY <1>1, <1>5, <1>6

\* An end the wait heard of is reported as what the baton's action ended with.
LEMMA EndIsSo ==
  ASSUME NEW n \in Nat, NEW status \in TERMINAL, NEW w, n \in DOMAIN w.acts, status \in w.acts[n].ends
  PROVE  LET row == [result |-> "ended", by |-> "baton", n |-> n, status |-> status]
         IN row \in ShipRow /\ \A c \in Ship : ShipRowOK(w, c, row)
<1> DEFINE row == [result |-> "ended", by |-> "baton", n |-> n, status |-> status]
<1>1. row \in ShipRow /\ row.result = "ended" /\ row.n = n /\ row.status = status BY DEF ShipRow
<1> HIDE DEF row
<1>2. \A c \in Ship : ShipRowOK(w, c, row) BY <1>1 DEF ShipRowOK
<1> QED BY <1>1, <1>2 DEF row

LEMMA PollKeeps == ASSUME ShipInv, Poll PROVE ShipInv'
<1>1. ship \in Polling /\ UNCHANGED <<afloat, under>> BY ShipFields DEF Poll, ShipStep
<1>2. ship.at = "poll" /\ ship.n \in Nat /\ ship.n \in DOMAIN afloat.acts BY <1>1 DEF ShipInv, ShipOK, Polling
<1> DEFINE status == afloat.acts[ship.n].status
<1>3. status \in {"open"} \cup TERMINAL /\ (status # "open" => status \in afloat.acts[ship.n].ends)
  <2>1. afloat.acts \in Seq(ActRecord) BY DEF ShipInv, AfloatOK, AfloatRecord
  <2>2. afloat.acts[ship.n] \in ActRecord BY <1>2, <2>1
  <2> QED BY <1>2, <2>2 DEF ActRecord, ShipInv, AfloatOK
<1>4. CASE status \notin TERMINAL \ {"COMPLETE"} /\ ship' = [ship EXCEPT !.seen = status] /\ UNCHANGED reports
  <2> DEFINE s == [ship EXCEPT !.seen = status]
  <2>1. status \in {"open", "COMPLETE"} BY <1>3, <1>4
  <2>2. s \in Polling /\ s.at = "poll" /\ s.n = ship.n /\ s.seen = status BY <1>1, <1>2, <2>1 DEF Polling
  <2>3. ship' = s BY <1>4
  <2> HIDE DEF s
  <2>4. ShipOK(afloat, s) BY <1>2, <1>3, <2>2 DEF ShipOK, ShipRecord
  <2> QED BY <1>1, <1>4, <2>3, <2>4, FurtherSelf, ShipGoesOn DEF ShipInv
<1>5. CASE /\ status \in TERMINAL /\ ship' = NoShip
           /\ ReportsStand([result |-> "ended", by |-> "baton", n |-> ship.n, status |-> status])
  <2>1. PICK row \in ShipRow : ReportsStand(row) /\ \A c \in Ship : ShipRowOK(afloat', c, row)
    BY <1>1, <1>2, <1>3, <1>5, EndIsSo DEF TERMINAL
  <2>2. ShipOK(afloat', NoShip) BY DEF ShipOK, ShipRecord, NoShip
  <2> QED BY <1>1, <1>5, <2>1, <2>2, StandRows, FurtherSelf, ShipGoesOn DEF ShipInv
<1> QED BY <1>4, <1>5 DEF Poll

LEMMA SettleCallKeeps == ASSUME ShipInv, Settle PROVE ShipInv'
<1> DEFINE req == [op |-> "settle"]
           s == [at |-> "settle", req |-> req, tries |-> 1, kind |-> "release", n |-> ship.n]
<1>1. ship \in Polling /\ ship.at = "poll" /\ ship.seen = "COMPLETE" /\ UNCHANGED <<afloat, under, reports>>
  BY ShipFields DEF Settle, ShipStep, On
<1>2. ship.n \in Nat /\ ship.n \in DOMAIN afloat.acts /\ "COMPLETE" \in afloat.acts[ship.n].ends
  BY <1>1 DEF ShipInv, ShipOK, Polling
<1>3. ship' = s BY DEF Settle, Sends, Joined
<1>4. req \in CallRequest BY DEF CallRequest
<1> HIDE DEF req
<1>5. s \in Settling /\ s.at = "settle" /\ s.n = ship.n BY <1>2, <1>4 DEF Settling
<1> HIDE DEF s
<1>6. ShipOK(afloat, s) BY <1>2, <1>5 DEF ShipOK, ShipRecord
<1> QED BY <1>1, <1>3, <1>6, FurtherSelf, ShipGoesOn DEF ShipInv

LEMMA SettleAnsweredKeeps == ASSUME ShipInv, SettleAnswered PROVE ShipInv'
<1>1. PICK r \in Outcomes(ship.req) :
        /\ afloat' = r.afloat /\ ship' = NoShip
        /\ ReportsStand([result |-> "ended", by |-> "baton", n |-> ship.n, status |-> "COMPLETE"])
  BY DEF SettleAnswered, Answered
<1>2. On("settle") /\ under' = under BY DEF SettleAnswered, Answered, ShipStep
<1>3. AnswerOK(ship.req, afloat, r) BY <1>1, <1>2, AnswersOK DEF On
<1>4. AfloatOK(afloat') /\ Further(afloat, afloat') BY <1>1, <1>3 DEF AnswerOK
<1>5. ship.n \in Nat /\ ship.n \in DOMAIN afloat.acts /\ "COMPLETE" \in afloat.acts[ship.n].ends
  BY <1>2, ShipFields DEF On, Settling, ShipInv, ShipOK
<1>6. ship.n \in DOMAIN afloat'.acts /\ "COMPLETE" \in afloat'.acts[ship.n].ends BY <1>4, <1>5 DEF Further, Onward
<1>7. "COMPLETE" \in TERMINAL BY DEF TERMINAL
<1>8. PICK row \in ShipRow : ReportsStand(row) /\ \A c \in Ship : ShipRowOK(afloat', c, row)
  BY <1>1, <1>5, <1>6, <1>7, EndIsSo
<1>9. ShipOK(afloat', NoShip) BY DEF ShipOK, ShipRecord, NoShip
<1> QED BY <1>1, <1>2, <1>4, <1>8, <1>9, StandRows, ShipGoesOn DEF ShipInv

\* The rows of a page.
LEMMA PageRows ==
  ASSUME ShipInv, NEW result \in {"synced", "failed"}, ReportsPage(result),
         result = "synced" => afloat'.served \/ afloat'.crossed
  PROVE  /\ reports' \in [Ship -> ShipRow]
         /\ \A c \in Ship : reports'[c] = reports[c] \/ ShipRowOK(afloat', c, reports'[c])
<1> DEFINE row == [result |-> result]
<1>1. row \in ShipRow /\ \A c \in Ship : ShipRowOK(afloat', c, row) BY DEF ShipRow, ShipRowOK
<1>2. reports' = [c \in Ship |-> row] BY DEF ReportsPage
<1> HIDE DEF row
<1> QED BY <1>1, <1>2

LEMMA DeployAnsweredKeeps == ASSUME ShipInv, DeployAnswered PROVE ShipInv'
<1>1. PICK r \in Outcomes(ship.req) :
        /\ afloat' = r.afloat
        /\ \/ r.ok /\ r.afloat.deploy = "running" /\ ship' = [at |-> "status"] /\ UNCHANGED reports
           \/ r.ok /\ r.afloat.deploy = "done" /\ ReportsPage("synced") /\ ship' = NoShip
           \/ ~r.ok /\ ReportsPage("failed") /\ ship' = NoShip
  BY DEF DeployAnswered, Answered
<1>2. On("deploy") /\ under' = under BY DEF DeployAnswered, Answered, ShipStep
<1>3. AnswerOK(ship.req, afloat, r) BY <1>1, <1>2, AnswersOK DEF On
<1>4. AfloatOK(afloat') /\ Further(afloat, afloat') BY <1>1, <1>3 DEF AnswerOK
<1>7. r.ok => afloat'.whose # "theirs" BY <1>1, <1>2, <1>3 DEF AnswerOK, ShipInv, ShipOK, On
<1>8. afloat'.crossed \/ ~TheirsIsOut(afloat')
  <2>1. afloat.crossed \/ ~TheirsIsOut(afloat) BY <1>2 DEF ShipInv, ShipOK, On
  <2> QED BY <1>4, <2>1 DEF Further, Onward, Calm
<1>5. CASE r.ok /\ ship' = [at |-> "status"] /\ UNCHANGED reports
  <2> DEFINE s == [at |-> "status"]
  <2>1. s \in ShipRecord /\ s.at = "status" BY DEF ShipRecord
  <2> HIDE DEF s
  <2>2. ShipOK(afloat', s) BY <1>7, <1>8, <1>5, <2>1 DEF ShipOK
  <2>3. ship' = s BY <1>5 DEF s
  <2> QED BY <1>2, <1>4, <1>5, <2>2, <2>3, ShipGoesOn DEF ShipInv
<1>6. ASSUME NEW result \in {"synced", "failed"}, ReportsPage(result), result = "synced" => afloat'.served \/ afloat'.crossed, ship' = NoShip
      PROVE  ShipInv'
  <2>1. ShipOK(afloat', NoShip) BY DEF ShipOK, ShipRecord, NoShip
  <2> QED BY <1>2, <1>4, <1>6, <2>1, PageRows, ShipGoesOn DEF ShipInv
<1>9. r.ok /\ r.afloat.deploy = "done" => afloat'.served \/ afloat'.crossed BY <1>1, <1>4, <1>7 DEF AfloatOK
<1> QED BY <1>1, <1>5, <1>6, <1>9

LEMMA ReadDeployKeeps == ASSUME ShipInv, ReadDeploy PROVE ShipInv'
<1>1. ship' = NoShip /\ afloat' = afloat /\ under' = under BY DEF ReadDeploy, ShipStep
<1>2. ShipOK(afloat, NoShip) BY DEF ShipOK, ShipRecord, NoShip
<1>3. CASE UNCHANGED reports BY <1>1, <1>2, <1>3, FurtherSelf, ShipGoesOn DEF ShipInv
<1>4. ASSUME NEW result \in {"synced", "failed"}, ReportsPage(result), result = "synced" => afloat.served \/ afloat.crossed
      PROVE  ShipInv'
  BY <1>1, <1>2, <1>4, PageRows, FurtherSelf, ShipGoesOn DEF ShipInv
<1>5. ship.at = "status" BY DEF ReadDeploy, On
<1>6. afloat.deploy = "done" => afloat.served \/ afloat.crossed BY <1>5 DEF ShipInv, AfloatOK, ShipOK
<1> QED BY <1>3, <1>4, <1>6 DEF ReadDeploy

-----------------------------------------------------------------------------
\* The call a command waits for.
LEMMA WaitsFor ==
  ASSUME ShipInv, "req" \in DOMAIN ship
  PROVE  ship.req \in CallRequest
<1>1. DOMAIN NoShip = {"at"} BY DEF NoShip
<1> QED BY <1>1 DEF ShipInv, ShipOK, ShipRecord, NoShip, OnWasm, AwaitsOnWasm, Decision, AwaitsOnRelease, Polling, Settling, AwaitsDeploy

LEMMA TriesAgainKeeps == ASSUME ShipInv, TriesAgain PROVE ShipInv'
<1> DEFINE again == Afresh(ship.req)
           more == [ship EXCEPT !.tries = @ + 1]
           s == [more EXCEPT !.req = again]
<1>1. "req" \in DOMAIN ship /\ ship' = s /\ under' = under \cup {ship.req} /\ UNCHANGED <<afloat, reports>> BY DEF TriesAgain
<1>2. under' \subseteq CallRequest BY <1>1, WaitsFor DEF ShipInv
<1>0. again \in CallRequest /\ (ship.req.op # "copy" => again = ship.req)
      /\ (ship.req.op \in {"deploy", "copy"} => again.op \in {"deploy", "copy"})
  BY <1>1, WaitsFor DEF Afresh, CallRequest, Deploy, Sync
<1> HIDE DEF again
<1>3. ASSUME NEW R \in {AwaitsOnWasm({"authorize", "upgrade", "propose", "batch"}),
                        AwaitsOnRelease({"sync", "authorize", "file"}), Settling, AwaitsDeploy}, ship \in R
      PROVE  s \in R /\ s.at = ship.at /\ s.req = again
             /\ (ship.at \in {"upgrade", "propose", "batch"} => s.todo = ship.todo /\ s.batch = ship.batch)
             /\ (ship.at = "settle" => s.n = ship.n)
  <2> DEFINE Same(x) == /\ ship.at \in {"upgrade", "propose", "batch"} => x.todo = ship.todo /\ x.batch = ship.batch
                        /\ ship.at = "settle" => x.n = ship.n
  <2>1. more \in R /\ more.at = ship.at /\ Same(more)
    <3>1. CASE R = AwaitsOnWasm({"authorize", "upgrade", "propose", "batch"}) BY <1>3, <3>1 DEF AwaitsOnWasm
    <3>2. CASE R = AwaitsOnRelease({"sync", "authorize", "file"}) BY <1>3, <3>2 DEF AwaitsOnRelease
    <3>3. CASE R = Settling BY <1>3, <3>3 DEF Settling
    <3>4. CASE R = AwaitsDeploy BY <1>3, <3>4 DEF AwaitsDeploy
    <3> QED BY <1>3, <3>1, <3>2, <3>3, <3>4
  <2> HIDE DEF more
  <2>2. /\ s \in R /\ s.at = more.at /\ s.req = again
        /\ more.at \in {"upgrade", "propose", "batch"} => s.todo = more.todo /\ s.batch = more.batch
        /\ more.at = "settle" => s.n = more.n
    <3>1. CASE R = AwaitsOnWasm({"authorize", "upgrade", "propose", "batch"}) BY <1>0, <2>1, <3>1 DEF AwaitsOnWasm
    <3>2. CASE R = AwaitsOnRelease({"sync", "authorize", "file"}) BY <1>0, <2>1, <3>2 DEF AwaitsOnRelease
    <3>3. CASE R = Settling BY <1>0, <2>1, <3>3 DEF Settling
    <3>4. CASE R = AwaitsDeploy BY <1>0, <2>1, <3>4 DEF AwaitsDeploy
    <3> QED BY <1>3, <3>1, <3>2, <3>3, <3>4
  <2> QED BY <2>1, <2>2
<1>4. \/ ship \in AwaitsOnWasm({"authorize", "upgrade", "propose", "batch"})
      \/ ship \in AwaitsOnRelease({"sync", "authorize", "file"})
      \/ ship \in Settling \/ ship \in AwaitsDeploy
  BY <1>1 DEF ShipInv, ShipOK, ShipRecord, NoShip, OnWasm, Decision, Polling
<1> HIDE DEF s
<1>5. s \in ShipRecord BY <1>3, <1>4 DEF ShipRecord
<1>6. ship.at \notin {"decided", "poll", "status"} BY <1>4 DEF AwaitsOnWasm, AwaitsOnRelease, Settling, AwaitsDeploy
<1>7. s.at = ship.at /\ s.req = again
      /\ (ship.at \in {"upgrade", "propose", "batch"} => s.todo = ship.todo /\ s.batch = ship.batch)
      /\ (ship.at = "settle" => s.n = ship.n)
  BY <1>3, <1>4
<1>8. ShipOK(afloat, s)
  <2>1. ShipOK(afloat, ship) BY DEF ShipInv
  <2>2. ship.at \in {"upgrade", "propose", "batch", "file"} => s.req = ship.req BY <1>0, <1>7, <2>1 DEF ShipOK
  <2>3. ship.at = "deploy" => s.req.op \in {"deploy", "copy"} BY <1>0, <1>7, <2>1 DEF ShipOK
  <2> QED BY <1>5, <1>6, <1>7, <2>1, <2>2, <2>3 DEF ShipOK
<1> QED BY <1>1, <1>2, <1>8, FurtherSelf, ShipGoesOn DEF ShipInv

LEMMA GivesUpKeeps == ASSUME ShipInv, GivesUp PROVE ShipInv'
<1>1. ship' = NoShip /\ UNCHANGED <<afloat, reports>> /\ under' = under \cup (IF "req" \in DOMAIN ship THEN {ship.req} ELSE {})
  BY DEF GivesUp
<1>2. under' \subseteq CallRequest BY <1>1, WaitsFor DEF ShipInv
<1>3. ShipOK(afloat, NoShip) BY DEF ShipOK, ShipRecord, NoShip
<1> QED BY <1>1, <1>2, <1>3, FurtherSelf, ShipGoesOn DEF ShipInv

LEMMA CarriedOutKeeps == ASSUME ShipInv, CarriedOut PROVE ShipInv'
<1>1. PICK req \in under : /\ under' = under \ {req} /\ UNCHANGED <<ship, reports>>
                           /\ \E r \in Outcomes(req) : afloat' = r.afloat
  BY DEF CarriedOut
<1>2. PICK r \in Outcomes(req) : afloat' = r.afloat BY <1>1
<1>3. req \in CallRequest /\ AfloatOK(afloat) BY DEF ShipInv
<1>4. AnswerOK(req, afloat, r) BY <1>3, OutcomesOK
<1>5. AfloatOK(afloat') /\ Further(afloat, afloat') /\ under' \subseteq CallRequest BY <1>1, <1>2, <1>4 DEF AnswerOK, ShipInv
<1> QED BY <1>1, <1>5, OthersKeepReports

LEMMA ActEndsKeeps == ASSUME ShipInv, NEW i \in DOMAIN afloat.acts, ActEnds(i) PROVE ShipInv'
<1>1. PICK status \in EndsOf(afloat.acts[i].kind) :
        LET v == [afloat EXCEPT !.acts[i].status = status, !.acts[i].ends = @ \cup {status}]
        IN afloat' = IF status = "COMPLETE" THEN NowRunning(v, afloat.acts[i].of) ELSE v
  BY DEF ActEnds
<1> DEFINE v == [afloat EXCEPT !.acts[i].status = status, !.acts[i].ends = @ \cup {status}]
<1>2. status \in TERMINAL /\ afloat.acts[i].status = "open" /\ UNCHANGED <<ship, reports, under>>
  BY <1>1 DEF EndsOf, ReleaseEnds, TERMINAL, ActEnds, Meanwhile
<1>3. AfloatOK(v) /\ Further(afloat, v) /\ afloat.acts[i].of \in SUBSET Ship BY <1>2, ActEndsOK DEF ShipInv
<1>4. afloat' = NowRunning(v, afloat.acts[i].of) \/ afloat' = v BY <1>1
<1> HIDE DEF v
<1>5. AfloatOK(afloat') /\ Further(afloat, afloat') BY <1>3, <1>4, RunningOK, FurtherOn
<1> QED BY <1>2, <1>5, OthersKeepReports DEF ShipInv

LEMMA ActReturnsKeeps == ASSUME ShipInv, NEW i \in DOMAIN afloat.acts, ActReturns(i) PROVE ShipInv'
<1>1. afloat' = [afloat EXCEPT !.acts[i].status = "open"] /\ UNCHANGED <<ship, reports, under>> BY DEF ActReturns
<1>2. AfloatOK(afloat') /\ Further(afloat, afloat') BY <1>1, ActReturnsOK DEF ShipInv
<1> QED BY <1>1, <1>2, OthersKeepReports DEF ShipInv

LEMMA ProposalDecidedKeeps == ASSUME ShipInv, NEW i \in DOMAIN afloat.proposals, ProposalDecided(i) PROVE ShipInv'
<1>1. PICK status \in {"executed", "failed", "rejected", "expired"} :
        afloat' = Decided([afloat EXCEPT !.proposals[i].status = status], afloat.proposals[i].of, status)
  BY DEF ProposalDecided
<1> DEFINE v == [afloat EXCEPT !.proposals[i].status = status]
<1>2. UNCHANGED <<ship, reports, under>> BY DEF ProposalDecided, Meanwhile
<1>3. AfloatOK(v) /\ Further(afloat, v) /\ afloat.proposals[i].of \in Ship BY ProposalEndsOK DEF ShipInv
<1>4. afloat' = NowRunning(v, {afloat.proposals[i].of}) \/ afloat' = v BY <1>1 DEF Decided
<1> HIDE DEF v
<1>5. AfloatOK(afloat') /\ Further(afloat, afloat') BY <1>3, <1>4, RunningOK, FurtherOn
<1> QED BY <1>2, <1>5, OthersKeepReports DEF ShipInv

LEMMA DeployEndsKeeps == ASSUME ShipInv, DeployEnds PROVE ShipInv'
<1>1. AfloatOK(afloat) /\ afloat \in AfloatRecord /\ UNCHANGED <<ship, reports, under>>
  BY DEF ShipInv, AfloatOK, DeployEnds, Meanwhile
<1>2. afloat.whose \in {"ours", "theirs"} /\ (afloat.whose = "theirs" => TheirsIsOut(afloat))
  BY <1>1 DEF AfloatRecord, DeployEnds, TheirsIsOut
<1>3. CASE afloat' = Deployed(afloat, afloat.whose)
  <2>1. AfloatOK(afloat') /\ Further(afloat, afloat') BY <1>1, <1>2, <1>3, DeployingOK
  <2> QED BY <1>1, <2>1, OthersKeepReports DEF ShipInv
<1>4. ASSUME NEW state \in {"failed", "none"}, afloat' = [afloat EXCEPT !.deploy = state] PROVE ShipInv'
  <2> DEFINE v == [afloat EXCEPT !.deploy = state]
  <2>1. /\ v \in AfloatRecord /\ v.build = afloat.build /\ v.ran = afloat.ran /\ v.proposals = afloat.proposals
        /\ v.acts = afloat.acts /\ v.deploy = state /\ v.whose = afloat.whose /\ v.served = afloat.served
        /\ v.theirs = afloat.theirs /\ v.crossed = afloat.crossed
    BY <1>1 DEF AfloatRecord
  <2>2. afloat' = v BY <1>4
  <2> HIDE DEF v
  <2>3. AfloatOK(v) /\ Further(afloat, v) BY <1>1, <2>1 DEF AfloatOK, Further, Onward, Calm, TheirsIsOut
  <2> QED BY <1>1, <2>2, <2>3, OthersKeepReports DEF ShipInv
<1> QED BY <1>3, <1>4 DEF DeployEnds

\* Another operator's deploy begins: where a command waits for its own, they have crossed.
LEMMA OthersDeployKeeps == ASSUME ShipInv, OthersDeploy PROVE ShipInv'
<1> DEFINE v == [afloat EXCEPT !.theirs = TRUE, !.crossed = @ \/ ship.at \in {"deploy", "status"}]
<1>1. AfloatOK(afloat) /\ afloat \in AfloatRecord /\ afloat' = v /\ UNCHANGED <<ship, reports, under>>
  BY DEF ShipInv, AfloatOK, OthersDeploy
<1>2. /\ v \in AfloatRecord /\ v.build = afloat.build /\ v.ran = afloat.ran /\ v.proposals = afloat.proposals
      /\ v.acts = afloat.acts /\ v.deploy = afloat.deploy /\ v.whose = afloat.whose /\ v.served = afloat.served
      /\ (v.crossed <=> afloat.crossed \/ ship.at \in {"deploy", "status"})
  BY <1>1 DEF AfloatRecord
<1> HIDE DEF v
<1>3. AfloatOK(v) BY <1>1, <1>2 DEF AfloatOK
<1>4. Onward(afloat, v) BY <1>2 DEF Onward
<1>5. ShipOK(v, ship) BY <1>2 DEF ShipInv, ShipOK
<1>6. \A c \in Ship : ShipRowOK(v, c, reports[c]) BY <1>4, RowsStay DEF ShipInv
<1> QED BY <1>1, <1>3, <1>5, <1>6 DEF ShipInv

LEMMA OthersDeployedKeeps == ASSUME ShipInv, OthersDeployed PROVE ShipInv'
<1> DEFINE v == [afloat EXCEPT !.theirs = FALSE]
<1>1. AfloatOK(afloat) /\ afloat \in AfloatRecord /\ afloat.theirs /\ UNCHANGED <<ship, reports, under>>
      /\ afloat' \in {v, Running(v, "theirs"), Deployed(v, "theirs")}
  BY DEF ShipInv, AfloatOK, OthersDeployed, Meanwhile
<1>2. /\ afloat' \in AfloatRecord /\ afloat'.build = afloat.build /\ afloat'.ran = afloat.ran
      /\ afloat'.proposals = afloat.proposals /\ afloat'.acts = afloat.acts
      /\ (afloat'.served <=> afloat.served) /\ (afloat'.crossed <=> afloat.crossed)
      /\ (afloat'.whose = "theirs" \/ afloat'.deploy = afloat.deploy)
      /\ (afloat'.whose # "theirs" => afloat'.whose = afloat.whose)
  <2>1. CASE afloat' = v BY <1>1, <2>1 DEF AfloatRecord
  <2>2. CASE afloat' = Running(v, "theirs") BY <1>1, <2>2 DEF AfloatRecord, Running
  <2>3. CASE afloat' = Deployed(v, "theirs") BY <1>1, <2>3 DEF AfloatRecord, Deployed
  <2> QED BY <1>1, <2>1, <2>2, <2>3
<1>3. PICK w : w = afloat' OBVIOUS
<1>4. TheirsIsOut(afloat) BY <1>1 DEF TheirsIsOut
<1>5. AfloatOK(w) /\ Further(afloat, w) BY <1>1, <1>2, <1>3, <1>4 DEF AfloatOK, Further, Onward, Calm
<1> QED BY <1>1, <1>3, <1>5, OthersKeepReports DEF ShipInv

LEMMA OthersFileKeeps == ASSUME ShipInv, OthersFile PROVE ShipInv'
<1> DEFINE a == [kind |-> "other", of |-> {}, status |-> "open", ends |-> {}]
           v == [afloat EXCEPT !.acts = Append(@, a)]
<1>1. afloat' = v /\ UNCHANGED <<ship, reports, under>> BY DEF OthersFile, Meanwhile
<1>2. a \in ActRecord /\ a.status = "open" /\ AfloatOK(afloat) BY DEF ActRecord, ShipInv
<1> HIDE DEF a
<1>3. AfloatOK(v) /\ Further(afloat, v) BY <1>2, FilingOK
<1> QED BY <1>1, <1>3, OthersKeepReports DEF ShipInv

\* Every step of `casals upgrade', and of what it waits for, keeps the invariant.
LEMMA ShippingKept == ASSUME ShipInv, [ShippingNext]_shipVars PROVE ShipInv'
<1>1. CASE UNCHANGED shipVars BY <1>1 DEF shipVars, ShipInv
<1>2. CASE BeginWasm \/ WasmAuthorized \/ ShipWasm \/ UpgradeAnswered \/ ProposeAnswered \/ ReadDecision
  BY <1>2, BeginWasmKeeps, WasmAuthorizedKeeps, ShipWasmKeeps, UpgradeAnsweredKeeps, ProposeAnsweredKeeps, ReadDecisionKeeps
<1>3. CASE ProposeBatch \/ BatchAnswered BY <1>3, ProposeBatchKeeps, BatchAnsweredKeeps
<1>4. CASE BeginRelease \/ SyncAnswered \/ CheckBaton \/ ReleaseAuthorized \/ ReleaseAnswered \/ Poll \/ Settle \/ SettleAnswered
  BY <1>4, BeginReleaseKeeps, SyncAnsweredKeeps, CheckBatonKeeps, ReleaseAuthorizedKeeps, ReleaseAnsweredKeeps, PollKeeps,
     SettleCallKeeps, SettleAnsweredKeeps
<1>5. CASE BeginContent \/ NoneRuns \/ DeployAnswered \/ ReadDeploy
  BY <1>5, BeginContentKeeps, NoneRunsKeeps, DeployAnsweredKeeps, ReadDeployKeeps
<1>6. CASE TriesAgain \/ GivesUp \/ CarriedOut BY <1>6, TriesAgainKeeps, GivesUpKeeps, CarriedOutKeeps
<1>7. CASE \/ DeployEnds \/ OthersFile \/ OthersDeploy \/ OthersDeployed
           \/ \E i \in DOMAIN afloat.acts : ActEnds(i) \/ ActReturns(i)
           \/ \E i \in DOMAIN afloat.proposals : ProposalDecided(i)
  BY <1>7, DeployEndsKeeps, OthersFileKeeps, OthersDeployKeeps, OthersDeployedKeeps, ActEndsKeeps, ActReturnsKeeps,
     ProposalDecidedKeeps
<1> QED BY <1>1, <1>2, <1>3, <1>4, <1>5, <1>6, <1>7 DEF ShippingNext

LEMMA ShippingBegins == ShippingInit => ShipInv
<1> SUFFICES ASSUME ShippingInit PROVE ShipInv OBVIOUS
<1>1. /\ afloat = [build |-> [c \in Ship |-> "old"], ran |-> {}, catalog |-> FALSE, proposals |-> <<>>, acts |-> <<>>,
                   deploy |-> "none", whose |-> "ours", served |-> FALSE, theirs |-> FALSE, crossed |-> FALSE]
      /\ ship = NoShip /\ under = {} /\ reports = [c \in Ship |-> NoReport]
  BY DEF ShippingInit
<1>2. [c \in Ship |-> "old"] \in [Ship -> {"old", "new"}] /\ <<>> \in Seq(ProposalRecord) /\ <<>> \in Seq(ActRecord) OBVIOUS
<1>3. AfloatOK(afloat) BY <1>1, <1>2 DEF AfloatOK, AfloatRecord
<1>4. ShipOK(afloat, NoShip) BY DEF ShipOK, ShipRecord, NoShip
<1>5. NoReport \in ShipRow /\ \A c \in Ship : ShipRowOK(afloat, c, NoReport) BY DEF NoReport, ShipRow, ShipRowOK
<1> QED BY <1>1, <1>3, <1>4, <1>5 DEF ShipInv

\* What the invariant says of the rows.
LEMMA ShipInvReports == ShipInv => ReportsAreTrue
<1> SUFFICES ASSUME ShipInv PROVE ReportsAreTrue OBVIOUS
<1>1. ASSUME NEW c \in Ship PROVE RowIsTrue(c)
  <2>1. PICK row : row = reports[c] OBVIOUS
  <2>2. ShipRowOK(afloat, c, row) BY <2>1 DEF ShipInv
  <2> QED BY <2>1, <2>2 DEF ShipRowOK, RowIsTrue
<1>2. On("poll") => ship.seen \in {"?", "open", "COMPLETE"} BY ShipFields DEF Polling
<1> QED BY <1>1, <1>2 DEF ReportsAreTrue

\* Whatever is retried, carried out after all or done by others meanwhile, what
\* `casals upgrade' reports is so: upgraded or skipped ran the module, pending waits for
\* a proposal that is about it, an end is one the release had, though it may be open again,
\* a page reported synced had the bundle deployed unless another operator's deploy crossed
\* the command's, and a wait that heard of an end does not go on (run_upgrade,
\* _upgrade_via_multisig, _ship_content, _propose and _wait of casals_cli).
THEOREM WhatIsReportedIsTrue == Spec => []ReportsAreTrue
<1>1. Init => ShipInv BY ShippingBegins DEF Init
<1>2. ShipInv /\ [Next]_vars => ShipInv' BY ShippingKept, PartsMoveApart
<1> QED BY <1>1, <1>2, ShipInvReports, PTL DEF Spec
=============================================================================
