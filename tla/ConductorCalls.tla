--------------------------- MODULE ConductorCalls ----------------------------
(***************************************************************************)
(* The conductor's calls that are not about building a stand, and the      *)
(* commands operators run: permissions, content deploys, following a       *)
(* baton, upgrades of the canisters it controls, its cycles, what its      *)
(* monitor sees, who may upload, how rows are found; `casals up', the      *)
(* publishing of wasms and bundles, `casals upgrade', and what becomes of  *)
(* a sheet.                                                                *)
(*                                                                         *)
(* They share no row and no call, or meet the others only in the outcome   *)
(* of one call, which is a choice there; so what one does is the same      *)
(* whatever the others do between its steps: a behaviour is about one of   *)
(* them, and the rest stand still.                                         *)
(***************************************************************************)
EXTENDS Permissions, ContentDeploys, BatonSync, CanisterUpgrades,
        Treasury, OutsideAccess, WasmUploads, RowPages, UpRun, Publishing, Shipping, SheetBuilds

VARIABLE part  \* what the behaviour is about

callVars == <<permissionVars, contentVars, syncVars, canisterVars>>
moneyVars == <<treasuryVars, accessVars, uploadVars, rowVars>>
commandVars == <<upVars, publishVars, shipVars>>
vars == <<callVars, moneyVars, commandVars, sheetVars, part>>

\* Where a part may begin in several states, only a behaviour about it does.
Init ==
  /\ part \in {"permissions", "content", "sync", "canisters", "treasury", "access", "uploads", "rows", "up", "publish", "ship", "sheet"}
  /\ PermissionsInit /\ ContentInit /\ SyncInit /\ CanistersInit
  /\ TreasuryInit /\ AccessInit /\ UploadsInit /\ RowsInit /\ UpInit /\ PublishInit /\ ShippingInit /\ SheetInit
  /\ part = "rows" \/ \A i \in 1..OldRows : field[i] = CHOOSE v \in Values : TRUE
  /\ part = "access" \/ \A h \in Host : host[h] = "none"
  /\ part = "up" \/ purse = Max(Purses)
  /\ part = "ship" \/ keeper = CHOOSE k \in Keepers : TRUE
  /\ part = "sheet" \/ draft = CHOOSE d \in Drafts : TRUE

NextCalls ==
  \/ part = "permissions" /\ PermissionsNext /\ UNCHANGED <<contentVars, syncVars, canisterVars>>
  \/ part = "content" /\ ContentNext /\ UNCHANGED <<permissionVars, syncVars, canisterVars>>
  \/ part = "sync" /\ SyncNext /\ UNCHANGED <<permissionVars, contentVars, canisterVars>>
  \/ part = "canisters" /\ CanistersNext /\ UNCHANGED <<permissionVars, contentVars, syncVars>>

NextMoney ==
  \/ part = "treasury" /\ TreasuryNext /\ UNCHANGED <<accessVars, uploadVars, rowVars>>
  \/ part = "access" /\ AccessNext /\ UNCHANGED <<treasuryVars, uploadVars, rowVars>>
  \/ part = "uploads" /\ UploadsNext /\ UNCHANGED <<treasuryVars, accessVars, rowVars>>
  \/ part = "rows" /\ RowsNext /\ UNCHANGED <<treasuryVars, accessVars, uploadVars>>

NextCommand ==
  \/ part = "up" /\ UpNext /\ UNCHANGED <<publishVars, shipVars>>
  \/ part = "publish" /\ PublishNext /\ UNCHANGED <<upVars, shipVars>>
  \/ part = "ship" /\ ShippingNext /\ UNCHANGED <<upVars, publishVars>>

Next ==
  /\ UNCHANGED part
  /\ \/ NextCalls /\ UNCHANGED <<moneyVars, commandVars, sheetVars>>
     \/ NextMoney /\ UNCHANGED <<callVars, commandVars, sheetVars>>
     \/ NextCommand /\ UNCHANGED <<callVars, moneyVars, sheetVars>>
     \/ part = "sheet" /\ SheetNext /\ UNCHANGED <<callVars, moneyVars, commandVars>>

Spec == Init /\ [][Next]_vars
=============================================================================
