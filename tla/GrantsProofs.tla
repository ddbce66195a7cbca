---------------------------- MODULE GrantsProofs -----------------------------
(***************************************************************************)
(* Proofs about ControllerGrants, for every list of canisters and any      *)
(* finite sets of controllers and grantees: Base stays in control of every *)
(* canister, and a grantee is never a controller without a row, unless two *)
(* executors, of a grant and of an expiry or both of expiries, have been   *)
(* under way together.                                                     *)
(*                                                                         *)
(* Both rest on IInv.  BaseKept adds to BaseStays what the executors carry *)
(* across their awaits: the list each will write back still holds Base,    *)
(* and neither is about to take one of Base out of it, because no row      *)
(* names one.  TrackKept adds that, while only one of them is under way,   *)
(* the list it read is the canister's list.                                *)
(***************************************************************************)
EXTENDS ControllerGrants, DataLemmas

\* What a record of an action holds, and what an executor carries along.
Payload == [principal : Principal, revoke : BOOLEAN, expires : Nat \cup {Never}]
Walk(S) == [todo : Seq(S) \ {<<>>}, read : (SUBSET Principal) \cup {None}]

\* The type invariant, with all an executor carries.
StateOK ==
  /\ controllers \in [Canister -> SUBSET Principal]
  /\ rows \in [Key -> Row \cup {None}]
  /\ action \in Payload \cup {None}
  /\ grant \in Walk(Canister) \cup {None} /\ (grant # None => action # None)
  /\ expiry \in [Ticks -> Walk(Key) \cup {None}]
  /\ timer \in Nat \cup {Never} /\ now \in Nat
  /\ overlapped \in BOOLEAN

\* What keeps Base in control.
BaseKept ==
  /\ BaseStays
  /\ \A c \in Canister, p \in Base : ~Tracked(c, p)
  /\ Writing(grant) => Base \subseteq grant.read /\ (action.revoke => action.principal \notin Base)
  /\ \A x \in Ticks : expiry[x] # None => \A i \in DOMAIN expiry[x].todo : expiry[x].todo[i][2] \notin Base
  /\ \A x \in Ticks : Writing(expiry[x]) => Base \subseteq expiry[x].read

\* What keeps grantees tracked while the executors do not overlap.
OneAtATime ==
  /\ grant = None \/ expiry = Idle
  /\ \A x, y \in Ticks : expiry[x] # None /\ expiry[y] # None => x = y

GrantIsFresh ==
  Writing(grant) =>
    /\ grant.read = controllers[Head(grant.todo)]
    /\ ~action.revoke => Tracked(Head(grant.todo), action.principal) /\ action.principal \notin grant.read

ExpiryIsFresh ==
  \A x \in Ticks : Writing(expiry[x]) => expiry[x].read = controllers[Head(expiry[x].todo)[1]]

TrackKept == ~overlapped => OneAtATime /\ GranteesAreTracked /\ GrantIsFresh /\ ExpiryIsFresh

\* The inductive invariant.
IInv == StateOK /\ BaseKept /\ TrackKept
-----------------------------------------------------------------------------
\* StateOK is the type invariant the run checks, and more.
LEMMA StateIsTypeOK == StateOK => TypeOK
BY DEF StateOK, TypeOK, Payload, Walk

\* There are finitely many rows to expire.
LEMMA KeysAreFinite == IsFiniteSet(Key)
<1>1. IsFiniteSet(Canister)
  <2>1. Len(Canisters) \in Nat /\ Canisters \in [1..Len(Canisters) -> Canister]
    BY CanistersAssumption
  <2>2. Canisters \in Surjection(1..Len(Canisters), Canister)
    BY <2>1 DEF Surjection, Canister, ToSet
  <2> QED BY <2>1, <2>2, FS_NatSurjection DEF ExistsSurjection
<1> QED BY <1>1, PrincipalsAssumption, FS_Union, FS_Product DEF Key, Principal

\* _arm_grant_timer arms a time or nothing.
LEMMA TimerType ==
  ASSUME NEW r \in [Key -> Row \cup {None}], now \in Nat
  PROVE  TimerFor(r) \in Nat \cup {Never}
<1> DEFINE E == {k \in Key : r[k] # None /\ r[k].expires # Never}
           T == {r[k].expires : k \in E}
<1>1. T \subseteq Nat BY DEF Row
<1>2. E # {} => Min(T) \in Nat
  <2> SUFFICES ASSUME E # {} PROVE Min(T) \in Nat OBVIOUS
  <2>1. T # {} OBVIOUS
  <2> HIDE DEF T
  <2> QED BY <1>1, <2>1, MinOfNaturals
<1>3. NextDue(r) = IF E = {} THEN Never ELSE Min(T) BY DEF NextDue
<1> HIDE DEF E, T
<1>4. NextDue(r) \in Nat \cup {Never} BY <1>2, <1>3
<1> QED BY <1>4, BoundsAssumption DEF TimerFor

\* What expire_gen lists before its first await are rows, and due ones.
LEMMA DueRowsAreDue ==
  /\ DueRows \in Seq(Key)
  /\ \A i \in DOMAIN DueRows : Due(DueRows[i][1], DueRows[i][2])
<1> DEFINE S == {k \in Key : Due(k[1], k[2])}
<1>1. IsFiniteSet(S) BY KeysAreFinite, FS_Subset
<1>2. DueRows \in Seq(S) BY <1>1, SetToSeqLists DEF DueRows
<1>3. S \subseteq Key /\ \A k \in S : Due(k[1], k[2]) OBVIOUS
<1> HIDE DEF S
<1> QED BY <1>2, <1>3

\* Leaving a target keeps the types, and the next target starts with its read.
LEMMA NextTargetType ==
  ASSUME StateOK, NextTarget, grant # None, rows' \in [Key -> Row \cup {None}]
  PROVE  /\ action' \in Payload \cup {None}
         /\ grant' \in Walk(Canister) \cup {None} /\ (grant' # None => action' # None)
         /\ timer' \in Nat \cup {Never}
         /\ grant' # None => grant'.read = None /\ action' = action
<1>1. CASE Len(grant.todo) > 1
  <2>1. grant.todo \in Seq(Canister) BY DEF StateOK, Walk
  <2>2. Tail(grant.todo) \in Seq(Canister) \ {<<>>} BY <1>1, <2>1, TailOfSeq
  <2>3. grant' = [todo |-> Tail(grant.todo), read |-> None] /\ UNCHANGED <<action, timer>>
    BY <1>1 DEF NextTarget
  <2>4. grant' \in Walk(Canister) BY <2>2, <2>3 DEF Walk
  <2> QED BY <2>3, <2>4 DEF StateOK
<1>2. CASE ~(Len(grant.todo) > 1)
  BY <1>2, TimerType DEF NextTarget, StateOK
<1> QED BY <1>1, <1>2

\* So does leaving a row.
LEMMA NextRowType ==
  ASSUME StateOK, NEW x \in Ticks, NextRow(x), expiry[x] # None, rows' \in [Key -> Row \cup {None}]
  PROVE  /\ expiry' \in [Ticks -> Walk(Key) \cup {None}]
         /\ timer' \in Nat \cup {Never}
<1>1. CASE Len(expiry[x].todo) > 1
  <2>1. expiry[x].todo \in Seq(Key) BY DEF StateOK, Walk
  <2>2. Tail(expiry[x].todo) \in Seq(Key) \ {<<>>} BY <1>1, <2>1, TailOfSeq
  <2>3. expiry' = [expiry EXCEPT ![x] = [todo |-> Tail(expiry[x].todo), read |-> None]] /\ timer' = timer
    BY <1>1 DEF NextRow
  <2>4. [todo |-> Tail(expiry[x].todo), read |-> None] \in Walk(Key) BY <2>2 DEF Walk
  <2> QED BY <2>3, <2>4 DEF StateOK
<1>2. CASE ~(Len(expiry[x].todo) > 1)
  BY <1>2, TimerType DEF NextRow, StateOK
<1> QED BY <1>1, <1>2

\* What a grant or a revoke writes are controllers.
LEMMA GrantWriteType ==
  ASSUME StateOK, NEW c \in Canister, GrantWrites(c)
  PROVE  controllers' \in [Canister -> SUBSET Principal]
<1>1. grant.read \in SUBSET Principal /\ action.principal \in Principal
  BY DEF StateOK, GrantWrites, Writing, Walk, Payload
<1> QED BY <1>1 DEF StateOK, GrantWrites

\* What an expiry writes are controllers.
LEMMA ExpiryWriteType ==
  ASSUME StateOK, NEW x \in Ticks, NEW c \in Canister, NEW p \in Principal, ExpiryWrites(x, c, p)
  PROVE  controllers' \in [Canister -> SUBSET Principal]
<1>1. expiry[x].read \in SUBSET Principal
  BY DEF StateOK, ExpiryWrites, Writing, Walk
<1> QED BY <1>1 DEF StateOK, ExpiryWrites

\* Every step keeps the types.
LEMMA TypeStep ==
  ASSUME StateOK, [Next]_vars
  PROVE  StateOK'
<1> USE DEF StateOK
<1>1. CASE ProposeControllerGrant
  BY <1>1, BoundsAssumption DEF ProposeControllerGrant, Payloads, Payload
<1>2. CASE BeginGrant
  BY <1>2, CanistersAssumption DEF BeginGrant, Walk
<1>3. CASE GrantReadAdds
  <2>1. Head(grant.todo) \in Canister BY <1>3 DEF GrantReadAdds, GrantReads, Reading, Walk
  <2>2. rows' \in [Key -> Row \cup {None}]
    BY <1>3, <2>1 DEF GrantReadAdds, GrantReads, Reading, Track, Row, Payload
  <2>3. grant' \in Walk(Canister)
    BY <1>3, <2>1 DEF GrantReadAdds, GrantReads, Reading, WriteBack, Walk
  <2> QED BY <1>3, <2>2, <2>3 DEF GrantReadAdds, GrantReads, Reading, WriteBack
<1>4. CASE GrantReadKeeps
  <2>1. rows' \in [Key -> Row \cup {None}]
    BY <1>4 DEF GrantReadKeeps, GrantReads, Reading, Regrant, Track, Row, Payload
  <2> QED BY <1>4, <2>1, NextTargetType DEF GrantReadKeeps, GrantReads, Reading
<1>5. CASE GrantReadRevokes
  <2>1. rows' \in [Key -> Row \cup {None}]
    BY <1>5 DEF GrantReadRevokes, Untrack
  <2>2. Head(grant.todo) \in Canister BY <1>5 DEF GrantReadRevokes, GrantReads, Reading, Walk
  <2>3. CASE WriteBack(Head(grant.todo))
    <3>1. grant' \in Walk(Canister)
      BY <1>5, <2>2, <2>3 DEF GrantReadRevokes, GrantReads, Reading, WriteBack, Walk
    <3> QED BY <1>5, <2>1, <2>3, <3>1 DEF GrantReadRevokes, GrantReads, Reading, WriteBack
  <2>4. CASE NextTarget
    BY <1>5, <2>1, <2>4, NextTargetType DEF GrantReadRevokes, GrantReads, Reading
  <2> QED BY <1>5, <2>3, <2>4 DEF GrantReadRevokes
<1>6. CASE GrantWritten
  <2>1. PICK c \in Canister : GrantWrites(c) /\ IF action.revoke THEN Untrack(c, action.principal) ELSE UNCHANGED rows
    BY <1>6 DEF GrantWritten
  <2>2. rows' \in [Key -> Row \cup {None}] BY <2>1 DEF Untrack
  <2>3. controllers' \in [Canister -> SUBSET Principal] BY <2>1, GrantWriteType
  <2> QED BY <1>6, <2>1, <2>2, <2>3, NextTargetType DEF GrantWritten, GrantWrites, Writing
<1>7. CASE GrantCallFails
  <2>1. rows' \in [Key -> Row \cup {None}] BY <1>7 DEF GrantCallFails, Untrack
  <2> QED BY <1>7, <2>1, NextTargetType DEF GrantCallFails
<1>8. CASE TimerFires
  <2>1. CASE DueRows = <<>>
    BY <1>8, <2>1, TimerType DEF TimerFires
  <2>2. CASE DueRows # <<>>
    <3>1. [todo |-> DueRows, read |-> None] \in Walk(Key) BY <2>2, DueRowsAreDue DEF Walk
    <3> QED BY <1>8, <2>2, <3>1 DEF TimerFires
  <2> QED BY <2>1, <2>2
<1>9. ASSUME NEW x \in Ticks, ExpiryRead(x) PROVE StateOK'
  <2>1. rows' \in [Key -> Row \cup {None}] BY <1>9 DEF ExpiryRead, Untrack
  <2>2. CASE NextRow(x)
    BY <1>9, <2>1, <2>2, NextRowType DEF ExpiryRead, Reading
  <2>3. CASE ~NextRow(x)
    <3>1. expiry[x] \in Walk(Key) BY <1>9 DEF ExpiryRead, Reading
    <3>2. Head(expiry[x].todo)[1] \in Canister BY <3>1 DEF Walk, Key
    <3>3. expiry' = [expiry EXCEPT ![x].read = controllers[Head(expiry[x].todo)[1]]] /\ UNCHANGED <<rows, timer>>
      BY <1>9, <2>3 DEF ExpiryRead
    <3>4. [expiry[x] EXCEPT !.read = controllers[Head(expiry[x].todo)[1]]] \in Walk(Key) BY <3>1, <3>2 DEF Walk
    <3>5. expiry' \in [Ticks -> Walk(Key) \cup {None}] BY <3>3, <3>4
    <3> QED BY <1>9, <2>1, <3>3, <3>5 DEF ExpiryRead
  <2> QED BY <2>2, <2>3
<1>10. ASSUME NEW x \in Ticks, ExpiryWritten(x) PROVE StateOK'
  <2>1. PICK c \in Canister, p \in Principal : ExpiryWrites(x, c, p) /\ Untrack(c, p)
    BY <1>10 DEF ExpiryWritten
  <2>2. rows' \in [Key -> Row \cup {None}] BY <2>1 DEF Untrack
  <2>3. controllers' \in [Canister -> SUBSET Principal] BY <2>1, ExpiryWriteType
  <2>4. expiry' \in [Ticks -> Walk(Key) \cup {None}] /\ timer' \in Nat \cup {Never}
    BY <1>10, <2>1, <2>2, NextRowType DEF ExpiryWritten, ExpiryWrites, Writing
  <2> QED BY <1>10, <2>2, <2>3, <2>4 DEF ExpiryWritten
<1>11. ASSUME NEW x \in Ticks, ExpiryCallFails(x) PROVE StateOK'
  <2>1. expiry' \in [Ticks -> Walk(Key) \cup {None}] /\ timer' \in Nat \cup {Never}
    BY <1>11, NextRowType DEF ExpiryCallFails
  <2> QED BY <1>11, <2>1 DEF ExpiryCallFails
<1>12. CASE UpgradeBaton
  <2>1. controllers' \in [Canister -> SUBSET Principal]
    BY <1>12, GrantWriteType, ExpiryWriteType DEF UpgradeBaton, MayBeWritten
  <2> QED BY <1>12, <2>1, TimerType DEF UpgradeBaton, Idle
<1>13. CASE Tick
  BY <1>13 DEF Tick
<1>14. CASE UNCHANGED vars
  BY <1>14 DEF vars
<1> QED BY <1>1, <1>2, <1>3, <1>4, <1>5, <1>6, <1>7, <1>8, <1>9, <1>10, <1>11, <1>12, <1>13, <1>14
        DEF Next, GrantStep, ExpiryStep
-----------------------------------------------------------------------------
\* An executor that has left a target has read nothing of the next one.
LEMMA NextTargetReads ==
  ASSUME StateOK, NextTarget
  PROVE  ~Writing(grant')
BY DEF NextTarget, Writing

\* An expiry that has left a row has read nothing, and has only rows of its list left.
LEMMA NextRowStep ==
  ASSUME StateOK, NEW x \in Ticks, NextRow(x), expiry[x] # None
  PROVE  /\ \A y \in Ticks \ {x} : expiry'[y] = expiry[y]
         /\ ~Writing(expiry'[x])
         /\ expiry'[x] # None =>
              \A i \in DOMAIN expiry'[x].todo : \E j \in DOMAIN expiry[x].todo : expiry'[x].todo[i] = expiry[x].todo[j]
<1>1. CASE Len(expiry[x].todo) > 1
  <2>1. expiry[x].todo \in Seq(Key) BY DEF StateOK, Walk
  <2>2. expiry' = [expiry EXCEPT ![x] = [todo |-> Tail(expiry[x].todo), read |-> None]] BY <1>1 DEF NextRow
  <2>3. \A i \in DOMAIN Tail(expiry[x].todo) :
          i + 1 \in DOMAIN expiry[x].todo /\ Tail(expiry[x].todo)[i] = expiry[x].todo[i + 1]
    BY <1>1, <2>1
  <2>4. expiry'[x] = [todo |-> Tail(expiry[x].todo), read |-> None] /\ \A y \in Ticks \ {x} : expiry'[y] = expiry[y]
    BY <2>2 DEF StateOK
  <2> QED BY <2>3, <2>4 DEF Writing
<1>2. CASE ~(Len(expiry[x].todo) > 1)
  BY <1>2 DEF NextRow, Writing, StateOK
<1> QED BY <1>1, <1>2

\* Leaving a row keeps what BaseKept says of the executors.
LEMMA NextRowBase ==
  ASSUME StateOK, BaseKept, NEW x \in Ticks, NextRow(x), expiry[x] # None
  PROVE  /\ \A y \in Ticks : expiry'[y] # None => \A i \in DOMAIN expiry'[y].todo : expiry'[y].todo[i][2] \notin Base
         /\ \A y \in Ticks : Writing(expiry'[y]) => Base \subseteq expiry'[y].read
BY NextRowStep DEF BaseKept

\* The stop an executor is at is the first of its list.
LEMMA HeadOfWalk ==
  ASSUME NEW S, NEW w \in Walk(S)
  PROVE  /\ Head(w.todo) \in S
         /\ 1 \in DOMAIN w.todo /\ w.todo[1] = Head(w.todo)
BY DEF Walk

\* A grant or a revoke writes no list without Base.
LEMMA GrantWriteBase ==
  ASSUME StateOK, BaseKept, NEW c \in Canister, GrantWrites(c)
  PROVE  BaseStays'
BY DEF StateOK, BaseKept, BaseStays, GrantWrites

\* Neither does an expiry.
LEMMA ExpiryWriteBase ==
  ASSUME StateOK, BaseKept, NEW x \in Ticks, NEW c \in Canister, NEW p \in Principal, ExpiryWrites(x, c, p)
  PROVE  BaseStays'
<1>1. p \notin Base
  <2>1. expiry[x] \in Walk(Key) BY DEF ExpiryWrites, Writing, StateOK
  <2> QED BY <2>1, HeadOfWalk DEF ExpiryWrites, Writing, BaseKept
<1> QED BY <1>1 DEF StateOK, BaseKept, BaseStays, ExpiryWrites

\* Every step keeps BaseKept.
LEMMA BaseStep ==
  ASSUME StateOK, BaseKept, [Next]_vars
  PROVE  BaseKept'
<1> USE DEF BaseKept
<1>1. CASE ProposeControllerGrant
  BY <1>1 DEF ProposeControllerGrant, BaseStays, Tracked, Writing, StateOK
<1>2. CASE BeginGrant
  BY <1>2 DEF BeginGrant, BaseStays, Tracked, Writing
<1>3. CASE GrantReadAdds
  <2>1. Head(grant.todo) \in Canister /\ action.principal \notin Base
    BY <1>3, HeadOfWalk DEF GrantReadAdds, GrantReads, Reading, StateOK, BaseStays
  <2>2. \A c \in Canister, p \in Base : ~Tracked(c, p)'
    BY <1>3, <2>1 DEF GrantReadAdds, Track, Tracked, StateOK, Key, Principal
  <2> QED BY <1>3, <2>1, <2>2 DEF GrantReadAdds, GrantReads, Reading, Writing, WriteBack, BaseStays, StateOK, Walk
<1>4. CASE GrantReadKeeps
  <2>1. \A c \in Canister, p \in Base : ~Tracked(c, p)'
    BY <1>4, HeadOfWalk DEF GrantReadKeeps, GrantReads, Reading, Regrant, Track, Tracked, StateOK, Key, Principal
  <2> QED BY <1>4, <2>1, NextTargetReads DEF GrantReadKeeps, GrantReads, BaseStays, Writing
<1>5. CASE GrantReadRevokes
  <2>1. Head(grant.todo) \in Canister
    BY <1>5, HeadOfWalk DEF GrantReadRevokes, GrantReads, Reading, StateOK
  <2>2. \A c \in Canister, p \in Base : ~Tracked(c, p)'
    BY <1>5 DEF GrantReadRevokes, Untrack, Tracked, StateOK, Key, Principal
  <2>3. CASE Tracked(Head(grant.todo), action.principal) /\ WriteBack(Head(grant.todo)) /\ UNCHANGED rows
    <3>1. action.principal \notin Base BY <2>1, <2>3
    <3> QED BY <1>5, <2>1, <2>2, <2>3, <3>1 DEF GrantReadRevokes, GrantReads, Reading, Writing, WriteBack, BaseStays, StateOK, Walk
  <2>4. CASE NextTarget
    BY <1>5, <2>2, <2>4, NextTargetReads DEF GrantReadRevokes, GrantReads, BaseStays, Writing
  <2> QED BY <1>5, <2>3, <2>4 DEF GrantReadRevokes
<1>6. CASE GrantWritten
  <2>1. PICK c \in Canister : GrantWrites(c) /\ IF action.revoke THEN Untrack(c, action.principal) ELSE UNCHANGED rows
    BY <1>6 DEF GrantWritten
  <2>2. BaseStays' BY <2>1, GrantWriteBase
  <2>3. \A d \in Canister, p \in Base : ~Tracked(d, p)' BY <2>1 DEF Untrack, Tracked, StateOK, Key, Principal
  <2> QED BY <1>6, <2>2, <2>3, NextTargetReads DEF GrantWritten, Writing
<1>7. CASE GrantCallFails
  <2>1. \A d \in Canister, p \in Base : ~Tracked(d, p)'
    BY <1>7 DEF GrantCallFails, Untrack, Tracked, StateOK, Key, Principal
  <2> QED BY <1>7, <2>1, NextTargetReads DEF GrantCallFails, BaseStays, Writing
<1>8. CASE TimerFires
  <2>1. CASE DueRows = <<>>
    BY <1>8, <2>1 DEF TimerFires, BaseStays, Tracked, Writing
  <2>2. CASE DueRows # <<>>
    <3>1. \A i \in DOMAIN DueRows : DueRows[i][2] \notin Base
      BY DueRowsAreDue DEF Due, Key
    <3>2. expiry' = [expiry EXCEPT ![FreeTick] = [todo |-> DueRows, read |-> None]] BY <1>8, <2>2 DEF TimerFires
    <3>3. \A x \in Ticks : expiry'[x] = expiry[x] \/ expiry'[x] = [todo |-> DueRows, read |-> None]
      BY <3>2 DEF StateOK
    <3>4. \A x \in Ticks : expiry'[x] # None => \A i \in DOMAIN expiry'[x].todo : expiry'[x].todo[i][2] \notin Base
      BY <3>1, <3>3
    <3>5. \A x \in Ticks : Writing(expiry'[x]) => Base \subseteq expiry'[x].read BY <3>3 DEF Writing
    <3> QED BY <1>8, <2>2, <3>4, <3>5 DEF TimerFires, BaseStays, Tracked, Writing
  <2> QED BY <1>8, <2>1, <2>2
<1>9. ASSUME NEW x \in Ticks, ExpiryRead(x) PROVE BaseKept'
  <2>1. \A d \in Canister, p \in Base : ~Tracked(d, p)'
    BY <1>9 DEF ExpiryRead, Untrack, Tracked, StateOK, Key, Principal
  <2>2. CASE NextRow(x)
    BY <1>9, <2>1, <2>2, NextRowBase DEF ExpiryRead, Reading, BaseStays, Writing
  <2>3. CASE ~NextRow(x)
    <3>1. expiry[x] \in Walk(Key) BY <1>9 DEF ExpiryRead, Reading, StateOK
    <3>2. Head(expiry[x].todo)[1] \in Canister BY <3>1, HeadOfWalk DEF Key
    <3>3. expiry' = [expiry EXCEPT ![x].read = controllers[Head(expiry[x].todo)[1]]] BY <1>9, <2>3 DEF ExpiryRead
    <3>4. /\ expiry'[x] = [expiry[x] EXCEPT !.read = controllers[Head(expiry[x].todo)[1]]]
          /\ \A y \in Ticks \ {x} : expiry'[y] = expiry[y]
      BY <3>3 DEF StateOK
    <3>5. expiry'[x].todo = expiry[x].todo /\ expiry'[x].read = controllers[Head(expiry[x].todo)[1]] /\ expiry[x] # None
      BY <1>9, <3>1, <3>4 DEF Walk, ExpiryRead, Reading
    <3>6. Base \subseteq expiry'[x].read BY <3>2, <3>5 DEF BaseStays
    <3>7. \A y \in Ticks : expiry'[y] # None => \A i \in DOMAIN expiry'[y].todo : expiry'[y].todo[i][2] \notin Base
      BY <3>4, <3>5
    <3>8. \A y \in Ticks : Writing(expiry'[y]) => Base \subseteq expiry'[y].read BY <3>4, <3>6
    <3> QED BY <1>9, <2>1, <3>7, <3>8 DEF ExpiryRead, BaseStays, Writing
  <2> QED BY <2>2, <2>3
<1>10. ASSUME NEW x \in Ticks, ExpiryWritten(x) PROVE BaseKept'
  <2>1. PICK c \in Canister, p \in Principal : ExpiryWrites(x, c, p) /\ Untrack(c, p)
    BY <1>10 DEF ExpiryWritten
  <2>2. BaseStays' BY <2>1, ExpiryWriteBase
  <2>3. \A d \in Canister, q \in Base : ~Tracked(d, q)' BY <2>1 DEF Untrack, Tracked, StateOK, Key, Principal
  <2>4. /\ \A y \in Ticks : expiry'[y] # None => \A i \in DOMAIN expiry'[y].todo : expiry'[y].todo[i][2] \notin Base
        /\ \A y \in Ticks : Writing(expiry'[y]) => Base \subseteq expiry'[y].read
    BY <1>10, <2>1, NextRowBase DEF ExpiryWritten, ExpiryWrites, Writing
  <2> QED BY <1>10, <2>2, <2>3, <2>4 DEF ExpiryWritten, Writing
<1>11. ASSUME NEW x \in Ticks, ExpiryCallFails(x) PROVE BaseKept'
  <2>1. /\ \A y \in Ticks : expiry'[y] # None => \A i \in DOMAIN expiry'[y].todo : expiry'[y].todo[i][2] \notin Base
        /\ \A y \in Ticks : Writing(expiry'[y]) => Base \subseteq expiry'[y].read
    BY <1>11, NextRowBase DEF ExpiryCallFails
  <2> QED BY <1>11, <2>1 DEF ExpiryCallFails, BaseStays, Tracked, Writing
<1>12. CASE UpgradeBaton
  <2>1. BaseStays' BY <1>12, GrantWriteBase, ExpiryWriteBase DEF UpgradeBaton, MayBeWritten, BaseStays
  <2> QED BY <1>12, <2>1 DEF UpgradeBaton, Tracked, Writing, Idle
<1>13. CASE Tick
  BY <1>13 DEF Tick, BaseStays, Tracked, Writing
<1>14. CASE UNCHANGED vars
  BY <1>14 DEF vars, BaseStays, Tracked, Writing
<1> QED BY <1>1, <1>2, <1>3, <1>4, <1>5, <1>6, <1>7, <1>8, <1>9, <1>10, <1>11, <1>12, <1>13, <1>14
        DEF Next, GrantStep, ExpiryStep
-----------------------------------------------------------------------------
\* Grantees stay tracked where controllers stay as they are and no row of one goes,
LEMMA RowsCover ==
  ASSUME GranteesAreTracked, controllers' = controllers,
         \A c \in Canister : \A p \in controllers[c] \ Base : Tracked(c, p) => Tracked(c, p)'
  PROVE  GranteesAreTracked'
BY DEF GranteesAreTracked, Tracked

\* so they do where nothing is written.
LEMMA RowsStay ==
  ASSUME GranteesAreTracked, controllers' = controllers, rows' = rows
  PROVE  GranteesAreTracked'
BY DEF GranteesAreTracked, Tracked

\* Writing a row leaves it, and every other row there was.
LEMMA TrackKeeps ==
  ASSUME StateOK, NEW c \in Canister, NEW p \in Principal, NEW e \in Nat \cup {Never}, Track(c, p, e)
  PROVE  /\ rows'[<<c, p>>] # None
         /\ \A d \in Canister, q \in Principal : Tracked(d, q) => Tracked(d, q)'
<1>1. [expires |-> e] # None BY NamesAssumption DEF Row
<1> QED BY <1>1 DEF StateOK, Track, Tracked, Key

\* Forgetting a row leaves the others.
LEMMA UntrackKeeps ==
  ASSUME StateOK, NEW c \in Canister, NEW p \in Principal, Untrack(c, p)
  PROVE  \A d \in Canister, q \in Principal : <<d, q>> # <<c, p>> /\ Tracked(d, q) => Tracked(d, q)'
BY DEF StateOK, Untrack, Tracked, Key

\* Controllers are principals.
LEMMA ControllersArePrincipals ==
  ASSUME StateOK, NEW c \in Canister, NEW p \in controllers[c]
  PROVE  p \in Principal
BY DEF StateOK

\* Every step keeps TrackKept.
LEMMA TrackStep ==
  ASSUME StateOK, TrackKept, [Next]_vars
  PROVE  TrackKept'
<1> SUFFICES ASSUME ~overlapped'
             PROVE  OneAtATime' /\ GranteesAreTracked' /\ GrantIsFresh' /\ ExpiryIsFresh'
  BY DEF TrackKept
<1>0. ~overlapped
  BY DEF Next, vars, GrantStep, ExpiryStep, ProposeControllerGrant, BeginGrant, GrantReadAdds, GrantReadKeeps,
     GrantReadRevokes, GrantReads, GrantWritten, GrantCallFails, TimerFires, ExpiryRead, ExpiryWritten,
     ExpiryCallFails, UpgradeBaton, Tick
<1>a. OneAtATime /\ GranteesAreTracked /\ GrantIsFresh /\ ExpiryIsFresh BY <1>0 DEF TrackKept
<1>b. ASSUME grant # None
      PROVE  /\ expiry = Idle
             /\ Head(grant.todo) \in Canister /\ action # None
             /\ action.principal \in Principal /\ action.expires \in Nat \cup {Never}
             /\ grant \in Walk(Canister)
  BY <1>a, <1>b, HeadOfWalk DEF OneAtATime, StateOK, Payload
<1>c. ASSUME NEW x \in Ticks, expiry[x] # None
      PROVE  /\ grant = None /\ \A y \in Ticks \ {x} : expiry[y] = None
             /\ Head(expiry[x].todo)[1] \in Canister /\ Head(expiry[x].todo)[2] \in Principal
             /\ Head(expiry[x].todo) = <<Head(expiry[x].todo)[1], Head(expiry[x].todo)[2]>>
             /\ expiry[x] \in Walk(Key)
  <2>1. expiry[x] \in Walk(Key) BY <1>c DEF StateOK
  <2>2. Head(expiry[x].todo) \in Key BY <2>1, HeadOfWalk
  <2>3. expiry # Idle BY <1>c DEF Idle
  <2> QED BY <1>a, <1>c, <2>1, <2>2, <2>3 DEF OneAtATime, Key
<1>d. ASSUME expiry' = Idle PROVE ExpiryIsFresh' /\ OneAtATime'
  BY <1>d DEF ExpiryIsFresh, OneAtATime, Writing, Idle
<1>e. ASSUME grant' = None PROVE GrantIsFresh' BY <1>e DEF GrantIsFresh, Writing
<1>f. ASSUME NextTarget PROVE GrantIsFresh' BY <1>f DEF NextTarget, GrantIsFresh, Writing
<1>g. ASSUME NEW x \in Ticks, expiry[x] # None, NextRow(x), grant' = None
      PROVE  ExpiryIsFresh' /\ OneAtATime'
  <2>1. \A y \in Ticks \ {x} : expiry'[y] = None BY <1>c, <1>g, NextRowStep
  <2> QED BY <1>g, <2>1, NextRowStep DEF ExpiryIsFresh, OneAtATime, Writing
<1>1. CASE ProposeControllerGrant
  <2>1. grant = None BY <1>1 DEF ProposeControllerGrant, StateOK
  <2> QED BY <1>1, <1>a, <1>e, <2>1, RowsStay DEF ProposeControllerGrant, OneAtATime, ExpiryIsFresh, Writing
<1>2. CASE BeginGrant
  <2>1. expiry = Idle BY <1>2 DEF BeginGrant
  <2> QED BY <1>2, <1>a, <1>d, <2>1, RowsStay DEF BeginGrant, OneAtATime, GrantIsFresh, Writing
<1>3. CASE GrantReadAdds
  <2>1. grant # None BY <1>3 DEF GrantReadAdds, GrantReads, Reading
  <2>2. rows'[<<Head(grant.todo), action.principal>>] # None /\ GranteesAreTracked'
    <3>1. Track(Head(grant.todo), action.principal, action.expires) /\ controllers' = controllers
      BY <1>3 DEF GrantReadAdds, GrantReads
    <3>2. /\ rows'[<<Head(grant.todo), action.principal>>] # None
          /\ \A d \in Canister, q \in Principal : Tracked(d, q) => Tracked(d, q)'
      <4>1. /\ Head(grant.todo) \in Canister /\ action.principal \in Principal
            /\ action.expires \in Nat \cup {Never}
        BY <1>b, <2>1
      <4> QED BY <3>1, <4>1, TrackKeeps
    <3> QED BY <1>a, <3>1, <3>2, RowsCover, ControllersArePrincipals
  <2>3. /\ grant'.todo = grant.todo /\ grant'.read = controllers[Head(grant.todo)]
        /\ action' = action /\ controllers' = controllers /\ expiry' = expiry
        /\ action.principal \notin controllers[Head(grant.todo)]
    BY <1>3, <1>b, <2>1 DEF GrantReadAdds, GrantReads, WriteBack, Walk
  <2>4. GrantIsFresh' BY <2>2, <2>3 DEF GrantIsFresh, Tracked
  <2> QED BY <1>b, <1>d, <2>1, <2>2, <2>3, <2>4 DEF OneAtATime
<1>4. CASE GrantReadKeeps
  <2>1. grant # None BY <1>4 DEF GrantReadKeeps, GrantReads, Reading
  <2>2. GranteesAreTracked'
    <3>1. CASE Tracked(Head(grant.todo), action.principal)
      BY <1>4, <1>a, <1>b, <2>1, <3>1, TrackKeeps, RowsCover, ControllersArePrincipals DEF GrantReadKeeps, GrantReads, Regrant
    <3>2. CASE ~Tracked(Head(grant.todo), action.principal)
      BY <1>4, <1>a, <3>2, RowsStay DEF GrantReadKeeps, GrantReads, Regrant
    <3> QED BY <3>1, <3>2
  <2> QED BY <1>4, <1>b, <1>d, <1>f, <2>1, <2>2 DEF GrantReadKeeps, GrantReads, OneAtATime
<1>5. CASE GrantReadRevokes
  <2>1. /\ grant # None /\ action.revoke
        /\ controllers' = controllers /\ expiry' = expiry
    BY <1>5 DEF GrantReadRevokes, GrantReads, Reading
  <2>2. CASE WriteBack(Head(grant.todo)) /\ UNCHANGED rows
    <3>1. /\ grant'.todo = grant.todo /\ grant'.read = controllers[Head(grant.todo)] /\ action' = action
      BY <1>b, <2>1, <2>2 DEF WriteBack, Walk
    <3>2. GrantIsFresh' BY <2>1, <3>1 DEF GrantIsFresh
    <3> QED BY <1>a, <1>b, <1>d, <2>1, <2>2, <3>2, RowsStay DEF OneAtATime
  <2>3. CASE NextTarget /\ UNCHANGED rows
    BY <1>a, <1>b, <1>d, <1>f, <2>1, <2>3, RowsStay DEF OneAtATime
  <2>4. CASE action.principal \notin controllers[Head(grant.todo)] /\ Untrack(Head(grant.todo), action.principal) /\ NextTarget
    <3>1. GranteesAreTracked'
      BY <1>a, <1>b, <2>1, <2>4, UntrackKeeps, RowsCover, ControllersArePrincipals
    <3> QED BY <1>b, <1>d, <1>f, <2>1, <2>4, <3>1 DEF OneAtATime
  <2> QED BY <1>5, <2>2, <2>3, <2>4 DEF GrantReadRevokes
<1>6. CASE GrantWritten
  <2>1. PICK c \in Canister : GrantWrites(c) /\ IF action.revoke THEN Untrack(c, action.principal) ELSE UNCHANGED rows
    BY <1>6 DEF GrantWritten
  <2>2. grant # None /\ c = Head(grant.todo) /\ Writing(grant) BY <2>1 DEF GrantWrites, Writing
  <2>3. GranteesAreTracked'
    <3>1. CASE action.revoke
      <4>1. controllers' = [controllers EXCEPT ![c] = controllers[c] \ {action.principal}]
        BY <1>a, <2>1, <2>2, <3>1 DEF GrantWrites, GrantIsFresh
      <4>2. \A d \in Canister, q \in Principal : <<d, q>> # <<c, action.principal>> /\ Tracked(d, q) => Tracked(d, q)'
        BY <1>b, <2>1, <2>2, <3>1, UntrackKeeps
      <4>3. \A d \in Canister : \A q \in controllers'[d] \ Base :
              q \in controllers[d] /\ q \in Principal /\ <<d, q>> # <<c, action.principal>>
        BY <4>1 DEF StateOK
      <4> QED BY <1>a, <4>2, <4>3 DEF GranteesAreTracked, Tracked
    <3>2. CASE ~action.revoke
      <4>1. controllers' = [controllers EXCEPT ![c] = controllers[c] \cup {action.principal}]
        BY <1>a, <2>1, <2>2, <3>2 DEF GrantWrites, GrantIsFresh
      <4>2. rows' = rows /\ Tracked(c, action.principal) BY <1>a, <2>1, <2>2, <3>2 DEF GrantIsFresh
      <4> QED BY <1>a, <4>1, <4>2 DEF GranteesAreTracked, Tracked, StateOK
    <3>3. action.revoke \in BOOLEAN BY <1>b, <2>2 DEF StateOK, Payload
    <3> QED BY <3>1, <3>2
  <2> QED BY <1>6, <1>b, <1>d, <1>f, <2>2, <2>3 DEF GrantWritten, OneAtATime
<1>7. CASE GrantCallFails
  <2>1. /\ grant # None /\ NextTarget /\ controllers' = controllers /\ expiry' = expiry
        /\ IF Writing(grant) /\ ~action.revoke THEN Untrack(Head(grant.todo), action.principal) ELSE UNCHANGED rows
    BY <1>7 DEF GrantCallFails
  <2>2. GranteesAreTracked'
    <3>1. CASE Writing(grant) /\ ~action.revoke
      <4>1. action.principal \notin controllers[Head(grant.todo)] BY <1>a, <3>1 DEF GrantIsFresh
      <4> QED BY <1>a, <1>b, <2>1, <3>1, <4>1, UntrackKeeps, RowsCover, ControllersArePrincipals
    <3>2. CASE ~(Writing(grant) /\ ~action.revoke)
      BY <1>a, <2>1, <3>2, RowsStay
    <3> QED BY <3>1, <3>2
  <2> QED BY <1>b, <1>d, <1>f, <2>1, <2>2 DEF OneAtATime
<1>8. CASE TimerFires
  <2>1. controllers' = controllers /\ rows' = rows /\ grant' = grant /\ action' = action
    BY <1>8 DEF TimerFires
  <2>2. GrantIsFresh' BY <1>a, <2>1 DEF GrantIsFresh, Tracked
  <2>3. CASE expiry' = expiry
    BY <1>a, <2>1, <2>2, <2>3, RowsStay DEF OneAtATime, ExpiryIsFresh, Idle
  <2>4. CASE DueRows # <<>>
    <3>1. grant = None /\ expiry = Idle BY <1>8, <2>4 DEF TimerFires
    <3>2. expiry' = [expiry EXCEPT ![FreeTick] = [todo |-> DueRows, read |-> None]] BY <1>8, <2>4 DEF TimerFires
    <3>3. \A x \in Ticks : expiry'[x] = IF x = FreeTick THEN [todo |-> DueRows, read |-> None] ELSE None
      BY <3>1, <3>2 DEF Idle
    <3>4. ExpiryIsFresh' /\ OneAtATime' BY <2>1, <3>1, <3>3 DEF ExpiryIsFresh, OneAtATime, Writing
    <3> QED BY <1>a, <2>1, <2>2, <3>4, RowsStay
  <2> QED BY <1>8, <2>3, <2>4 DEF TimerFires
<1>9. ASSUME NEW x \in Ticks, ExpiryRead(x) PROVE GranteesAreTracked' /\ OneAtATime' /\ GrantIsFresh' /\ ExpiryIsFresh'
  <2>1. /\ expiry[x] # None /\ controllers' = controllers /\ grant' = grant
    BY <1>9 DEF ExpiryRead, Reading
  <2>0. grant = None BY <1>c, <2>1
  <2> DEFINE c == Head(expiry[x].todo)[1]
             p == Head(expiry[x].todo)[2]
  <2>2. CASE p \notin controllers[c] /\ Untrack(c, p) /\ NextRow(x)
    <3>1. GranteesAreTracked'
      BY <1>a, <1>c, <2>1, <2>2, UntrackKeeps, RowsCover, ControllersArePrincipals
    <3> QED BY <1>e, <1>g, <2>0, <2>1, <2>2, <3>1
  <2>3. CASE expiry' = [expiry EXCEPT ![x].read = controllers[c]] /\ UNCHANGED <<rows, timer>>
    <3>1. expiry \in [Ticks -> Walk(Key) \cup {None}] /\ expiry[x] \in Walk(Key) BY <1>c, <2>1 DEF StateOK
    <3>2. /\ expiry'[x] = [expiry[x] EXCEPT !.read = controllers[c]]
          /\ \A y \in Ticks \ {x} : expiry'[y] = None
      BY <1>c, <2>1, <2>3, <3>1
    <3>3. expiry'[x].read = controllers[c] /\ expiry'[x].todo = expiry[x].todo BY <3>1, <3>2 DEF Walk
    <3>4. ExpiryIsFresh' /\ OneAtATime' BY <2>0, <2>1, <3>2, <3>3 DEF ExpiryIsFresh, OneAtATime, Writing
    <3> QED BY <1>a, <1>e, <2>0, <2>1, <2>3, <3>4, RowsStay
  <2> QED BY <1>9, <2>2, <2>3 DEF ExpiryRead
<1>10. ASSUME NEW x \in Ticks, ExpiryWritten(x) PROVE GranteesAreTracked' /\ OneAtATime' /\ GrantIsFresh' /\ ExpiryIsFresh'
  <2>1. PICK c \in Canister, p \in Principal : ExpiryWrites(x, c, p) /\ Untrack(c, p)
    BY <1>10 DEF ExpiryWritten
  <2>2. expiry[x] # None /\ Writing(expiry[x]) /\ <<c, p>> = Head(expiry[x].todo) BY <2>1 DEF ExpiryWrites, Writing
  <2>3. controllers' = [controllers EXCEPT ![c] = controllers[c] \ {p}]
    <3>1. Head(expiry[x].todo)[1] = c BY <2>2
    <3>2. expiry[x].read = controllers[c] BY <1>a, <2>2, <3>1 DEF ExpiryIsFresh
    <3> QED BY <2>1, <3>2 DEF ExpiryWrites
  <2>4. \A d \in Canister : \A q \in controllers'[d] \ Base :
          q \in controllers[d] /\ q \in Principal /\ <<d, q>> # <<c, p>>
    BY <2>3 DEF StateOK
  <2>5. \A d \in Canister, q \in Principal : <<d, q>> # <<c, p>> /\ Tracked(d, q) => Tracked(d, q)'
    BY <2>1, UntrackKeeps
  <2>6. GranteesAreTracked' BY <1>a, <2>4, <2>5 DEF GranteesAreTracked, Tracked
  <2>7. grant' = None /\ NextRow(x) BY <1>10, <1>c, <2>2 DEF ExpiryWritten
  <2> QED BY <1>e, <1>g, <2>2, <2>6, <2>7
<1>11. ASSUME NEW x \in Ticks, ExpiryCallFails(x) PROVE GranteesAreTracked' /\ OneAtATime' /\ GrantIsFresh' /\ ExpiryIsFresh'
  <2>1. expiry[x] # None /\ NextRow(x) /\ controllers' = controllers /\ rows' = rows /\ grant' = grant
    BY <1>11 DEF ExpiryCallFails
  <2>2. grant' = None BY <1>c, <2>1
  <2> QED BY <1>a, <1>e, <1>g, <2>1, <2>2, RowsStay
<1>12. CASE UpgradeBaton
  <2>1. GranteesAreTracked'
    <3>1. CASE UNCHANGED controllers
      BY <1>12, <1>a, <3>1, RowsStay DEF UpgradeBaton
    <3>2. ASSUME NEW c \in Canister, GrantWrites(c) PROVE GranteesAreTracked'
      <4>1. grant # None /\ c = Head(grant.todo) /\ Writing(grant) BY <3>2 DEF GrantWrites, Writing
      <4>2. \A d \in Canister : \A q \in controllers'[d] : q \in controllers[d] \/ (d = c /\ q = action.principal /\ ~action.revoke)
        BY <1>a, <3>2, <4>1 DEF GrantWrites, GrantIsFresh, StateOK
      <4>3. ~action.revoke => Tracked(c, action.principal) BY <1>a, <4>1 DEF GrantIsFresh
      <4> QED BY <1>12, <1>a, <4>2, <4>3 DEF UpgradeBaton, GranteesAreTracked, Tracked
    <3>3. ASSUME NEW x \in Ticks, NEW c \in Canister, NEW p \in Principal, ExpiryWrites(x, c, p) PROVE GranteesAreTracked'
      <4>1. expiry[x] # None /\ c = Head(expiry[x].todo)[1] /\ Writing(expiry[x]) BY <3>3 DEF ExpiryWrites, Writing
      <4>2. \A d \in Canister : \A q \in controllers'[d] : q \in controllers[d]
        BY <1>a, <3>3, <4>1 DEF ExpiryWrites, ExpiryIsFresh, StateOK
      <4> QED BY <1>12, <1>a, <4>2 DEF UpgradeBaton, GranteesAreTracked, Tracked
    <3> QED BY <1>12, <3>1, <3>2, <3>3 DEF UpgradeBaton, MayBeWritten
  <2> QED BY <1>12, <1>d, <1>e, <2>1 DEF UpgradeBaton, OneAtATime
<1>13. CASE Tick
  BY <1>13, <1>a, RowsStay DEF Tick, OneAtATime, GrantIsFresh, ExpiryIsFresh, Writing, Tracked, Idle
<1>14. CASE UNCHANGED vars
  BY <1>14, <1>a, RowsStay DEF vars, OneAtATime, GrantIsFresh, ExpiryIsFresh, Writing, Tracked, Idle
<1> QED BY <1>1, <1>2, <1>3, <1>4, <1>5, <1>6, <1>7, <1>8, <1>9, <1>10, <1>11, <1>12, <1>13, <1>14
        DEF Next, GrantStep, ExpiryStep
-----------------------------------------------------------------------------
\* The inductive invariant holds at first.
LEMMA InitIInv == Init => IInv
<1> SUFFICES ASSUME Init PROVE IInv OBVIOUS
<1>1. StateOK BY DEF Init, StateOK, Principal, Key, Idle
<1>2. BaseKept BY DEF Init, BaseKept, BaseStays, Tracked, Writing, Principal, Key, Idle
<1>3. TrackKept BY DEF Init, TrackKept, OneAtATime, GranteesAreTracked, GrantIsFresh, ExpiryIsFresh, Writing, Idle
<1> QED BY <1>1, <1>2, <1>3 DEF IInv

\* Every step keeps it.
LEMMA NextIInv == IInv /\ [Next]_vars => IInv'
BY TypeStep, BaseStep, TrackStep DEF IInv

\* Rows, controllers and both executors keep their types in every behaviour.
THEOREM TypeCorrect == Spec => []TypeOK
<1>1. IInv => TypeOK BY StateIsTypeOK DEF IInv
<1> QED BY <1>1, InitIInv, NextIInv, PTL DEF Spec

\* "The multisig, the conductor and the baton stay controllers", whatever is
\* granted, revoked or expires, in whatever order, whatever fails.
THEOREM BaseControlsForGood == Spec => []BaseStays
<1>1. IInv => BaseStays BY DEF IInv, BaseKept
<1> QED BY <1>1, InitIInv, NextIInv, PTL DEF Spec

\* As long as no two executors have been under way together, whoever is a controller
\* beyond Base has a row that says until when.
THEOREM GrantsAreTracked == Spec => []TrackedUnlessOverlapped
<1>1. IInv => TrackedUnlessOverlapped BY DEF IInv, TrackKept, TrackedUnlessOverlapped
<1> QED BY <1>1, InitIInv, NextIInv, PTL DEF Spec
=============================================================================
