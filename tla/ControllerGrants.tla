-------------------------- MODULE ControllerGrants --------------------------
(***************************************************************************)
(* Controller grants (baton/src/controllers.py and the parts of main.py    *)
(* that run them): an approved grant or revoke walks its targets, a timer  *)
(* takes expired principals off again.  Both read a canister's controllers, *)
(* wait for the answer, write the whole list back and wait again, and      *)
(* neither looks at the other.  A grant that ends beside an expiry arms    *)
(* the timer again, so a second expiry may begin beside the first.         *)
(*                                                                         *)
(* Rows are in stable memory and written at once; the record of the action *)
(* stays APPROVED until its calls are over, so an executor that dies       *)
(* starts again at the first target.                                       *)
(***************************************************************************)
EXTENDS Naturals, Sequences, FiniteSets, SequencesExt, FiniteSetsExt

CONSTANTS
  None, Never,   \* no executor; no expiry
  Ticks,         \* bound: executors of the timer that may be under way together
  Canisters,     \* managed canisters, in the order of a proposal's targets
  Base,          \* their controllers: the baton, the multisig, the conductor
  Grantees,      \* principals proposals name; they may name one of Base too
  Horizon,       \* how far ahead an expiry may lie (MAX_GRANT_NS)
  RetryAfter,    \* GRANT_RETRY_SECS
  MaxNow,        \* bound: the clock stops here
  MaxGrants,     \* bound: actions approved one after the other
  MaxFailures,   \* bound: calls that answer an error
  MaxUpgrades    \* bound: upgrades of the baton

Canister == ToSet(Canisters)
Principal == Base \cup Grantees
Row == [expires : Nat \cup {Never}]

ASSUME CanistersAssumption == Canisters \in Seq(Canister) /\ IsInjective(Canisters) /\ Canisters # <<>>
ASSUME BoundsAssumption ==
  /\ Horizon \in Nat \ {0} /\ RetryAfter \in Nat \ {0} /\ MaxNow \in Nat
  /\ MaxGrants \in Nat /\ MaxFailures \in Nat /\ MaxUpgrades \in Nat
ASSUME NamesAssumption == None \notin Row /\ Never \notin Nat
ASSUME PrincipalsAssumption == IsFiniteSet(Base) /\ IsFiniteSet(Grantees)

VARIABLES
  controllers,  \* Canister -> its controllers on the IC
  rows,         \* <<canister, principal>> -> its grant row, or None
  action,       \* the approved action: what it grants or revokes, or None
  grant,        \* the executor of the action, or None
  expiry,       \* Ticks -> an executor of the timer, or None
  timer,        \* when the timer is due, or Never; main memory
  overlapped,   \* history: two executors have been under way together
  now, granted, failures, upgrades

vars == <<controllers, rows, action, grant, expiry, timer, overlapped, now, granted, failures, upgrades>>

Key == Canister \X Principal
Tracked(c, p) == rows[<<c, p>>] # None
Due(c, p) == Tracked(c, p) /\ rows[<<c, p>>].expires # Never /\ rows[<<c, p>>].expires <= now
Track(c, p, e) == rows' = [rows EXCEPT ![<<c, p>>] = [expires |-> e]]
Untrack(c, p) == rows' = [rows EXCEPT ![<<c, p>>] = None]
Idle == [x \in Ticks |-> None]
Fails == failures < MaxFailures /\ failures' = failures + 1

TypeOK ==
  /\ controllers \in [Canister -> SUBSET Principal]
  /\ rows \in [Key -> Row \cup {None}]
  /\ action # None => action.principal \in Principal /\ action.revoke \in BOOLEAN
  /\ grant # None => action # None /\ Head(grant.todo) \in Canister /\ grant.read \in (SUBSET Principal) \cup {None}
  /\ \A x \in Ticks :
       expiry[x] # None => Head(expiry[x].todo) \in Key /\ expiry[x].read \in (SUBSET Principal) \cup {None}
  /\ timer \in Nat \cup {Never}

Init ==
  /\ controllers = [c \in Canister |-> Base]
  /\ rows = [k \in Key |-> None]
  /\ action = None /\ grant = None /\ expiry = Idle /\ timer = Never
  /\ overlapped = FALSE
  /\ now = 0 /\ granted = 0 /\ failures = 0 /\ upgrades = 0
-----------------------------------------------------------------------------
\* next_due: the soonest expiry of the rows r.
NextDue(r) ==
  LET expiring == {k \in Key : r[k] # None /\ r[k].expires # Never}
  IN IF expiring = {} THEN Never ELSE Min({r[k].expires : k \in expiring})

\* _arm_grant_timer: one timer for the soonest, a due one again a while on.
TimerFor(r) ==
  IF NextDue(r) = Never THEN Never
  ELSE IF NextDue(r) < now THEN now + RetryAfter ELSE NextDue(r)

\* not_revocable: a revoke is filed only where a grant added the principal.
Revocable(p) == \A c \in Canister : Tracked(c, p)

\* validate_grant_payload: an expiry lies ahead, but not too far, and a revoke has none.
Payloads ==
  {a \in [principal : Principal, revoke : BOOLEAN, expires : {now + d : d \in 1..Horizon} \cup {Never}] :
     a.revoke => a.expires = Never}

\* propose_controller_grant and its approval (see BatonActions).
ProposeControllerGrant ==
  /\ action = None
  /\ granted < MaxGrants /\ granted' = granted + 1
  /\ \E payload \in Payloads :
       /\ payload.revoke => Revocable(payload.principal)
       /\ action' = payload
  /\ UNCHANGED <<controllers, rows, grant, expiry, timer, overlapped, now, failures, upgrades>>

\* _execute_controller_grant_gen, also for one found APPROVED again.
BeginGrant ==
  /\ action # None /\ grant = None
  /\ grant' = [todo |-> Canisters, read |-> None]
  /\ overlapped' = (overlapped \/ expiry # Idle)
  /\ UNCHANGED <<controllers, rows, action, expiry, timer, now, granted, failures, upgrades>>

\* The target at the head is done; after the last the timer is armed and the
\* action ends.
NextTarget ==
  IF Len(grant.todo) > 1
  THEN grant' = [todo |-> Tail(grant.todo), read |-> None] /\ UNCHANGED <<action, timer>>
  ELSE grant' = None /\ action' = None /\ timer' = TimerFor(rows')

Reading(r) == r # None /\ r.read = None
Writing(r) == r # None /\ r.read # None

\* The answer to canister_status decides what is left to do on the target; a
\* write goes back with the list as it was read.
GrantReads == Reading(grant) /\ UNCHANGED <<controllers, expiry, overlapped, now, granted, failures, upgrades>>
WriteBack(c) == grant' = [grant EXCEPT !.read = controllers[c]] /\ UNCHANGED <<action, timer>>

\* Mutant: a grant leaves no row before its write.
GrantReadAddsUntracked ==
  /\ GrantReads /\ ~action.revoke
  /\ LET c == Head(grant.todo) IN
     /\ action.principal \notin controllers[c]
     /\ WriteBack(c) /\ UNCHANGED rows

\* "A grant writes its row before it changes the controllers."
GrantReadAdds ==
  /\ GrantReads /\ ~action.revoke
  /\ LET c == Head(grant.todo) IN
     /\ action.principal \notin controllers[c]
     /\ Track(c, action.principal, action.expires)
     /\ WriteBack(c)

\* Mutant: who is a controller already gets a row too.
RegrantAny(c) == Track(c, action.principal, action.expires)

\* "A principal already a controller keeps no new row, but a row it has gets the
\* new expiry."
Regrant(c) ==
  IF Tracked(c, action.principal) THEN Track(c, action.principal, action.expires) ELSE UNCHANGED rows

GrantReadKeeps ==
  /\ GrantReads /\ ~action.revoke
  /\ LET c == Head(grant.todo) IN
     /\ action.principal \in controllers[c]
     /\ Regrant(c)
  /\ NextTarget

\* A revoke of a principal without a row is a problem, one of a principal that is
\* gone already only forgets its row.
GrantReadRevokes ==
  /\ GrantReads /\ action.revoke
  /\ LET c == Head(grant.todo)
         p == action.principal
     IN \/ Tracked(c, p) /\ p \in controllers[c] /\ WriteBack(c) /\ UNCHANGED rows
        \/ Tracked(c, p) /\ p \notin controllers[c] /\ Untrack(c, p) /\ NextTarget
        \/ ~Tracked(c, p) /\ UNCHANGED rows /\ NextTarget

\* update_settings of a grant, with the list as it was read.
GrantWrites(c) ==
  /\ Writing(grant) /\ c = Head(grant.todo)
  /\ controllers' = [controllers EXCEPT ![c] = IF action.revoke THEN grant.read \ {action.principal}
                                                ELSE grant.read \cup {action.principal}]

GrantWritten ==
  /\ \E c \in Canister :
       GrantWrites(c) /\ IF action.revoke THEN Untrack(c, action.principal) ELSE UNCHANGED rows
  /\ NextTarget
  /\ UNCHANGED <<expiry, overlapped, now, granted, failures, upgrades>>

\* A call of the target fails, and was not done (the management canister does not do what
\* it refuses): a problem of the action. A grant that could not
\* write takes its row back.
GrantCallFails ==
  /\ grant # None /\ Fails
  /\ IF Writing(grant) /\ ~action.revoke THEN Untrack(Head(grant.todo), action.principal) ELSE UNCHANGED rows
  /\ NextTarget
  /\ UNCHANGED <<controllers, expiry, overlapped, now, granted, upgrades>>
-----------------------------------------------------------------------------
\* expire_gen: the rows due now are listed before its first await.  Nobody asks whether
\* an earlier one is still at work.
DueRows == SetToSeq({k \in Key : Due(k[1], k[2])})

FreeTick == CHOOSE x \in Ticks : expiry[x] = None
TimerFires ==
  /\ timer # Never /\ timer <= now
  /\ \/ DueRows = <<>> /\ timer' = TimerFor(rows) /\ UNCHANGED <<expiry, overlapped>>
     \/ /\ DueRows # <<>> /\ timer' = Never
        /\ \E x \in Ticks : expiry[x] = None
        /\ expiry' = [expiry EXCEPT ![FreeTick] = [todo |-> DueRows, read |-> None]]
        /\ overlapped' = (overlapped \/ grant # None \/ expiry # Idle)
  /\ UNCHANGED <<controllers, rows, action, grant, now, granted, failures, upgrades>>

NextRow(x) ==
  IF Len(expiry[x].todo) > 1
  THEN expiry' = [expiry EXCEPT ![x] = [todo |-> Tail(expiry[x].todo), read |-> None]] /\ UNCHANGED timer
  ELSE expiry' = [expiry EXCEPT ![x] = None] /\ timer' = TimerFor(rows')

ExpiryRead(x) ==
  /\ Reading(expiry[x])
  /\ LET c == Head(expiry[x].todo)[1]
         p == Head(expiry[x].todo)[2]
     IN \/ /\ p \in controllers[c]
           /\ expiry' = [expiry EXCEPT ![x].read = controllers[c]]
           /\ UNCHANGED <<rows, timer>>
        \/ /\ p \notin controllers[c]
           /\ Untrack(c, p) /\ NextRow(x)
  /\ UNCHANGED <<controllers, action, grant, overlapped, now, granted, failures, upgrades>>

ExpiryWrites(x, c, p) ==
  /\ Writing(expiry[x]) /\ <<c, p>> = Head(expiry[x].todo)
  /\ controllers' = [controllers EXCEPT ![c] = expiry[x].read \ {p}]

ExpiryWritten(x) ==
  /\ \E c \in Canister, p \in Principal : ExpiryWrites(x, c, p) /\ Untrack(c, p)
  /\ NextRow(x)
  /\ UNCHANGED <<action, grant, overlapped, now, granted, failures, upgrades>>

\* "A grant whose removal fails keeps its row and is retried at the next tick."
ExpiryCallFails(x) ==
  /\ expiry[x] # None /\ Fails
  /\ UNCHANGED rows /\ NextRow(x)
  /\ UNCHANGED <<controllers, action, grant, overlapped, now, granted, upgrades>>
-----------------------------------------------------------------------------
\* A call under way is executed, though nobody is left to hear of it.
MayBeWritten ==
  \/ UNCHANGED controllers
  \/ \E c \in Canister : GrantWrites(c) \/ \E x \in Ticks, p \in Principal : ExpiryWrites(x, c, p)

\* Mutant: the timer is not armed again.
UpgradeBatonDisarmed ==
  /\ upgrades < MaxUpgrades /\ upgrades' = upgrades + 1
  /\ grant' = None /\ expiry' = Idle /\ timer' = Never /\ MayBeWritten
  /\ UNCHANGED <<rows, action, overlapped, now, granted, failures>>

\* An upgrade forgets timer and executors; post_upgrade_ arms the timer again.
UpgradeBaton ==
  /\ upgrades < MaxUpgrades /\ upgrades' = upgrades + 1
  /\ grant' = None /\ expiry' = Idle /\ timer' = TimerFor(rows) /\ MayBeWritten
  /\ UNCHANGED <<rows, action, overlapped, now, granted, failures>>

\* The clock goes on past its bound while the timer is pending.
Tick ==
  /\ now < MaxNow \/ (timer # Never /\ timer > now)
  /\ now' = now + 1
  /\ UNCHANGED <<controllers, rows, action, grant, expiry, timer, overlapped, granted, failures, upgrades>>

GrantStep == GrantReadAdds \/ GrantReadKeeps \/ GrantReadRevokes \/ GrantWritten \/ GrantCallFails
ExpiryStep(x) == ExpiryRead(x) \/ ExpiryWritten(x) \/ ExpiryCallFails(x)
Next ==
  \/ ProposeControllerGrant \/ BeginGrant \/ GrantStep
  \/ TimerFires \/ (\E x \in Ticks : ExpiryStep(x)) \/ UpgradeBaton \/ Tick

Spec == Init /\ [][Next]_vars

\* Time passes, timers fire, calls are answered.
FairSpec ==
  /\ Spec
  /\ WF_vars(Tick) /\ WF_vars(TimerFires) /\ WF_vars(GrantStep) /\ \A x \in Ticks : WF_vars(ExpiryStep(x))
-----------------------------------------------------------------------------
(* Properties *)

\* "revoke removes only a principal a grant added, so the multisig, the conductor
\* and the baton stay controllers": whatever is granted, revoked or expires, in
\* whatever order, also when it names one of them.
BaseStays == \A c \in Canister : Base \subseteq controllers[c]

\* A grantee never is a controller without a row that says until when, also when
\* the executor is cut short: "a run cut short after the change still has its
\* expiry".
GranteesAreTracked ==
  \A c \in Canister : \A p \in controllers[c] \ Base : Tracked(c, p)

\* So it is as long as a grant and an expiry, or two expiries, have not been under way
\* together (two expiries never are, unless a grant was under way beside the first).
TrackedUnlessOverlapped == ~overlapped => GranteesAreTracked

\* "With expires_at the baton removes the principal again then": a row that is due
\* does not stay, across failed calls and upgrades of the baton.
DueRowsGo == \A c \in Canister, p \in Principal : Due(c, p) ~> ~Due(c, p)
=============================================================================
