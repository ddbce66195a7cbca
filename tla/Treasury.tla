------------------------------- MODULE Treasury -------------------------------
(***************************************************************************)
(* The conductor's cycles (cycles.py, `destroy' of canisters.py and        *)
(* stands.py, `deposit', `convert_icp' of chain.py): top-ups by the        *)
(* monitor and by people, cycles sent away, ICP converted, and canisters   *)
(* destroyed, whose cycles come back.                                      *)
(*                                                                         *)
(* Cycles leave with the call that carries them and come back when it      *)
(* fails.  Between what a call reads and the next one others may top up,   *)
(* send, create or destroy.  What the canisters burn by running is left    *)
(* out.                                                                    *)
(***************************************************************************)
EXTENDS Naturals, Sequences, FiniteSets, SequencesExt, FiniteSetsExt, Ordered

CONSTANTS
  Tanks,        \* canisters with cycles, in the order of a stand's rows
  Clerks,       \* calls under way at a time
  NoRow,         \* a canister without a row
  Full,         \* the treasury in the beginning
  Tankful,      \* what each canister has in the beginning
  Reserve,      \* o.reserve
  SweepReserve, \* sweeper.RESERVE
  MinPolicy, TopupPolicy, \* the canisters' cycle policy
  CreateCycles, \* CREATE_CYCLES
  Amounts,      \* what people send or top up
  MaxClerked,   \* bound: calls made, and conversions
  MaxTrouble    \* bound: calls that fail, or lose their reply

Tank == ToSet(Tanks)

ASSUME TanksAssumption == Tanks \in Seq(Tank) /\ IsInjective(Tanks) /\ NoRow \notin Nat
ASSUME AmountsAssumption ==
  /\ Amounts \subseteq Nat
  /\ \A n \in {Full, Tankful, Reserve, SweepReserve, MinPolicy, TopupPolicy, CreateCycles} : n \in Nat

VARIABLES
  balance,  \* the conductor's cycles
  tank,     \* Tank -> [cycles, lives]
  gauge,    \* Tank -> the row's cycles, or NoRow when there is no row
  clerk,    \* Clerks -> the call and where it is
  away,     \* cycles sent to others
  burnt,     \* Tank -> cycles deleted with it that were there when it was read (history)
  clerked, trouble

treasuryVars == <<balance, tank, gauge, clerk, away, burnt, clerked, trouble>>

NoClerk == [at |-> "free"]

TreasuryInit ==
  /\ balance = Full
  /\ tank = [c \in Tank |-> [cycles |-> Tankful, lives |-> TRUE]]
  /\ gauge = [c \in Tank |-> 0]
  /\ clerk = [k \in Clerks |-> NoClerk] /\ away = 0
  /\ burnt = [c \in Tank |-> 0]
  /\ clerked = 0 /\ trouble = 0
-----------------------------------------------------------------------------
Spendable == IF balance > Reserve THEN balance - Reserve ELSE 0
Turns(k, r) == clerk' = [clerk EXCEPT ![k] = r]
Leaves(k) == Turns(k, NoClerk)
Begun(k) == clerk[k] = NoClerk /\ clerked < MaxClerked /\ clerked' = clerked + 1
Upsets == trouble < MaxTrouble /\ trouble' = trouble + 1
Of(k) == Head(clerk[k].todo)
OnTo(k, at) == [clerk[k] EXCEPT !.at = at]
\* The next canister of the same call, or its end.
NextTank(k, at) ==
  LET rest == Tail(clerk[k].todo)
  IN IF rest = <<>> THEN Leaves(k) ELSE Turns(k, [clerk[k] EXCEPT !.at = at, !.todo = rest])
Rows ==
  LET order == Ascending({i \in DOMAIN Tanks : gauge[Tanks[i]] # NoRow})
  IN [i \in DOMAIN order |-> Tanks[order[i]]]
Named == {<<c>> : c \in ToSet(Rows)} \cup {Rows}
-----------------------------------------------------------------------------
(* cycles_top_up, of a canister or of a stand *)

TopUpBegins(k) ==
  /\ Begun(k)
  /\ \E todo \in Named \ {<<>>} :
       \/ Turns(k, [at |-> "gauge", todo |-> todo])                                          \* the monitor
       \/ \E n \in Amounts : Turns(k, [at |-> "topup", todo |-> todo, amount |-> n])
  /\ UNCHANGED <<balance, tank, gauge, away, burnt, trouble>>

\* The monitor's top-up looks at the canister first.
Gauge(k) ==
  /\ clerk[k].at = "gauge"
  /\ \/ /\ tank[Of(k)].lives /\ UNCHANGED trouble
        /\ Turns(k, [at |-> "gauged", todo |-> clerk[k].todo, read |-> tank[Of(k)].cycles])
     \/ tank[Of(k)].lives /\ Upsets /\ Leaves(k)
     \/ ~tank[Of(k)].lives /\ Leaves(k) /\ UNCHANGED trouble
  /\ UNCHANGED <<balance, tank, gauge, away, burnt, clerked>>

Carrying(k, n) ==
  IF clerk[k].at = "topup" THEN OnTo(k, "deposit")
  ELSE [at |-> "deposit", todo |-> clerk[k].todo, read |-> clerk[k].read, amount |-> n]

\* spend: the check, and the call that takes the cycles along.
Spends(k, n) ==
  \/ n > Spendable /\ Leaves(k) /\ UNCHANGED balance
  \/ n <= Spendable /\ balance' = balance - n /\ Turns(k, Carrying(k, n))

TopUp(k) ==
  LET c == Of(k)
      read == clerk[k].read
      n == IF clerk[k].at = "topup" THEN clerk[k].amount ELSE IF read < MinPolicy THEN TopupPolicy ELSE 0
  IN /\ clerk[k].at \in {"gauged", "topup"}
     /\ \/ n = 0 /\ NextTank(k, IF clerk[k].at = "topup" THEN "topup" ELSE "gauge") /\ UNCHANGED balance
        \/ n > 0 /\ Spends(k, n)
     /\ gauge' = IF clerk[k].at = "gauged" /\ gauge[c] # NoRow THEN [gauge EXCEPT ![c] = read] ELSE gauge
     /\ UNCHANGED <<tank, away, burnt, clerked, trouble>>

\* What a destroy has not seen yet is late.
Seen(c, n) == [k \in Clerks |-> IF "late" \in DOMAIN clerk[k] /\ Of(k) = c THEN [clerk[k] EXCEPT !.late = @ + n] ELSE clerk[k]]

\* deposit_cycles: done, or the cycles come back.
Deposited(k) ==
  LET c == Of(k)
      n == clerk[k].amount
      rest == Tail(clerk[k].todo)
      next == IF rest = <<>> THEN NoClerk
              ELSE IF "read" \in DOMAIN clerk[k] THEN [at |-> "gauge", todo |-> rest]
              ELSE [at |-> "topup", todo |-> rest, amount |-> n]
  IN /\ clerk[k].at = "deposit"
     /\ \/ /\ tank[c].lives /\ tank' = [tank EXCEPT ![c].cycles = @ + n] /\ clerk' = [Seen(c, n) EXCEPT ![k] = next]
           /\ gauge' = IF gauge[c] = NoRow THEN gauge ELSE [gauge EXCEPT ![c] = @ + n]
           /\ UNCHANGED <<balance, trouble>>
        \/ /\ balance' = balance + n /\ Leaves(k) /\ UNCHANGED <<tank, gauge>>
           /\ \/ tank[c].lives /\ Upsets
              \/ ~tank[c].lives /\ UNCHANGED trouble
     /\ UNCHANGED <<away, burnt, clerked>>
-----------------------------------------------------------------------------
(* cycles_refresh, cycles_send and creation *)

\* convert_icp: nothing to convert, or what the transfer and the notification bring.
Converted == {0} \cup Amounts

\* cycles_refresh: a conversion, which may fail, then a look at each canister in turn.
RefreshBegins(k) ==
  /\ Begun(k)
  /\ \/ \E income \in Converted : balance' = balance + income
        /\ Turns(k, IF Rows = <<>> THEN NoClerk ELSE [at |-> "refresh", todo |-> Rows]) /\ UNCHANGED trouble
     \/ Upsets /\ UNCHANGED <<balance, clerk>>
  /\ UNCHANGED <<tank, gauge, away, burnt>>

\* One that cannot be read is passed over.
Refreshed(k) ==
  LET c == Of(k)
  IN /\ clerk[k].at = "refresh" /\ NextTank(k, "refresh")
     /\ \/ /\ tank[c].lives /\ UNCHANGED trouble
           /\ gauge' = IF gauge[c] = NoRow THEN gauge ELSE [gauge EXCEPT ![c] = tank[c].cycles]
        \/ tank[c].lives /\ Upsets /\ UNCHANGED gauge
        \/ ~tank[c].lives /\ UNCHANGED <<gauge, trouble>>
     /\ UNCHANGED <<balance, tank, away, burnt, clerked>>

\* The amount is what there is to spend once ICP is converted, or what was asked for.
CyclesSend(k) ==
  /\ Begun(k)
  /\ \E income \in Converted :
       LET now == balance + income
           all == IF now > Reserve THEN now - Reserve ELSE 0
       IN \/ \E n \in Amounts \cup {all} :
               \/ n > all /\ balance' = now /\ UNCHANGED <<clerk, trouble>>
               \/ n <= all /\ balance' = now - n /\ Turns(k, [at |-> "sent", amount |-> n]) /\ UNCHANGED trouble
          \/ Upsets /\ UNCHANGED <<balance, clerk>>
  /\ UNCHANGED <<tank, gauge, away, burnt>>

Sent(k) ==
  /\ clerk[k].at = "sent"
  /\ \/ away' = away + clerk[k].amount /\ UNCHANGED <<balance, trouble>>
     \/ Upsets /\ balance' = balance + clerk[k].amount /\ UNCHANGED away
  /\ Leaves(k)
  /\ UNCHANGED <<tank, gauge, burnt, clerked>>

\* A canister is created without a look at the reserve.
CreateSpends ==
  /\ balance >= CreateCycles /\ clerked < MaxClerked /\ clerked' = clerked + 1
  /\ balance' = balance - CreateCycles
  /\ UNCHANGED <<tank, gauge, clerk, away, burnt, trouble>>
-----------------------------------------------------------------------------
(* canister_destroy and stand_destroy *)

\* require_control asks each of them before the first is touched.
DestroyBegins(k) ==
  /\ Begun(k)
  /\ \E todo \in Named \ {<<>>} :
       \/ (\A c \in ToSet(todo) : tank[c].lives) /\ Turns(k, [at |-> "sweeper", todo |-> todo]) /\ UNCHANGED trouble
       \/ (\E c \in ToSet(todo) : ~tank[c].lives) /\ UNCHANGED <<clerk, trouble>>
       \/ Upsets /\ UNCHANGED clerk
  /\ UNCHANGED <<balance, tank, gauge, away, burnt>>

\* A call of `destroy' that fails ends it.
Refuses(k) ==
  \/ tank[Of(k)].lives /\ Upsets /\ Leaves(k)
  \/ ~tank[Of(k)].lives /\ Leaves(k) /\ UNCHANGED trouble

\* The settings, the sweeper and the start, then what there is to sweep.
ReadSweep(k) ==
  /\ clerk[k].at = "sweeper"
  /\ \/ /\ tank[Of(k)].lives /\ UNCHANGED trouble
        /\ Turns(k, [at |-> IF tank[Of(k)].cycles > SweepReserve THEN "sweep" ELSE "delete",
                     todo |-> clerk[k].todo, late |-> 0])
     \/ Refuses(k)
  /\ UNCHANGED <<balance, tank, gauge, away, burnt, clerked>>

\* Mutant: the answer of `sweep' is not waited for.
SweptAnyhow(k) ==
  /\ clerk[k].at = "sweep" /\ Turns(k, OnTo(k, "delete"))
  /\ \/ tank' = [tank EXCEPT ![Of(k)].cycles = SweepReserve] /\ balance' = balance + tank[Of(k)].cycles - SweepReserve
     \/ UNCHANGED <<tank, balance>>
  /\ UNCHANGED <<gauge, away, burnt, clerked, trouble>>

\* sweep sends what the canister has by then above the reserve, and traps when that is
\* nothing: another destroy swept it meanwhile, and the reserve paid for that.
Swept(k) ==
  LET c == Of(k)
      over == tank[c].cycles - SweepReserve
  IN /\ clerk[k].at = "sweep"
     /\ \/ /\ tank[c].lives /\ tank[c].cycles > SweepReserve /\ Turns(k, OnTo(k, "delete"))
           /\ tank' = [tank EXCEPT ![c].cycles = SweepReserve] /\ balance' = balance + over /\ UNCHANGED trouble
        \/ /\ \/ Refuses(k)
              \/ tank[c].cycles <= SweepReserve /\ Leaves(k) /\ UNCHANGED trouble
           /\ UNCHANGED <<tank, balance>>
     /\ UNCHANGED <<gauge, away, burnt, clerked>>

\* stop and delete: what is left is burnt. When the reply is lost the row stays.
Deleted(k) ==
  LET c == Of(k)
      late == clerk[k].late
  IN /\ clerk[k].at = "delete"
     /\ \/ /\ tank[c].lives /\ tank' = [tank EXCEPT ![c].lives = FALSE]
           /\ burnt' = [burnt EXCEPT ![c] = IF tank[c].cycles > late THEN tank[c].cycles - late ELSE 0]
           /\ \/ gauge' = [gauge EXCEPT ![c] = NoRow] /\ NextTank(k, "sweeper") /\ UNCHANGED trouble
              \/ Upsets /\ Leaves(k) /\ UNCHANGED gauge
        \/ Refuses(k) /\ UNCHANGED <<tank, gauge, burnt>>
     /\ UNCHANGED <<balance, away, clerked>>

TreasuryNext ==
  \/ CreateSpends
  \/ \E k \in Clerks :
       \/ TopUpBegins(k) \/ Gauge(k) \/ TopUp(k) \/ Deposited(k) \/ RefreshBegins(k) \/ Refreshed(k) \/ CyclesSend(k) \/ Sent(k)
       \/ DestroyBegins(k) \/ ReadSweep(k) \/ Swept(k) \/ Deleted(k)
-----------------------------------------------------------------------------
(* Properties *)

\* A destroyed canister's cycles come back to the treasury but for the sweeper's reserve
\* and what others deposited while it was destroyed, and a row goes only with its
\* canister: whichever calls fail, and whatever else is topped up or destroyed meanwhile.
DestroyPaysBack ==
  \A c \in Tank : burnt[c] <= SweepReserve /\ (gauge[c] = NoRow => ~tank[c].lives)
=============================================================================
