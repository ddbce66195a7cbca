------------------------------- MODULE Rounds -------------------------------
(***************************************************************************)
(* The conductor's queue of jobs (src/rounds.py).  A job is done in rounds: *)
(* one timer at a time takes the job at the head, its round runs, and a job *)
(* that is not finished goes to the end of the queue.                      *)
(*                                                                         *)
(* All of it is in main memory, and every part may fail silently: the IC   *)
(* drops a timer, a round traps or waits for an answer that never comes.   *)
(* So a round has a watchdog, a timer not run for LOST seconds is presumed *)
(* dropped, and every update call kicks the queue.  A round that was given *)
(* up may still be alive: it goes on beside the next one when its answer   *)
(* comes after all.                                                        *)
(*                                                                         *)
(* Time is what the code compares it with: a round is overdue once it is   *)
(* older than WATCHDOG, a timer stale once it was set LOST seconds ago.    *)
(***************************************************************************)
EXTENDS Naturals, Sequences, FiniteSets, SequencesExt

CONSTANTS
  None,      \* no job
  Jobs,      \* what `schedule` is called with: (kind, name)
  Slots,     \* bound: the rounds still running or still alive, one in each
  MaxFaults  \* bound: timers late or dropped, rounds lost or overdue

ASSUME NoneAssumption == None \notin Jobs
ASSUME FaultsAssumption == MaxFaults \in Nat
ASSUME SlotsAssumption == Slots # {}

VARIABLES
  queue,   \* jobs waiting for a round
  armed,   \* the pending timer: "no", "set", or "stale"
  ticks,   \* timers that may still fire
  round,   \* Slots -> the round in it
  faults   \* counted against their bound

roundVars == <<queue, armed, ticks, round, faults>>

\* alive: suspended on a call; running: its token is in `running`; watched: its
\* watchdog timer is still set.
Round == [job : Jobs \cup {None}, alive : BOOLEAN, running : BOOLEAN, overdue : BOOLEAN, watched : BOOLEAN]
NoRound == [job |-> None, alive |-> FALSE, running |-> FALSE, overdue |-> FALSE, watched |-> FALSE]

Waiting(j) == \E i \in DOMAIN queue : queue[i] = j
Running == {s \in Slots : round[s].running}
Alive == {s \in Slots : round[s].alive}
Vacant(s) == ~round[s].alive /\ ~round[s].running

\* The rounds a kick gives up; their jobs' `fail` is part of that message.
GivenUp == {s \in Running : round[s].overdue}

RoundsTypeOK ==
  /\ queue \in Seq(Jobs) /\ IsInjective(queue) /\ armed \in {"no", "set", "stale"} /\ ticks \in Nat
  /\ round \in [Slots -> Round]
  /\ \A s \in Slots : ~Vacant(s) => round[s].job \in Jobs
  /\ faults \in 0..MaxFaults

RoundsInit ==
  /\ queue = <<>> /\ armed = "no" /\ ticks = 0
  /\ round = [s \in Slots |-> NoRound]
  /\ faults = 0
-----------------------------------------------------------------------------
\* `if job not in queue: queue.append(job)`
Queued(q, j) == IF \E i \in DOMAIN q : q[i] = j THEN q ELSE Append(q, j)

\* kick: gives up the running round that is overdue, forgets a stale timer, and
\* arms one when work is queued and nothing else will take it.
Kick(q, a, t, r) ==
  LET left == [s \in Slots |-> IF r[s].running /\ r[s].overdue THEN [r[s] EXCEPT !.running = FALSE] ELSE r[s]]
      arms == q # <<>> /\ a # "set" /\ \A s \in Slots : ~left[s].running
  IN /\ queue' = q
     /\ armed' = IF arms THEN "set" ELSE IF a = "stale" THEN "no" ELSE a
     /\ ticks' = IF arms THEN t + 1 ELSE t
     /\ round' = left

\* Mutant: only new work kicks the queue.
CallSchedulesOnly(j) ==
  IF j = None THEN UNCHANGED roundVars
  ELSE Kick(Queued(queue, j), armed, ticks, round) /\ UNCHANGED faults

\* op.dispatch kicks at every update call, before the operation; one that makes
\* work schedules its job, which kicks again.
Call(j) ==
  /\ Kick(IF j = None THEN queue ELSE Queued(queue, j), armed, ticks, round)
  /\ UNCHANGED faults

\* tick, when a round runs or nothing is queued.
SpareTick ==
  /\ ticks > 0 /\ ticks' = ticks - 1
  /\ queue = <<>> \/ Running # {}
  /\ armed' = "no"
  /\ UNCHANGED <<queue, round, faults>>

\* Mutant: a spare timer starts a round beside the running one.
MayStartBeside == queue # <<>>
MayStart == queue # <<>> /\ Running = {}

\* tick: the job at the head gets a round. It waits for chain.commit, so that a
\* trap can undo no more than the round.
Tick(s) ==
  /\ ticks > 0 /\ ticks' = ticks - 1
  /\ MayStart
  /\ armed' = "no" /\ queue' = Tail(queue)
  /\ round' = [round EXCEPT ![s] = [job |-> Head(queue), alive |-> TRUE, running |-> TRUE,
                                    overdue |-> FALSE, watched |-> TRUE]]
  /\ UNCHANGED faults

Forget(s) == [round EXCEPT ![s] = NoRound]

\* The end of tick: an unfinished job is queued again, the round removes its own
\* token and no other.
RoundEnds(s, finished) ==
  /\ round[s].alive
  /\ Kick(IF finished THEN queue ELSE Queued(queue, round[s].job), armed, ticks, Forget(s))

\* The watchdog's timer, for a round whose token is still there; `fail` goes with
\* it. For any other round it does nothing.
Watchdog(s) ==
  /\ round[s].running /\ round[s].overdue /\ round[s].watched
  /\ Kick(queue, armed, ticks, round)
  /\ UNCHANGED faults
-----------------------------------------------------------------------------
(* What the IC does *)

Fault == faults < MaxFaults /\ faults' = faults + 1

\* A trap undoes the message and ends the round; its token stays.
RoundTraps(s) ==
  /\ round[s].alive
  /\ round' = [round EXCEPT ![s].alive = FALSE]
  /\ UNCHANGED <<queue, armed, ticks>>

\* One nobody foresaw, or a call that never comes back.
RoundDies(s) == RoundTraps(s) /\ Fault

\* More than WATCHDOG has gone by since the round began.
OutlastWatchdog(s) ==
  /\ round[s].running /\ ~round[s].overdue
  /\ \/ round[s].alive /\ Fault /\ \E t \in Slots : Vacant(t)
     \/ ~round[s].alive /\ UNCHANGED faults
  /\ round' = [round EXCEPT ![s].overdue = TRUE]
  /\ UNCHANGED <<queue, armed, ticks>>

\* LOST has gone by and the timer has not fired: it is late, or was dropped.
TimerStale ==
  /\ armed = "set" /\ Fault
  /\ armed' = "stale"
  /\ \/ ticks > 0 /\ ticks' = ticks - 1
     \/ UNCHANGED ticks
  /\ UNCHANGED <<queue, round>>

\* The IC drops a watchdog's timer.
DropWatchdog(s) ==
  /\ round[s].running /\ round[s].watched /\ Fault
  /\ round' = [round EXCEPT ![s].watched = FALSE]
  /\ UNCHANGED <<queue, armed, ticks>>

\* The conductor is upgraded: its main memory is new, and resume schedules what
\* each step finds pending.
Upgrade(pending) ==
  /\ Kick(pending, "no", 0, [s \in Slots |-> NoRound])
  /\ UNCHANGED faults
-----------------------------------------------------------------------------
(* Properties *)

\* Rounds do not overlap: one token at a time, and two rounds are under way
\* together only when the older one outlasted its watchdog.
OneRoundAtATime ==
  /\ \A s, t \in Running : s = t
  /\ \A s, t \in Alive : s # t => round[s].overdue \/ round[t].overdue
=============================================================================
