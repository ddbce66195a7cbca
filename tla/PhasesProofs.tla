---------------------------- MODULE PhasesProofs ----------------------------
(***************************************************************************)
(* What the actions of a baton leave behind, whatever calls fail, go       *)
(* unnoticed or are lost, for every number of canisters, pieces, files and *)
(* actions: the four properties of BatonPhases, and its types.             *)
(*                                                                         *)
(* The invariant has a part for each kind of action.  Most of each is      *)
(* about the calls an executor has left: what they will still do is what   *)
(* the state lacks (a canister not put back yet has its load due, one that *)
(* was stopped its start).                                                 *)
(***************************************************************************)
EXTENDS BatonPhases, DataLemmas, SequenceTheorems

\* What a snapshot holds.
Snapshot == [module : Version, chunks : SUBSET (1..Pieces)]

\* The statuses an open action of each kind is saved with,
Early == {"APPROVED", "PRE_FLIGHT", "STOPPING", "SNAPSHOTTING"}
Later == {"UPGRADING", "STARTING", "VERIFYING", "FINALIZING"}
OpenStatus(kind) ==
  CASE kind = "upgrade" -> Early \cup Later
    [] kind = "restore" -> {"APPROVED", "RESTORING"}
    [] kind = "provision" -> {"APPROVED", "PROVISIONING"}

\* the phases of their executors,
PhasesOf(kind) ==
  CASE kind = "upgrade" -> (Early \ {"APPROVED"}) \cup Later \cup {"undo"}
    [] kind = "restore" -> {"RESTORING", "RESTORE_UNDO", "RESTORE_START", "RESTORE_PRUNE"}
    [] kind = "provision" -> {"PROVISIONING"}

\* and the calls each phase makes.
OpsOf(at) ==
  CASE at = "PRE_FLIGHT" -> {"status"}
    [] at = "STOPPING" -> {"stop"}
    [] at = "SNAPSHOTTING" -> {"snapshot"}
    [] at = "UPGRADING" -> {"clear", "upload", "install"}
    [] at \in {"STARTING", "RESTORE_START"} -> {"start"}
    [] at = "VERIFYING" -> {"verify"}
    [] at \in {"FINALIZING", "RESTORE_PRUNE"} -> {"prune"}
    [] at = "undo" -> {"stop", "load", "start"}
    [] at = "RESTORING" -> {"stop", "snapshot", "load"}
    [] at = "RESTORE_UNDO" -> {"load", "start"}
    [] at = "PROVISIONING" -> {"list", "extra"}

Asked(at) ==
  [op : OpsOf(at), cid : Canister]
    \cup (IF at = "PROVISIONING" THEN [op : {"ship"}, cid : Canister, file : File] ELSE {})

\* The types of what is on the chain.
CanistersOK ==
  /\ module \in [Canister -> Version] /\ running \subseteq Canister
  /\ chunks \in [Canister -> SUBSET (1..Pieces)]
  /\ taken \in [Canister -> Seq(Snapshot)]
  /\ kept \in [Canister -> SUBSET Nat]
  /\ \A c \in Canister : kept[c] \subseteq 1..Len(taken[c]) /\ Cardinality(kept[c]) <= SnapshotLimit

ChainOK ==
  /\ CanistersOK
  /\ assets \in [Canister -> [File -> Served]] /\ store \in [File -> InStore]
  /\ before \in [module : [Canister -> Version], running : SUBSET Canister]
  /\ filed \in 0..MaxActions
  /\ failures \in Nat /\ swallowed \in Nat /\ losses \in Nat

\* The cursor of a record stays in its bounds.
CursorOK(r) ==
  /\ r.kind = "upgrade" => r.index <= Len(Canisters) /\ r.load <= Pieces
  /\ r.kind = "restore" => r.index = 0 /\ r.load = 0
  /\ r.kind = "provision" => r.index < Len(Canisters) /\ r.load <= Len(Files)

RecordOK ==
  rec # None =>
    /\ rec \in Record /\ CursorOK(rec)
    /\ rec.status \in OpenStatus(rec.kind) \cup Terminal

ExecutorOK ==
  run # None =>
    /\ run \in [at : Phase, mem : Record, todo : Seq(Asked(run.at)), noted : SUBSET Canister,
                problems : 0..2, end : Terminal \cup {None}]
    /\ CursorOK(run.mem)
    /\ Open /\ run.at \in PhasesOf(rec.kind)
    /\ run.mem.kind = rec.kind /\ run.mem.version = rec.version /\ run.mem.choice = rec.choice
    /\ run.mem.status = rec.status /\ run.mem.index = rec.index
    /\ rec.status # "APPROVED"
    /\ rec.kind = "upgrade" /\ run.at # "undo" => rec.status = run.at

TypesOK == ChainOK /\ RecordOK /\ ExecutorOK
-----------------------------------------------------------------------------
(* The calls that are left *)

\* The call op is still to be made to c.
Due(op, c, todo) == \E i \in 1..Len(todo) : todo[i].op = op /\ todo[i].cid = c

\* Nothing follows the calls op.
ComesLast(op, todo) ==
  \A i, j \in 1..Len(todo) : i < j /\ todo[i].op = op => todo[j].op = op
-----------------------------------------------------------------------------
(* Upgrades *)

Upgrading == Open /\ rec.kind = "upgrade"

\* Nothing went unnoticed, and no executor was lost.
Clean == swallowed = 0 /\ losses = 0

\* The snapshots a record names are the newest, and hold what ran before.
Undoable(r) ==
  \A c \in Canister : HasRef(r, c) =>
    /\ r.refs[c] = Len(taken[c]) /\ r.refs[c] \in kept[c]
    /\ taken[c][r.refs[c]].module = before.module[c]

\* An open upgrade: up to its snapshots nothing was installed and none is named, from
\* then on all are; what is finalized is installed.
UpgradeOK ==
  Upgrading =>
    /\ Undoable(rec) /\ (run # None => Undoable(run.mem))
    /\ rec.status \in Early => module = before.module /\ \A c \in Canister : ~HasRef(rec, c)
    /\ rec.status \in Later => \A c \in Canister : HasRef(rec, c)
    /\ run # None /\ rec.status \in Later => run.mem.refs = rec.refs
    /\ rec.status \in {"APPROVED", "PRE_FLIGHT"} => before.running = running
    /\ rec.status = "UPGRADING" => rec.load < Pieces
    /\ rec.status = "FINALIZING" => \A c \in Canister : module[c] = rec.version
    /\ rec.status \in Early => rec.index = 0 /\ rec.load = 0

\* Its executor, whatever happened: what is not named or verified yet is due.
PhaseOK ==
  Upgrading /\ run # None =>
    /\ run.at \in {"PRE_FLIGHT", "STOPPING"} => run.mem.refs = rec.refs
    /\ run.at \in {"PRE_FLIGHT", "STOPPING", "SNAPSHOTTING"} => run.mem.index = 0 /\ run.mem.load = 0
    /\ run.at = "SNAPSHOTTING" => \A c \in Canister : HasRef(run.mem, c) \/ Due("snapshot", c, run.todo)
    /\ run.at = "VERIFYING" => \A c \in Canister : module[c] = run.mem.version \/ Due("verify", c, run.todo)

\* How far the installation of a module got: i canisters were on it before, and the
\* one after them is iff its last piece is uploaded and no install is due.
InstalledTo(i, installed, v) ==
  \A k \in 1..Len(Canisters) :
    module[Canisters[k]] = (IF k <= i \/ (k = i + 1 /\ installed) THEN v ELSE before.module[Canisters[k]])

\* The calls a step of the installation has left, when n pieces are uploaded.
StepCalls(todo, n, c) ==
  \/ todo = <<>> /\ n > 0
  \/ todo = <<[op |-> "clear", cid |-> c]>> /\ n = Pieces
  \/ todo = <<[op |-> "install", cid |-> c], [op |-> "clear", cid |-> c]>> /\ n = Pieces
  \/ todo = <<[op |-> "upload", cid |-> c]>> /\ n + 1 < Pieces
  \/ /\ todo = <<[op |-> "upload", cid |-> c], [op |-> "install", cid |-> c], [op |-> "clear", cid |-> c]>>
     /\ n + 1 = Pieces
  \/ todo = <<[op |-> "clear", cid |-> c], [op |-> "upload", cid |-> c]>> /\ n + 1 < Pieces
  \/ /\ todo = <<[op |-> "clear", cid |-> c], [op |-> "upload", cid |-> c], [op |-> "install", cid |-> c],
                 [op |-> "clear", cid |-> c]>>
     /\ n + 1 = Pieces

Installed == run.mem.load = Pieces /\ ~(run.todo # <<>> /\ Call.op = "install")

\* The step is in order, whatever happened.
StepOK ==
  Upgrading /\ run # None /\ run.at = "UPGRADING" =>
    IF rec.index < Len(Canisters) THEN StepCalls(run.todo, run.mem.load, Target(run.mem)) ELSE run.todo = <<>>

\* When nothing went unnoticed and no executor was lost.
CleanOK ==
  Clean /\ Upgrading =>
    /\ rec.status = "STOPPING" /\ run = None => before.running \subseteq running
    /\ run # None /\ run.at = "STOPPING" => before.running \subseteq running \cup run.noted
    /\ rec.status = "UPGRADING" /\ run = None => InstalledTo(rec.index, FALSE, rec.version)
    /\ run # None /\ run.at = "UPGRADING" =>
         InstalledTo(rec.index, rec.index < Len(Canisters) /\ Installed, rec.version)
    /\ rec.status = "STARTING" => \A c \in Canister : module[c] = rec.version
    /\ run # None /\ run.at = "STARTING" => \A c \in Canister : c \in running \/ Due("start", c, run.todo)
    /\ rec.status \in {"VERIFYING", "FINALIZING"} /\ (run = None \/ run.at # "undo") => running = Canister

\* What the undo has left puts every canister back, and starts what was running.
UndoOK ==
  Upgrading /\ run # None /\ run.at = "undo" =>
    /\ run.end \in Terminal \ {"COMPLETE"} /\ rec.status \in {"STOPPING", "SNAPSHOTTING", "UPGRADING", "VERIFYING"}
    /\ ComesLast("start", run.todo)
    /\ Clean => \A c \in Canister :
         /\ module[c] = before.module[c] \/ Due("load", c, run.todo)
         /\ c \in before.running => Due("start", c, run.todo) \/ (c \in running /\ ~Due("stop", c, run.todo))

UpgradesOK == UpgradeOK /\ PhaseOK /\ StepOK /\ CleanOK /\ UndoOK /\ UpgradeEndsWhole
-----------------------------------------------------------------------------
(* Restores *)

Restoring == Open /\ rec.kind = "restore"

\* The canisters a restore is about.
Chosen == {c \in Canister : rec.choice[c] # 0}

\* The fresh snapshot of c holds what ran before.
WayBack(c) ==
  /\ run.mem.refs[c] \in kept[c]
  /\ taken[c][run.mem.refs[c]].module = before.module[c]

\* c runs what the snapshot chosen for it holds.
Restored(c) == module[c] = taken[c][rec.choice[c]].module

RestoreOK ==
  Restoring =>
    /\ \A c \in Chosen : rec.choice[c] \in 1..Len(taken[c])
    /\ rec.status = "APPROVED" => module = before.module

RestoringOK ==
  Restoring /\ run # None /\ run.at = "RESTORING" =>
    /\ run.problems = 0
    /\ ComesLast("load", run.todo)
    /\ run.noted # {} => \A i \in 1..Len(run.todo) : run.todo[i].op = "load"
    /\ run.noted \subseteq Chosen
    /\ \A c \in Canister : c \in run.noted \/ module[c] = before.module[c]
    /\ \A c \in Chosen : /\ Due("snapshot", c, run.todo) \/ WayBack(c)
                         /\ Due("load", c, run.todo) \/ Restored(c)

RestoreUndoOK ==
  Restoring /\ run # None /\ run.at = "RESTORE_UNDO" =>
    /\ run.problems > 0
    /\ \A c \in Canister : Due("load", c, run.todo) => WayBack(c)
    /\ run.problems = 1 =>
         /\ \A c \in Canister : module[c] = before.module[c] \/ Due("load", c, run.todo)
         /\ \A c \in Chosen : c \in running \/ Due("start", c, run.todo)

RestoreStartOK ==
  Restoring /\ run # None /\ run.at = "RESTORE_START" /\ run.problems = 0 =>
    \A c \in Chosen : Restored(c) /\ (c \in running \/ Due("start", c, run.todo))

RestorePruneOK ==
  Restoring /\ run # None /\ run.at = "RESTORE_PRUNE" =>
    \A c \in Chosen : Restored(c) /\ c \in running

RestoresOK ==
  RestoreOK /\ RestoringOK /\ RestoreUndoOK /\ RestoreStartOK /\ RestorePruneOK /\ RestoreOutcomeIsTrue
-----------------------------------------------------------------------------
(* Provisions *)

Provisioning == Open /\ rec.kind = "provision"

\* c serves f as it should when c is done, and while it is being done.
Right(c, f) == assets[c][f] = (IF f \in Extra THEN "extra" ELSE "approved")
Shipped(c, f) == assets[c][f] = "approved" \/ (f \in Extra /\ assets[c][f] = "extra")

\* The canisters before the cursor are done, and the files before it shipped to the
\* one at the cursor.
ShippedTo(r) ==
  /\ \A i \in 1..r.index, f \in File : Right(Canisters[i], f)
  /\ \A j \in 1..r.load : Shipped(Provisioned(r), Files[j])

ProvisionOK ==
  Provisioning =>
    /\ rec.load < Len(Files) /\ ShippedTo(rec)
    /\ run # None => run.mem.load >= rec.load /\ ShippedTo(run.mem)

\* The calls that are left: l listings (one or none), the files up to k, the extra ones.
BatchCalls(todo, r, l, k) ==
  \E ships, n \in Nat :
    /\ r.load + ships = k /\ n = (IF k = Len(Files) THEN 1 ELSE 0)
    /\ Len(todo) = l + ships + n
    /\ l = 1 => todo[1] = [op |-> "list", cid |-> Provisioned(r)]
    /\ \A j \in 1..ships : todo[l + j] = [op |-> "ship", cid |-> Provisioned(r), file |-> Files[r.load + j]]
    /\ n = 1 => todo[l + ships + 1] = [op |-> "extra", cid |-> Provisioned(r)]

BatchOK ==
  Provisioning /\ run # None =>
    \/ \E k \in run.mem.load..Len(Files), l \in 0..1 : BatchCalls(run.todo, run.mem, l, k)
    \/ /\ run.todo = <<>> /\ run.mem.load = Len(Files)
       /\ \A f \in File : Right(Provisioned(run.mem), f)

ProvisionsOK == ProvisionOK /\ BatchOK /\ ProvisionedAsApproved

\* The invariant.
PhasesInv == TypesOK /\ UpgradesOK /\ RestoresOK /\ ProvisionsOK
-----------------------------------------------------------------------------
(* Sequences of calls *)

\* The canisters and the files are listed, each once.
LEMMA Lists ==
  /\ Canisters \in Seq(Canister) /\ Len(Canisters) \in Nat \ {0} /\ DOMAIN Canisters = 1..Len(Canisters)
  /\ \A c \in Canister : \E i \in 1..Len(Canisters) : Canisters[i] = c
  /\ \A i \in 1..Len(Canisters) : Canisters[i] \in Canister
  /\ \A i, j \in 1..Len(Canisters) : Canisters[i] = Canisters[j] => i = j
  /\ Files \in Seq(File) /\ Len(Files) \in Nat \ {0} /\ DOMAIN Files = 1..Len(Files)
  /\ \A f \in File : \E i \in 1..Len(Files) : Files[i] = f
  /\ \A i \in 1..Len(Files) : Files[i] \in File
  /\ Pieces \in Nat \ {0} /\ FilesPerExecute \in Nat \ {0}
<1>1. /\ Canisters \in Seq(Canister) /\ Len(Canisters) \in Nat \ {0} /\ DOMAIN Canisters = 1..Len(Canisters)
  BY CanistersAssumption
<1>2. /\ Files \in Seq(File) /\ Len(Files) \in Nat \ {0} /\ DOMAIN Files = 1..Len(Files)
  BY FilesAssumption
<1>3. \A i, j \in 1..Len(Canisters) : Canisters[i] = Canisters[j] => i = j
  BY <1>1, CanistersAssumption DEF IsInjective
<1>4. /\ \A c \in Canister : \E i \in 1..Len(Canisters) : Canisters[i] = c
      /\ \A i \in 1..Len(Canisters) : Canisters[i] \in Canister
  BY <1>1 DEF Canister, ToSet
<1>5. /\ \A f \in File : \E i \in 1..Len(Files) : Files[i] = f
      /\ \A i \in 1..Len(Files) : Files[i] \in File
  BY <1>2 DEF File, ToSet
<1> QED BY <1>1, <1>2, <1>3, <1>4, <1>5, PiecesAssumption, FilesAssumption

\* A call that is made is no longer due, the others still are.
LEMMA DueTail ==
  ASSUME NEW X, NEW todo \in Seq(X), todo # <<>>, NEW op, NEW c
  PROVE  /\ Due(op, c, todo) => (Head(todo).op = op /\ Head(todo).cid = c) \/ Due(op, c, Tail(todo))
         /\ Due(op, c, Tail(todo)) => Due(op, c, todo)
         /\ Head(todo).op = op /\ Head(todo).cid = c => Due(op, c, todo)
<1>1. /\ Len(todo) \in Nat \ {0} /\ Head(todo) = todo[1] /\ Len(Tail(todo)) = Len(todo) - 1
      /\ \A i \in 1..(Len(todo) - 1) : Tail(todo)[i] = todo[i + 1]
  OBVIOUS
<1>2. ASSUME NEW i \in 1..Len(todo), i # 1 PROVE i - 1 \in 1..(Len(todo) - 1) /\ Tail(todo)[i - 1] = todo[i]
  <2>1. i - 1 \in 1..(Len(todo) - 1) /\ (i - 1) + 1 = i BY <1>1, <1>2
  <2> QED BY <1>1, <2>1
<1>3. Due(op, c, todo) => (Head(todo).op = op /\ Head(todo).cid = c) \/ Due(op, c, Tail(todo))
  BY <1>1, <1>2 DEF Due
<1>4. Due(op, c, Tail(todo)) => Due(op, c, todo)
  <2>1. \A i \in 1..(Len(todo) - 1) : i + 1 \in 1..Len(todo) BY <1>1
  <2> QED BY <1>1, <2>1 DEF Due
<1>5. Head(todo).op = op /\ Head(todo).cid = c => Due(op, c, todo) BY <1>1 DEF Due
<1> QED BY <1>3, <1>4, <1>5

\* What comes last comes last in what is left, and is all of it once it has begun.
LEMMA LastTail ==
  ASSUME NEW X, NEW todo \in Seq(X), todo # <<>>, NEW op, ComesLast(op, todo)
  PROVE  /\ ComesLast(op, Tail(todo))
         /\ Head(todo).op = op => \A i \in 1..Len(Tail(todo)) : Tail(todo)[i].op = op
<1>1. /\ Len(todo) \in Nat \ {0} /\ Head(todo) = todo[1] /\ Len(Tail(todo)) = Len(todo) - 1
      /\ \A i \in 1..(Len(todo) - 1) : Tail(todo)[i] = todo[i + 1]
  OBVIOUS
<1>2. \A i \in 1..(Len(todo) - 1) : i + 1 \in 1..Len(todo) /\ 1 < i + 1 BY <1>1
<1>3. \A i, j \in 1..(Len(todo) - 1) : i < j => i + 1 < j + 1 BY <1>1
<1>4. 1 \in 1..Len(todo) BY <1>1
<1>5. ComesLast(op, Tail(todo)) BY <1>1, <1>2, <1>3 DEF ComesLast
<1>6. Head(todo).op = op => \A i \in 1..Len(Tail(todo)) : Tail(todo)[i].op = op
  BY <1>1, <1>2, <1>4 DEF ComesLast
<1> QED BY <1>5, <1>6

\* Nothing but op is due among calls op.
LEMMA OnlyDue ==
  ASSUME NEW todo, NEW op, \A i \in 1..Len(todo) : todo[i].op = op, NEW other, other # op, NEW c
  PROVE  ~Due(other, c, todo)
BY DEF Due

\* Calls asks op of each canister of a sequence.
LEMMA CallsElements ==
  ASSUME NEW X, NEW cs \in Seq(X), NEW op
  PROVE  /\ Calls(op, cs) \in Seq([op : {op}, cid : X])
         /\ Len(Calls(op, cs)) = Len(cs)
         /\ \A i \in 1..Len(Calls(op, cs)) : Calls(op, cs)[i].op = op
         /\ \A c : Due(op, c, Calls(op, cs)) <=> c \in ToSet(cs)
         /\ \A other, c : other # op => ~Due(other, c, Calls(op, cs))
<1>1. Len(cs) \in Nat /\ DOMAIN cs = 1..Len(cs) /\ \A i \in 1..Len(cs) : cs[i] \in X OBVIOUS
<1>2. /\ Len(Calls(op, cs)) = Len(cs) /\ Calls(op, cs) \in Seq([op : {op}, cid : X])
      /\ \A i \in 1..Len(cs) : Calls(op, cs)[i] = [op |-> op, cid |-> cs[i]]
  BY <1>1 DEF Calls
<1>3. \A i \in 1..Len(cs) : Calls(op, cs)[i].op = op /\ Calls(op, cs)[i].cid = cs[i] BY <1>1 DEF Calls
<1>4. \A c : Due(op, c, Calls(op, cs)) <=> c \in ToSet(cs) BY <1>1, <1>2, <1>3 DEF Due, ToSet
<1>5. \A other, c : other # op => ~Due(other, c, Calls(op, cs)) BY <1>2, <1>3 DEF Due
<1> QED BY <1>2, <1>3, <1>4, <1>5

\* A concatenation has the calls of both.
LEMMA DueConcat ==
  ASSUME NEW X, NEW a \in Seq(X), NEW b \in Seq(X)
  PROVE  /\ a \o b \in Seq(X)
         /\ \A op, c : Due(op, c, a \o b) <=> Due(op, c, a) \/ Due(op, c, b)
         /\ \A op : (\A i \in 1..Len(a) : a[i].op = op) /\ (\A i \in 1..Len(b) : b[i].op = op)
                      => \A i \in 1..Len(a \o b) : (a \o b)[i].op = op
         /\ \A op : (\A i \in 1..Len(a) : a[i].op # op) /\ ComesLast(op, b) => ComesLast(op, a \o b)
         /\ \A op : (\A i \in 1..Len(a) : a[i].op # op) /\ (\A i \in 1..Len(b) : b[i].op # op)
                      => \A i \in 1..Len(a \o b) : (a \o b)[i].op # op
<1> DEFINE s == a \o b
<1>1. /\ s \in Seq(X) /\ Len(a) \in Nat /\ Len(b) \in Nat /\ Len(s) = Len(a) + Len(b)
      /\ \A i \in 1..Len(a) : s[i] = a[i]
      /\ \A i \in (Len(a) + 1)..(Len(a) + Len(b)) : s[i] = b[i - Len(a)]
  OBVIOUS
<1> HIDE DEF s
<1>2. ASSUME NEW i \in 1..Len(s)
      PROVE  \/ i \in 1..Len(a) /\ s[i] = a[i]
             \/ i > Len(a) /\ i - Len(a) \in 1..Len(b) /\ s[i] = b[i - Len(a)]
  <2>1. i \in 1..Len(a) \/ (i \in (Len(a) + 1)..(Len(a) + Len(b)) /\ i - Len(a) \in 1..Len(b) /\ i > Len(a)) BY <1>1
  <2> QED BY <1>1, <2>1
<1>3. ASSUME NEW i \in 1..Len(a) PROVE i \in 1..Len(s) /\ s[i] = a[i] BY <1>1, <1>3
<1>4. ASSUME NEW i \in 1..Len(b) PROVE i + Len(a) \in 1..Len(s) /\ s[i + Len(a)] = b[i]
  <2>1. i + Len(a) \in (Len(a) + 1)..(Len(a) + Len(b)) /\ (i + Len(a)) - Len(a) = i /\ i + Len(a) \in 1..Len(s)
    BY <1>1, <1>4
  <2> DEFINE k == i + Len(a)
  <2> HIDE DEF k
  <2>2. s[k] = b[k - Len(a)] BY <1>1, <2>1 DEF k
  <2> QED BY <2>1, <2>2 DEF k
<1>5. ASSUME NEW op, NEW c PROVE Due(op, c, s) <=> Due(op, c, a) \/ Due(op, c, b)
  <2>1. Due(op, c, s) => Due(op, c, a) \/ Due(op, c, b) BY <1>2 DEF Due
  <2>2. Due(op, c, a) => Due(op, c, s) BY <1>3 DEF Due
  <2>3. Due(op, c, b) => Due(op, c, s) BY <1>4 DEF Due
  <2> QED BY <2>1, <2>2, <2>3
<1>6. ASSUME NEW op, \A i \in 1..Len(a) : a[i].op = op, \A i \in 1..Len(b) : b[i].op = op
      PROVE  \A i \in 1..Len(s) : s[i].op = op
  BY <1>2, <1>6
<1>7. ASSUME NEW op, \A i \in 1..Len(a) : a[i].op # op, ComesLast(op, b) PROVE ComesLast(op, s)
  <2> SUFFICES ASSUME NEW i \in 1..Len(s), NEW j \in 1..Len(s), i < j, s[i].op = op PROVE s[j].op = op
    BY DEF ComesLast
  <2>1. i > Len(a) /\ i - Len(a) \in 1..Len(b) /\ s[i] = b[i - Len(a)] BY <1>2, <1>7
  <2>2. ~(j \in 1..Len(a)) BY <1>1, <2>1
  <2>3. j - Len(a) \in 1..Len(b) /\ s[j] = b[j - Len(a)] BY <1>2, <2>2
  <2>4. i - Len(a) < j - Len(a) BY <1>1
  <2> QED BY <1>7, <2>1, <2>3, <2>4 DEF ComesLast
<1>8. ASSUME NEW op, \A i \in 1..Len(a) : a[i].op # op, \A i \in 1..Len(b) : b[i].op # op
      PROVE  \A i \in 1..Len(s) : s[i].op # op
  BY <1>2, <1>8
<1> QED BY <1>1, <1>5, <1>6, <1>7, <1>8 DEF s

\* Calls of the same kind come last among themselves.
LEMMA AllLast ==
  ASSUME NEW todo, NEW op, \A i \in 1..Len(todo) : todo[i].op = op
  PROVE  ComesLast(op, todo)
BY DEF ComesLast

\* The canisters picked from the managed ones.
LEMMA PickedAre ==
  ASSUME NEW cs \in Seq(Canister), NEW S
  PROVE  Having(cs, S) \in Seq(Canister) /\ ToSet(Having(cs, S)) = ToSet(cs) \cap S
BY HavingElements, HavingAre

\* Sequences written out, one element after the other.
LEMMA SameHeadAndTail ==
  ASSUME NEW X, NEW s \in Seq(X), NEW t \in Seq(X), s # <<>>, t # <<>>, Head(s) = Head(t), Tail(s) = Tail(t)
  PROVE  s = t
<1>1. /\ Len(s) \in Nat \ {0} /\ Head(s) = s[1] /\ Len(Tail(s)) = Len(s) - 1
      /\ \A i \in 1..(Len(s) - 1) : Tail(s)[i] = s[i + 1]
  OBVIOUS
<1>2. /\ Len(t) \in Nat \ {0} /\ Head(t) = t[1] /\ Len(Tail(t)) = Len(t) - 1
      /\ \A i \in 1..(Len(t) - 1) : Tail(t)[i] = t[i + 1]
  OBVIOUS
<1>3. Len(s) = Len(t)
  <2>1. Len(Tail(s)) = Len(Tail(t)) OBVIOUS
  <2>2. Len(s) - 1 = Len(t) - 1 BY <1>1, <1>2, <2>1
  <2>3. \A m, n \in Nat : m - 1 = n - 1 => m = n OBVIOUS
  <2>4. Len(s) \in Nat /\ Len(t) \in Nat OBVIOUS
  <2> QED BY <2>2, <2>3, <2>4
<1>4. ASSUME NEW i \in 1..Len(s) PROVE s[i] = t[i]
  <2>1. CASE i = 1 BY <1>1, <1>2, <2>1
  <2>2. CASE i # 1
    <3>1. i - 1 \in 1..(Len(s) - 1) /\ (i - 1) + 1 = i BY <1>1, <2>2
    <3> QED BY <1>1, <1>2, <1>3, <3>1
  <2> QED BY <2>1, <2>2
<1> QED BY <1>3, <1>4, SeqEqual

LEMMA InFront ==
  ASSUME NEW X, NEW x \in X, NEW s \in Seq(X)
  PROVE  LET q == <<x>> \o s IN q \in Seq(X) /\ q # <<>> /\ Head(q) = x /\ Tail(q) = s
<1> DEFINE t == <<x>>
           q == t \o s
<1>1. t \in Seq(X) /\ Len(t) = 1 /\ t[1] = x OBVIOUS
<1> HIDE DEF t
<1>2. Len(s) \in Nat /\ q \in Seq(X) /\ Len(q) = 1 + Len(s)
  <2>1. q \in Seq(X) /\ Len(q) = Len(t) + Len(s) BY <1>1, ConcatProperties
  <2>2. Len(s) \in Nat OBVIOUS
  <2> QED BY <1>1, <2>1, <2>2
<1>3. q[1] = x /\ \A i \in 1..Len(s) : q[i + 1] = s[i]
  <2>1. \A i \in 1..(Len(t) + Len(s)) : q[i] = IF i <= Len(t) THEN t[i] ELSE s[i - Len(t)] BY <1>1, ConcatProperties
  <2>2. q[1] = x BY <1>1, <1>2, <2>1
  <2>3. ASSUME NEW i \in 1..Len(s) PROVE q[i + 1] = s[i]
    <3>1. i + 1 \in 1..(Len(t) + Len(s)) /\ ~(i + 1 <= Len(t)) /\ (i + 1) - Len(t) = i BY <1>1, <1>2
    <3> QED BY <2>1, <3>1
  <2> QED BY <2>2, <2>3
<1> HIDE DEF q
<1>4. q # <<>> /\ Head(q) = x /\ Tail(q) \in Seq(X) /\ Len(Tail(q)) = Len(s) BY <1>2, <1>3
<1>5. \A i \in 1..Len(s) : Tail(q)[i] = s[i] BY <1>2, <1>3
<1>6. Tail(q) = s BY <1>4, <1>5, SeqEqual
<1> QED BY <1>2, <1>4, <1>6 DEF q, t

LEMMA InFrontIs ==
  ASSUME NEW X, NEW a \in X, NEW s \in Seq(X), NEW t \in Seq(X), t # <<>>, Head(t) = a, Tail(t) = s
  PROVE  <<a>> \o s = t
<1> DEFINE q == <<a>> \o s
<1>1. q \in Seq(X) /\ q # <<>> /\ Head(q) = a /\ Tail(q) = s BY InFront
<1> HIDE DEF q
<1>2. q = t BY <1>1, SameHeadAndTail
<1> QED BY <1>2 DEF q

LEMMA WrittenOut ==
  ASSUME NEW a, NEW b, NEW c
  PROVE  <<a>> \o <<b>> = <<a, b>> /\ <<a>> \o <<b, c>> = <<a, b, c>>
<1> DEFINE X == {a, b, c}
<1>1. /\ <<b>> \in Seq(X) /\ <<b, c>> \in Seq(X) /\ <<a, b>> \in Seq(X) /\ <<a, b, c>> \in Seq(X) /\ a \in X
  OBVIOUS
<1>2. Head(<<a, b>>) = a /\ Tail(<<a, b>>) = <<b>> /\ <<a, b>> # <<>> OBVIOUS
<1>3. Head(<<a, b, c>>) = a /\ Tail(<<a, b, c>>) = <<b, c>> /\ <<a, b, c>> # <<>> OBVIOUS
<1> HIDE DEF X
<1> QED BY <1>1, <1>2, <1>3, InFrontIs

-----------------------------------------------------------------------------
(* Types *)

\* The calls of each phase.
LEMMA OpsAre ==
  /\ OpsOf("PRE_FLIGHT") = {"status"} /\ OpsOf("STOPPING") = {"stop"} /\ OpsOf("SNAPSHOTTING") = {"snapshot"}
  /\ OpsOf("UPGRADING") = {"clear", "upload", "install"} /\ OpsOf("STARTING") = {"start"}
  /\ OpsOf("RESTORE_START") = {"start"} /\ OpsOf("VERIFYING") = {"verify"} /\ OpsOf("FINALIZING") = {"prune"}
  /\ OpsOf("RESTORE_PRUNE") = {"prune"} /\ OpsOf("undo") = {"stop", "load", "start"}
  /\ OpsOf("RESTORING") = {"stop", "snapshot", "load"} /\ OpsOf("RESTORE_UNDO") = {"load", "start"}
  /\ OpsOf("PROVISIONING") = {"list", "extra"}
BY DEF OpsOf

LEMMA PhasesAre ==
  /\ PhasesOf("upgrade") = {"PRE_FLIGHT", "STOPPING", "SNAPSHOTTING", "UPGRADING", "STARTING", "VERIFYING",
                            "FINALIZING", "undo"}
  /\ PhasesOf("restore") = {"RESTORING", "RESTORE_UNDO", "RESTORE_START", "RESTORE_PRUNE"}
  /\ PhasesOf("provision") = {"PROVISIONING"}
  /\ OpenStatus("upgrade") = {"APPROVED", "PRE_FLIGHT", "STOPPING", "SNAPSHOTTING", "UPGRADING", "STARTING",
                              "VERIFYING", "FINALIZING"}
  /\ OpenStatus("restore") = {"APPROVED", "RESTORING"} /\ OpenStatus("provision") = {"APPROVED", "PROVISIONING"}
BY DEF PhasesOf, OpenStatus, Early, Later

LEMMA InPhases ==
  ASSUME NEW kind \in {"upgrade", "restore", "provision"}
  PROVE  PhasesOf(kind) \subseteq Phase
<1>1. PhasesOf("upgrade") \subseteq Phase BY PhasesAre DEF Phase
<1>2. PhasesOf("restore") \subseteq Phase BY PhasesAre DEF Phase
<1>3. PhasesOf("provision") \subseteq Phase BY PhasesAre DEF Phase
<1> QED BY <1>1, <1>2, <1>3

\* What a phase calls is a call, and its executor one.
LEMMA AskedAre ==
  ASSUME NEW at \in Phase
  PROVE  Asked(at) \subseteq Asks
<1> DEFINE Ops == {"status", "stop", "snapshot", "clear", "upload", "install", "start", "verify", "prune", "load",
                   "list", "extra"}
<1>1. OpsOf(at) \subseteq Ops BY OpsAre DEF Phase
<1>2. Asks = [op : Ops, cid : Canister] \cup [op : {"ship"}, cid : Canister, file : File] BY DEF Asks
<1> HIDE DEF Ops
<1>3. [op : OpsOf(at), cid : Canister] \subseteq [op : Ops, cid : Canister] BY <1>1
<1> QED BY <1>2, <1>3 DEF Asked

LEMMA IsExecutor ==
  ASSUME NEW at \in Phase,
         NEW e \in [at : Phase, mem : Record, todo : Seq(Asked(at)), noted : SUBSET Canister, problems : 0..2,
                    end : Terminal \cup {None}]
  PROVE  e \in Executor /\ e # None
<1>1. e.todo \in Seq(Asks) BY AskedAre, SeqOfSubset
<1>2. e \in Executor BY <1>1 DEF Executor
<1> QED BY <1>2, NoneAssumption

LEMMA PhasesDisjoint ==
  ASSUME NEW kind \in {"upgrade", "restore", "provision"}
  PROVE  OpenStatus(kind) \cap Terminal = {} /\ OpenStatus(kind) \subseteq Status /\ Terminal \subseteq Status
<1>1. /\ OpenStatus("upgrade") = Early \cup Later /\ OpenStatus("restore") = {"APPROVED", "RESTORING"}
      /\ OpenStatus("provision") = {"APPROVED", "PROVISIONING"}
  BY DEF OpenStatus
<1>2. Terminal \subseteq Status BY DEF Status
<1>3. Early \cup Later \subseteq Status BY DEF Early, Later, Status
<1>4. (Early \cup Later) \cap Terminal = {} BY DEF Early, Later, Terminal
<1>5. {"APPROVED", "RESTORING", "PROVISIONING"} \cap Terminal = {} BY DEF Terminal
<1>6. {"APPROVED", "RESTORING", "PROVISIONING"} \subseteq Status BY DEF Status
<1>7. CASE kind = "upgrade" BY <1>1, <1>2, <1>3, <1>4, <1>7
<1>8. CASE kind = "restore" BY <1>1, <1>2, <1>5, <1>6, <1>8
<1>9. CASE kind = "provision" BY <1>1, <1>2, <1>5, <1>6, <1>9
<1> QED BY <1>7, <1>8, <1>9

\* What is known of an executor, and of its next call.
LEMMA Executing ==
  ASSUME TypesOK, run # None
  PROVE  /\ run.mem \in Record /\ rec \in Record /\ rec # None /\ Open /\ CursorOK(run.mem) /\ CursorOK(rec)
         /\ run.at \in PhasesOf(rec.kind) /\ run.at \in Phase /\ rec.status \in OpenStatus(rec.kind)
         /\ run.mem.kind = rec.kind /\ run.mem.status = rec.status
         /\ run.todo \in Seq(Asked(run.at)) /\ run.noted \subseteq Canister
         /\ run.todo # <<>> =>
              /\ Call \in Asked(run.at) /\ Tail(run.todo) \in Seq(Asked(run.at)) /\ Call.cid \in Canister
              /\ run.at # "PROVISIONING" => Call \in [op : OpsOf(run.at), cid : Canister]
         /\ rec.kind \in {"upgrade", "restore", "provision"}
<1>1. run \in [at : Phase, mem : Record, todo : Seq(Asked(run.at)), noted : SUBSET Canister,
               problems : 0..2, end : Terminal \cup {None}]
  BY DEF TypesOK, ExecutorOK
<1>2. run.mem \in Record /\ run.todo \in Seq(Asked(run.at)) /\ run.noted \subseteq Canister /\ run.at \in Phase BY <1>1
<1>3. Open /\ rec # None BY DEF TypesOK, ExecutorOK, Open
<1>4. rec \in Record /\ CursorOK(rec) /\ rec.status \in OpenStatus(rec.kind)
  BY <1>3 DEF TypesOK, RecordOK, Open
<1>5. ASSUME run.todo # <<>> PROVE Call \in Asked(run.at) /\ Tail(run.todo) \in Seq(Asked(run.at))
  <2> DEFINE X == Asked(run.at)
             t == run.todo
  <2>1. t \in Seq(X) /\ t # <<>> BY <1>2, <1>5
  <2> HIDE DEF X, t
  <2>2. Head(t) \in X /\ Tail(t) \in Seq(X) BY <2>1
  <2> QED BY <2>2 DEF X, t, Call
<1>6. \A at : \A x \in Asked(at) : x.cid \in Canister /\ (at # "PROVISIONING" => x \in [op : OpsOf(at), cid : Canister])
  BY DEF Asked
<1>7. rec.kind \in {"upgrade", "restore", "provision"} BY <1>4 DEF Record
<1> QED BY <1>2, <1>3, <1>4, <1>5, <1>6, <1>7 DEF TypesOK, ExecutorOK

\* The snapshots of a canister are finitely many.
LEMMA KeptFinite ==
  ASSUME CanistersOK, NEW c \in Canister
  PROVE  IsFiniteSet(kept[c]) /\ Cardinality(kept[c]) \in Nat /\ taken[c] \in Seq(Snapshot) /\ Len(taken[c]) \in Nat
<1>1. taken[c] \in Seq(Snapshot) BY DEF CanistersOK
<1>2. Len(taken[c]) \in Nat BY <1>1
<1>3. kept[c] \subseteq 1..Len(taken[c]) BY DEF CanistersOK
<1>4. IsFiniteSet(1..Len(taken[c])) BY <1>2, FS_Interval
<1> QED BY <1>1, <1>2, <1>3, <1>4, FS_Subset, FS_CardinalityType

\* Snapshots that were taken stay as they are.
SameTaken ==
  \A d \in Canister : Len(taken[d]) <= Len(taken'[d]) /\ \A i \in 1..Len(taken[d]) : taken'[d][i] = taken[d][i]

\* What a call does to a canister.
Changes(c) ==
  \/ StopCanister(c) \/ StartCanister(c) \/ TakeSnapshot(c) \/ (\E i : LoadSnapshot(c, i))
  \/ ClearChunkStore(c) \/ (\E n \in 1..Pieces : UploadChunk(c, n))
  \/ (\E v \in Version : InstallChunkedCode(c, v)) \/ UNCHANGED canisters

\* Taking a snapshot adds one to what was taken and what is kept.
LEMMA TakingIs ==
  ASSUME CanistersOK, NEW c \in Canister, TakeSnapshot(c)
  PROVE  /\ CanistersOK' /\ SameTaken
         /\ module' = module /\ running' = running /\ chunks' = chunks
         /\ Len(taken'[c]) = Len(taken[c]) + 1 /\ taken'[c][Len(taken'[c])].module = module[c]
         /\ Len(taken'[c]) \in kept'[c] /\ Len(taken'[c]) \in Nat \ {0}
         /\ \A d \in Canister : kept[d] \subseteq kept'[d]
         /\ \A d \in Canister \ {c} : taken'[d] = taken[d] /\ kept'[d] = kept[d]
<1> DEFINE s == [module |-> module[c], chunks |-> chunks[c]]
           k == Len(taken[c]) + 1
<1>1. s \in Snapshot BY DEF Snapshot, CanistersOK
<1>2. /\ taken[c] \in Seq(Snapshot) /\ Len(taken[c]) \in Nat /\ IsFiniteSet(kept[c])
      /\ Cardinality(kept[c]) \in Nat
  BY KeptFinite
<1>3. /\ taken' = [taken EXCEPT ![c] = Append(@, s)] /\ kept' = [kept EXCEPT ![c] = @ \cup {k}]
      /\ module' = module /\ running' = running /\ chunks' = chunks /\ Cardinality(kept[c]) < SnapshotLimit
  BY DEF TakeSnapshot, CanTake
<1>4. taken \in [Canister -> Seq(Snapshot)] /\ kept \in [Canister -> SUBSET Nat] BY DEF CanistersOK
<1>5. /\ Append(taken[c], s) \in Seq(Snapshot) /\ Len(Append(taken[c], s)) = k /\ Append(taken[c], s)[k] = s
      /\ \A i \in 1..Len(taken[c]) : Append(taken[c], s)[i] = taken[c][i]
  BY <1>1, <1>2
<1>6. taken'[c] = Append(taken[c], s) /\ kept'[c] = kept[c] \cup {k} BY <1>3, <1>4
<1>7. \A d \in Canister \ {c} : taken'[d] = taken[d] /\ kept'[d] = kept[d] BY <1>3, <1>4
<1>8. s.module = module[c] OBVIOUS
<1>9. k \in Nat \ {0} BY <1>2
<1> HIDE DEF s, k
<1>10. taken' \in [Canister -> Seq(Snapshot)] BY <1>3, <1>4, <1>5
<1>11. kept' \in [Canister -> SUBSET Nat] BY <1>3, <1>4, <1>9
<1>12. kept[c] \subseteq 1..Len(taken[c]) BY DEF CanistersOK
<1>13. kept'[c] \subseteq 1..k BY <1>2, <1>6, <1>12 DEF k
<1>14. k \notin kept[c] BY <1>2, <1>12 DEF k
<1>15. Cardinality(kept'[c]) = Cardinality(kept[c]) + 1 BY <1>2, <1>6, <1>14, FS_AddElement
<1>16. Cardinality(kept'[c]) <= SnapshotLimit BY <1>2, <1>3, <1>15, KeepAssumption
<1>17. \A d \in Canister : kept'[d] \subseteq 1..Len(taken'[d]) /\ Cardinality(kept'[d]) <= SnapshotLimit
  BY <1>5, <1>6, <1>7, <1>13, <1>16 DEF CanistersOK
<1>18. CanistersOK' BY <1>3, <1>10, <1>11, <1>17 DEF CanistersOK
<1>19. SameTaken
  <2> SUFFICES ASSUME NEW d \in Canister
               PROVE  Len(taken[d]) <= Len(taken'[d]) /\ \A i \in 1..Len(taken[d]) : taken'[d][i] = taken[d][i]
    BY DEF SameTaken
  <2>1. CASE d = c BY <1>2, <1>5, <1>6, <2>1 DEF k
  <2>2. CASE d # c
    <3>1. taken'[d] = taken[d] /\ Len(taken[d]) \in Nat BY <1>7, <2>2, KeptFinite
    <3> QED BY <3>1
  <2> QED BY <2>1, <2>2
<1> QED BY <1>3, <1>5, <1>6, <1>7, <1>8, <1>9, <1>18, <1>19 DEF k

\* Loading one brings back what it holds.
LEMMA LoadingIs ==
  ASSUME CanistersOK, NEW c \in Canister, NEW i, LoadSnapshot(c, i)
  PROVE  /\ CanistersOK' /\ i \in kept[c] /\ i \in 1..Len(taken[c])
         /\ module' = [module EXCEPT ![c] = taken[c][i].module]
         /\ running' = running /\ taken' = taken /\ kept' = kept
<1>1. /\ i \in kept[c] /\ running' = running /\ taken' = taken /\ kept' = kept
      /\ module' = [module EXCEPT ![c] = taken[c][i].module]
      /\ chunks' = [chunks EXCEPT ![c] = taken[c][i].chunks]
  BY DEF LoadSnapshot
<1>2. i \in 1..Len(taken[c]) /\ taken[c] \in Seq(Snapshot) BY <1>1 DEF CanistersOK
<1>3. taken[c][i] \in Snapshot BY <1>2
<1>4. taken[c][i].module \in Version /\ taken[c][i].chunks \in SUBSET (1..Pieces) BY <1>3 DEF Snapshot
<1>5. module' \in [Canister -> Version] /\ chunks' \in [Canister -> SUBSET (1..Pieces)]
  BY <1>1, <1>4 DEF CanistersOK
<1> QED BY <1>1, <1>2, <1>5 DEF CanistersOK

\* No call changes a snapshot, and a canister stays one.
LEMMA CallTypes ==
  ASSUME CanistersOK, NEW c \in Canister, Changes(c)
  PROVE  CanistersOK' /\ SameTaken
<1>0. ASSUME taken' = taken PROVE SameTaken
  <2>1. \A d \in Canister : Len(taken[d]) \in Nat BY KeptFinite
  <2> QED BY <1>0, <2>1 DEF SameTaken
<1>1. CASE TakeSnapshot(c) BY <1>1, TakingIs
<1>2. CASE \E i : LoadSnapshot(c, i) BY <1>0, <1>2, LoadingIs
<1>3. CASE \/ StopCanister(c) \/ StartCanister(c) \/ ClearChunkStore(c) \/ (\E n \in 1..Pieces : UploadChunk(c, n))
           \/ (\E v \in Version : InstallChunkedCode(c, v)) \/ UNCHANGED canisters
  <2>1. taken' = taken /\ kept' = kept
    BY <1>3 DEF StopCanister, StartCanister, ClearChunkStore, UploadChunk, InstallChunkedCode, canisters
  <2>2. module' \in [Canister -> Version] /\ running' \subseteq Canister
    BY <1>3 DEF StopCanister, StartCanister, ClearChunkStore, UploadChunk, InstallChunkedCode, canisters, CanistersOK
  <2>3. chunks' \in [Canister -> SUBSET (1..Pieces)]
    <3>1. chunks' = chunks \/ chunks' = [chunks EXCEPT ![c] = {}]
          \/ \E n \in 1..Pieces : chunks' = [chunks EXCEPT ![c] = @ \cup {n}]
      BY <1>3 DEF StopCanister, StartCanister, ClearChunkStore, UploadChunk, InstallChunkedCode, canisters
    <3> QED BY <3>1 DEF CanistersOK
  <2> QED BY <1>0, <2>1, <2>2, <2>3 DEF CanistersOK
<1> QED BY <1>1, <1>2, <1>3 DEF Changes

\* Pruning leaves some of what was kept.
LEMMA PruningIs ==
  ASSUME CanistersOK, NEW c \in Canister, PruneSnapshots(c)
  PROVE  /\ CanistersOK'
         /\ module' = module /\ running' = running /\ taken' = taken /\ chunks' = chunks
         /\ \A d \in Canister \ {c} : kept'[d] = kept[d]
         /\ kept'[c] \subseteq kept[c] /\ NewestKept(kept[c]) \cap kept[c] \subseteq kept'[c]
         /\ Succeeds \/ Fails
<1> DEFINE old == kept[c] \ NewestKept(kept[c])
<1>1. /\ module' = module /\ running' = running /\ taken' = taken /\ chunks' = chunks
      /\ \E gone \in SUBSET old : kept' = [kept EXCEPT ![c] = @ \ gone]
      /\ Succeeds \/ Fails
  BY DEF PruneSnapshots
<1>2. PICK gone \in SUBSET old : kept' = [kept EXCEPT ![c] = @ \ gone] BY <1>1
<1>3. kept \in [Canister -> SUBSET Nat] BY DEF CanistersOK
<1>4. kept' \in [Canister -> SUBSET Nat] /\ kept'[c] = kept[c] \ gone /\ \A d \in Canister \ {c} : kept'[d] = kept[d]
  BY <1>2, <1>3
<1>5. kept'[c] \subseteq kept[c] /\ NewestKept(kept[c]) \cap kept[c] \subseteq kept'[c] BY <1>4
<1>6. IsFiniteSet(kept[c]) /\ Cardinality(kept[c]) \in Nat BY KeptFinite
<1>7. Cardinality(kept'[c]) <= Cardinality(kept[c]) /\ Cardinality(kept'[c]) \in Nat
  BY <1>5, <1>6, FS_Subset, FS_CardinalityType
<1>8. Cardinality(kept'[c]) <= SnapshotLimit BY <1>6, <1>7, KeepAssumption DEF CanistersOK
<1>9. \A d \in Canister : kept'[d] \subseteq 1..Len(taken'[d]) /\ Cardinality(kept'[d]) <= SnapshotLimit
  BY <1>1, <1>4, <1>5, <1>8 DEF CanistersOK
<1>10. CanistersOK' BY <1>1, <1>4, <1>9 DEF CanistersOK
<1> QED BY <1>1, <1>4, <1>5, <1>10

\* The bounds on what goes wrong are counted.
LEMMA BudgetTypes ==
  ASSUME ChainOK, Succeeds \/ Fails \/ Swallows
  PROVE  failures' \in Nat /\ swallowed' \in Nat /\ losses' \in Nat
BY DEF ChainOK, Succeeds, Fails, Swallows, budget

\* A call is answered: the executor goes on with what is left.
LEMMA AnswerTypes ==
  ASSUME TypesOK, run # None, run.todo # <<>>, rec' = rec,
         NEW m \in Record, CursorOK(m), m.kind = rec.kind, m.version = rec.version, m.choice = rec.choice,
         m.status = rec.status, m.index = rec.index, NEW n \in SUBSET Canister, NEW p \in 0..2,
         run' = [at |-> run.at, mem |-> m, todo |-> Tail(run.todo), noted |-> n, problems |-> p, end |-> run.end]
  PROVE  /\ RecordOK' /\ ExecutorOK'
         /\ run' # None /\ run'.at = run.at /\ run'.mem = m /\ run'.todo = Tail(run.todo) /\ run'.noted = n
                           /\ run'.problems = p /\ run'.end = run.end
<1>1. Tail(run.todo) \in Seq(Asked(run.at)) BY Executing
<1>2. run \in [at : Phase, mem : Record, todo : Seq(Asked(run.at)), noted : SUBSET Canister,
               problems : 0..2, end : Terminal \cup {None}]
  BY DEF TypesOK, ExecutorOK
<1>3. /\ run'.at = run.at /\ run'.mem = m /\ run'.todo = Tail(run.todo) /\ run'.noted = n
      /\ run'.problems = p /\ run'.end = run.end
      /\ run' \in [at : Phase, mem : Record, todo : Seq(Asked(run.at)), noted : SUBSET Canister,
                   problems : 0..2, end : Terminal \cup {None}]
  BY <1>1, <1>2
<1>4. Open' <=> Open BY DEF Open
<1>5. run' # None BY <1>2, <1>3, IsExecutor
<1> QED BY <1>3, <1>4, <1>5 DEF TypesOK, RecordOK, ExecutorOK

\* A phase has ended, or the action.
LEMMA SaveTypes ==
  ASSUME TypesOK, NEW m \in Record, CursorOK(m), NEW s \in OpenStatus(m.kind) \cup Terminal, Ends(m, s)
  PROVE  RecordOK' /\ ExecutorOK' /\ rec' \in Record /\ rec'.status = s /\ rec'.kind = m.kind
         /\ rec'.index = m.index /\ rec'.load = m.load /\ rec'.refs = m.refs /\ rec'.version = m.version
         /\ rec'.choice = m.choice /\ rec'.listed = m.listed /\ run' = None
<1>1. rec' = [m EXCEPT !.status = s] /\ run' = None BY DEF Ends, Saves
<1>2. m.kind \in {"upgrade", "restore", "provision"} BY DEF Record
<1>3. s \in Status BY <1>2, PhasesDisjoint
<1>4. rec' \in Record /\ rec'.status = s /\ rec'.kind = m.kind
      /\ rec'.index = m.index /\ rec'.load = m.load /\ rec'.refs = m.refs /\ rec'.version = m.version
      /\ rec'.choice = m.choice /\ rec'.listed = m.listed
  BY <1>1, <1>3 DEF Record
<1>5. CursorOK(rec') BY <1>4 DEF CursorOK
<1> QED BY <1>1, <1>4, <1>5 DEF RecordOK, ExecutorOK
\* An executor is of the kind its phase belongs to.
LEMMA KindOfPhase ==
  ASSUME TypesOK, run # None
  PROVE  /\ run.at \in PhasesOf("upgrade") <=> rec.kind = "upgrade"
         /\ run.at \in PhasesOf("restore") <=> rec.kind = "restore"
         /\ run.at \in PhasesOf("provision") <=> rec.kind = "provision"
<1>1. run.at \in PhasesOf(rec.kind) /\ rec.kind \in {"upgrade", "restore", "provision"} BY Executing
<1>2. CASE rec.kind = "upgrade" BY <1>1, <1>2, PhasesAre
<1>3. CASE rec.kind = "restore" BY <1>1, <1>3, PhasesAre
<1>4. CASE rec.kind = "provision" BY <1>1, <1>4, PhasesAre
<1> QED BY <1>1, <1>2, <1>3, <1>4

\* Calls of a phase's kind are calls the phase makes, also one after the other.
LEMMA CallsAre ==
  ASSUME NEW at, NEW op \in OpsOf(at), NEW cs \in Seq(Canister)
  PROVE  Calls(op, cs) \in Seq(Asked(at))
<1>1. Calls(op, cs) \in Seq([op : {op}, cid : Canister]) BY CallsElements
<1>2. [op : {op}, cid : Canister] \subseteq Asked(at) BY DEF Asked
<1> QED BY <1>1, <1>2, SeqOfSubset

\* What is undone.
LEMMA UndoCallsAre ==
  ASSUME NEW r \in Record, r.index <= Len(Canisters), NEW S
  PROVE  /\ RestartCanisters(Canisters) \in Seq(Asked("undo"))
         /\ RestartCanisters(Having(Canisters, S)) \in Seq(Asked("undo"))
         /\ RevertUpgraded(r, r.index) \in Seq(Asked("undo"))
         /\ RevertUpgraded(r, r.index) \o RestartCanisters(Canisters) \in Seq(Asked("undo"))
         /\ FullRevertAndRestart(r) \in Seq(Asked("undo"))
         /\ SubSeq(Canisters, 1, r.index) \in Seq(Canister)
<1> DEFINE A == Asked("undo")
<1>1. r.index \in 0..Len(Canisters)
  <2>1. r.index \in Nat BY DEF Record
  <2> QED BY <2>1, Lists
<1>2. SubSeq(Canisters, 1, r.index) \in Seq(Canister)
  BY <1>1, Lists
<1>3. /\ Having(Canisters, S) \in Seq(Canister)
      /\ Referred(r, SubSeq(Canisters, 1, r.index)) \in Seq(Canister)
      /\ Referred(r, Canisters) \in Seq(Canister)
  BY <1>2, Lists, HavingAre DEF Referred
<1>4. \A cs \in Seq(Canister) : Calls("stop", cs) \in Seq(A) /\ Calls("load", cs) \in Seq(A) /\ Calls("start", cs) \in Seq(A)
  BY OpsAre, CallsAre
<1> HIDE DEF A
<1>5. \A a, b \in Seq(A) : a \o b \in Seq(A) BY ToSetConcat
<1>6. /\ RestartCanisters(Canisters) \in Seq(A) /\ RestartCanisters(Having(Canisters, S)) \in Seq(A)
      /\ RevertUpgraded(r, r.index) \in Seq(A)
  BY <1>3, <1>4, Lists DEF RestartCanisters, RevertUpgraded
<1>7. Calls("stop", Canisters) \o Calls("load", Referred(r, Canisters)) \in Seq(A) BY <1>3, <1>4, <1>5, Lists
<1>8. FullRevertAndRestart(r) \in Seq(A) BY <1>4, <1>5, <1>7, Lists DEF FullRevertAndRestart
<1> QED BY <1>2, <1>5, <1>6, <1>8 DEF A

\* The canister at the cursor.
LEMMA TargetIs ==
  ASSUME NEW r \in Record, r.index < Len(Canisters)
  PROVE  /\ r.index \in Nat /\ r.index + 1 \in 1..Len(Canisters) /\ Target(r) \in Canister
         /\ Provisioned(r) = Target(r) /\ <<Target(r)>> \in Seq(Canister)
<1>1. r.index \in Nat BY DEF Record
<1>2. r.index + 1 \in 1..Len(Canisters) BY <1>1, Lists
<1>3. Target(r) \in Canister BY <1>2, Lists DEF Target
<1> QED BY <1>1, <1>2, <1>3 DEF Target, Provisioned

\* What a phase of an upgrade calls.
LEMMA PhaseCallsAre ==
  ASSUME NEW r \in Record, r.kind = "upgrade", CursorOK(r), r.status \in OpenStatus("upgrade") \ {"APPROVED"}
  PROVE  PhaseCalls(r) \in Seq(Asked(r.status))
<1>1. \A op : op \in OpsOf(r.status) => Calls(op, Canisters) \in Seq(Asked(r.status)) BY CallsAre, Lists
<1>2. CASE r.status = "UPGRADING"
  <2> DEFINE A == Asked(r.status)
  <2>1. <<>> \in Seq(A) OBVIOUS
  <2>2. CASE r.index < Len(Canisters)
    <3>1. <<Target(r)>> \in Seq(Canister) BY <2>2, TargetIs
    <3>2. \A op \in {"clear", "upload", "install"} : Calls(op, <<Target(r)>>) \in Seq(A)
      BY <1>2, <3>1, OpsAre, CallsAre
    <3> HIDE DEF A
    <3>3. \A a, b \in Seq(A) : a \o b \in Seq(A) BY ToSetConcat
    <3> DEFINE x == IF r.load = 0 THEN Calls("clear", <<Target(r)>>) ELSE <<>>
               y == IF r.load + 1 < Pieces THEN <<>> ELSE Calls("install", <<Target(r)>>) \o Calls("clear", <<Target(r)>>)
    <3>4. x \in Seq(A) /\ y \in Seq(A) /\ Calls("upload", <<Target(r)>>) \in Seq(A)  BY <2>1, <3>2, <3>3
    <3>5. InstallStepCalls(r) = x \o Calls("upload", <<Target(r)>>) \o y BY DEF InstallStepCalls
    <3> HIDE DEF x, y
    <3>6. InstallStepCalls(r) \in Seq(A) BY <3>3, <3>4, <3>5
    <3> QED BY <1>2, <2>2, <3>6 DEF PhaseCalls, A
  <2>3. CASE ~(r.index < Len(Canisters)) BY <1>2, <2>1, <2>3 DEF PhaseCalls
  <2> QED BY <2>2, <2>3
<1>3. CASE r.status # "UPGRADING" BY <1>1, <1>3, OpsAre, PhasesAre DEF PhaseCalls
<1> QED BY <1>2, <1>3

\* An executor that begins, of a record that is saved.
LEMMA DoingTypes ==
  ASSUME TypesOK, NEW m \in Record, CursorOK(m), NEW at \in PhasesOf(m.kind), NEW todo \in Seq(Asked(at)),
         NEW end \in Terminal \cup {None},
         rec' = m, m.status \in OpenStatus(m.kind) \ {"APPROVED"}, m.kind = "upgrade" /\ at # "undo" => m.status = at,
         run' = [at |-> at, mem |-> m, todo |-> todo, noted |-> {}, problems |-> 0, end |-> end]
  PROVE  /\ RecordOK' /\ ExecutorOK'
         /\ run' # None /\ run'.at = at /\ run'.mem = m /\ run'.todo = todo /\ run'.noted = {} /\ run'.problems = 0
                           /\ run'.end = end
<1>1. /\ run'.at = at /\ run'.mem = m /\ run'.todo = todo /\ run'.noted = {} /\ run'.problems = 0 /\ run'.end = end
  OBVIOUS
<1>2. m.kind \in {"upgrade", "restore", "provision"} BY DEF Record
<1>3. at \in Phase BY <1>2, InPhases
<1>4. run' \in [at : Phase, mem : Record, todo : Seq(Asked(at)), noted : SUBSET Canister,
                problems : 0..2, end : Terminal \cup {None}]
  <2>1. {} \in SUBSET Canister /\ 0 \in 0..2 OBVIOUS
  <2> QED BY <1>1, <1>3, <2>1
<1>5. m.status \notin Terminal BY <1>2, PhasesDisjoint
<1>7. run' # None BY <1>1, <1>3, <1>4, IsExecutor
<1>6. Open' BY <1>5, NoneAssumption DEF Open
<1> QED BY <1>1, <1>4, <1>6, <1>7 DEF RecordOK, ExecutorOK
\* What is not a canister's is left alone.
LEMMA ChainStays ==
  ASSUME ChainOK, CanistersOK', assets' \in [Canister -> [File -> Served]], store' \in [File -> InStore],
         filed' = filed, before' = before, failures' \in Nat, swallowed' \in Nat, losses' \in Nat
  PROVE  ChainOK'
BY DEF ChainOK

\* The fields of an executor.
LEMMA ExecutorIs ==
  ASSUME TypesOK, run # None
  PROVE  /\ run = [at |-> run.at, mem |-> run.mem, todo |-> run.todo, noted |-> run.noted,
                   problems |-> run.problems, end |-> run.end]
         /\ run.problems \in 0..2 /\ run.noted \in SUBSET Canister /\ run.end \in Terminal \cup {None}
         /\ run.mem.version = rec.version /\ run.mem.choice = rec.choice /\ run.mem.index = rec.index
         /\ rec.status # "APPROVED" /\ (rec.kind = "upgrade" /\ run.at # "undo" => rec.status = run.at)
<1>1. run \in [at : Phase, mem : Record, todo : Seq(Asked(run.at)), noted : SUBSET Canister,
               problems : 0..2, end : Terminal \cup {None}]
  BY DEF TypesOK, ExecutorOK
<1> QED BY <1>1 DEF TypesOK, ExecutorOK

\* What notes something in an executor changes the other fields not.
LEMMA ExecutorExcept ==
  ASSUME TypesOK, run # None, NEW x
  PROVE  /\ [run EXCEPT !.noted = x] = [at |-> run.at, mem |-> run.mem, todo |-> run.todo, noted |-> x,
                                      problems |-> run.problems, end |-> run.end]
         /\ [run EXCEPT !.problems = x] = [at |-> run.at, mem |-> run.mem, todo |-> run.todo, noted |-> run.noted,
                                         problems |-> x, end |-> run.end]
         /\ [run EXCEPT !.mem = x] = [at |-> run.at, mem |-> x, todo |-> run.todo, noted |-> run.noted,
                                    problems |-> run.problems, end |-> run.end]
<1>1. \A a, m, t, n, p, e, r :
        r = [at |-> a, mem |-> m, todo |-> t, noted |-> n, problems |-> p, end |-> e] =>
          /\ [r EXCEPT !.noted = x] = [at |-> a, mem |-> m, todo |-> t, noted |-> x, problems |-> p, end |-> e]
          /\ [r EXCEPT !.problems = x] = [at |-> a, mem |-> m, todo |-> t, noted |-> n, problems |-> x, end |-> e]
          /\ [r EXCEPT !.mem = x] = [at |-> a, mem |-> x, todo |-> t, noted |-> n, problems |-> p, end |-> e]
  OBVIOUS
<1> QED BY <1>1, ExecutorIs

\* A call that is answered, and noted in the copy of the record or not.
LEMMA Answers ==
  ASSUME TypesOK, run # None, run.todo # <<>>, rec' = rec,
         NEW m \in Record, CursorOK(m), m.kind = rec.kind, m.version = rec.version, m.choice = rec.choice,
         m.status = rec.status, m.index = rec.index, NEW n \in SUBSET Canister, NEW p \in 0..2,
         NEW r, r = [at |-> run.at, mem |-> m, todo |-> run.todo, noted |-> n, problems |-> p, end |-> run.end],
         Answered(r)
  PROVE  /\ RecordOK' /\ ExecutorOK'
         /\ run' # None /\ run'.at = run.at /\ run'.mem = m /\ run'.todo = Tail(run.todo) /\ run'.noted = n
                           /\ run'.problems = p /\ run'.end = run.end
<1>1. run' = [at |-> run.at, mem |-> m, todo |-> Tail(run.todo), noted |-> n, problems |-> p, end |-> run.end]
  BY DEF Answered
<1> QED BY <1>1, AnswerTypes

\* It is not noted.
LEMMA PlainAnswers ==
  ASSUME TypesOK, run # None, run.todo # <<>>, rec' = rec, Answered(run)
  PROVE  /\ RecordOK' /\ ExecutorOK'
         /\ run' # None /\ run'.at = run.at /\ run'.mem = run.mem /\ run'.todo = Tail(run.todo)
                           /\ run'.noted = run.noted /\ run'.problems = run.problems /\ run'.end = run.end
BY Answers, Executing, ExecutorIs

\* The canister is noted.
LEMMA NotedAnswers ==
  ASSUME TypesOK, run # None, run.todo # <<>>, rec' = rec, run.at # "PROVISIONING",
         Answered([run EXCEPT !.noted = @ \cup {Call.cid}])
  PROVE  /\ RecordOK' /\ ExecutorOK'
         /\ run' # None /\ run'.at = run.at /\ run'.mem = run.mem /\ run'.todo = Tail(run.todo)
                           /\ run'.noted = run.noted \cup {Call.cid} /\ run'.problems = run.problems /\ run'.end = run.end
<1>1. run.noted \cup {Call.cid} \in SUBSET Canister BY Executing
<1>2. [run EXCEPT !.noted = @ \cup {Call.cid}]
        = [at |-> run.at, mem |-> run.mem, todo |-> run.todo, noted |-> run.noted \cup {Call.cid},
           problems |-> run.problems, end |-> run.end]
  BY ExecutorExcept
<1>3. /\ run.mem \in Record /\ CursorOK(run.mem) /\ run.mem.kind = rec.kind /\ run.mem.status = rec.status
      /\ run.mem.version = rec.version /\ run.mem.choice = rec.choice /\ run.mem.index = rec.index
      /\ run.problems \in 0..2
  BY Executing, ExecutorIs
<1> DEFINE r == [run EXCEPT !.noted = @ \cup {Call.cid}]
<1>4. Answered(r) OBVIOUS
<1> HIDE DEF r
<1> QED BY <1>1, <1>2, <1>3, <1>4, Answers DEF r

\* The snapshot it took is.
LEMMA SnapshotAnswers ==
  ASSUME TypesOK, run # None, run.todo # <<>>, rec' = rec, NEW k \in Nat,
         Answered([run EXCEPT !.mem.refs[Call.cid] = k])
  PROVE  /\ RecordOK' /\ ExecutorOK'
         /\ run' # None
         /\ run'.at = run.at /\ run'.mem = [run.mem EXCEPT !.refs[Call.cid] = k] /\ run'.todo = Tail(run.todo)
              /\ run'.noted = run.noted /\ run'.problems = run.problems /\ run'.end = run.end
              /\ run'.mem.refs = [run.mem.refs EXCEPT ![Call.cid] = k]
              /\ run'.mem.load = run.mem.load /\ run'.mem.index = run.mem.index
<1> DEFINE m == [run.mem EXCEPT !.refs[Call.cid] = k]
<1>1. Call.cid \in Canister /\ run.mem \in Record BY Executing
<1>2. /\ m \in Record /\ m.kind = run.mem.kind /\ m.version = run.mem.version /\ m.choice = run.mem.choice
      /\ m.status = run.mem.status /\ m.index = run.mem.index /\ m.load = run.mem.load
      /\ m.refs = [run.mem.refs EXCEPT ![Call.cid] = k]
  BY <1>1 DEF Record
<1>3. [run EXCEPT !.mem.refs[Call.cid] = k]
        = [at |-> run.at, mem |-> m, todo |-> run.todo, noted |-> run.noted,
           problems |-> run.problems, end |-> run.end]
  BY ExecutorExcept
<1>4. CursorOK(m)
  <2>1. CursorOK(run.mem) BY Executing
  <2> HIDE DEF m
  <2> QED BY <1>2, <2>1 DEF CursorOK
<1>5. /\ run.mem.kind = rec.kind /\ run.mem.status = rec.status /\ run.noted \in SUBSET Canister
      /\ run.mem.version = rec.version /\ run.mem.choice = rec.choice /\ run.mem.index = rec.index
      /\ run.problems \in 0..2
  BY Executing, ExecutorIs
<1> DEFINE r == [run EXCEPT !.mem.refs[Call.cid] = k]
<1>6. Answered(r) OBVIOUS
<1>7. r = [at |-> run.at, mem |-> m, todo |-> run.todo, noted |-> run.noted,
           problems |-> run.problems, end |-> run.end]
  BY <1>3
<1> HIDE DEF m, r
<1>8. /\ RecordOK' /\ ExecutorOK'
      /\ run' # None /\ run'.at = run.at /\ run'.mem = m /\ run'.todo = Tail(run.todo) /\ run'.noted = run.noted
                        /\ run'.problems = run.problems /\ run'.end = run.end
  BY <1>2, <1>4, <1>5, <1>6, <1>7, Answers
<1>9. m = [run.mem EXCEPT !.refs[Call.cid] = k] BY DEF m
<1> QED BY <1>2, <1>8, <1>9

\* The piece or the file it shipped is.
LEMMA LoadAnswers ==
  ASSUME TypesOK, run # None, run.todo # <<>>, rec' = rec,
         rec.kind = "upgrade" => run.mem.load < Pieces, rec.kind = "provision" => run.mem.load < Len(Files),
         rec.kind # "restore", Answered([run EXCEPT !.mem.load = @ + 1])
  PROVE  /\ RecordOK' /\ ExecutorOK'
         /\ run' # None
         /\ run'.at = run.at /\ run'.mem = [run.mem EXCEPT !.load = @ + 1] /\ run'.todo = Tail(run.todo)
              /\ run'.noted = run.noted /\ run'.problems = run.problems /\ run'.end = run.end
              /\ run'.mem.refs = run.mem.refs /\ run'.mem.load = run.mem.load + 1 /\ run'.mem.index = run.mem.index
<1> DEFINE m == [run.mem EXCEPT !.load = @ + 1]
<1>1. run.mem \in Record BY Executing
<1>a. run.mem.load \in Nat /\ run.mem.load + 1 \in Nat BY <1>1 DEF Record
<1>2. /\ m \in Record /\ m.kind = run.mem.kind /\ m.version = run.mem.version /\ m.choice = run.mem.choice
      /\ m.status = run.mem.status /\ m.index = run.mem.index /\ m.load = run.mem.load + 1
      /\ m.refs = run.mem.refs /\ run.mem.load \in Nat
  BY <1>1, <1>a DEF Record
<1>3. [run EXCEPT !.mem.load = @ + 1]
        = [at |-> run.at, mem |-> m, todo |-> run.todo, noted |-> run.noted,
           problems |-> run.problems, end |-> run.end]
  BY ExecutorExcept
<1>4. CursorOK(m)
  <2>1. CursorOK(run.mem) /\ run.mem.kind = rec.kind BY Executing
  <2> HIDE DEF m
  <2> QED BY <1>2, <2>1, Lists DEF CursorOK
<1>5. /\ run.mem.kind = rec.kind /\ run.mem.status = rec.status /\ run.noted \in SUBSET Canister
      /\ run.mem.version = rec.version /\ run.mem.choice = rec.choice /\ run.mem.index = rec.index
      /\ run.problems \in 0..2
  BY Executing, ExecutorIs
<1> DEFINE r == [run EXCEPT !.mem.load = @ + 1]
<1>6. Answered(r) OBVIOUS
<1>7. r = [at |-> run.at, mem |-> m, todo |-> run.todo, noted |-> run.noted,
           problems |-> run.problems, end |-> run.end]
  BY <1>3
<1> HIDE DEF m, r
<1>8. /\ RecordOK' /\ ExecutorOK'
      /\ run' # None /\ run'.at = run.at /\ run'.mem = m /\ run'.todo = Tail(run.todo) /\ run'.noted = run.noted
                        /\ run'.problems = run.problems /\ run'.end = run.end
  BY <1>2, <1>4, <1>5, <1>6, <1>7, Answers
<1>9. m = [run.mem EXCEPT !.load = @ + 1] BY DEF m
<1> QED BY <1>2, <1>8, <1>9
\* An action that is approved is a record.
LEMMA NewRecordIs ==
  ASSUME NEW kind \in {"upgrade", "restore", "provision"}, NEW choice \in [Canister -> Nat],
         filed \in 0..MaxActions, filed < MaxActions
  PROVE  LET r == NewRecord(kind, choice)
         IN  /\ r \in Record /\ r.kind = kind /\ r.status = "APPROVED" /\ r.choice = choice /\ r.index = 0 /\ r.load = 0
             /\ r.refs = [c \in Canister |-> 0] /\ ~r.listed
<1>1. filed + 1 \in Version BY CallBoundsAssumption DEF Version
<1>2. "APPROVED" \in Status BY DEF Status
<1> QED BY <1>1, <1>2 DEF NewRecord, Record

LEMMA ApprovesT ==
  ASSUME TypesOK, NEW r \in Record, r.index = 0, r.load = 0, r.status = "APPROVED", Approves(r),
         store' \in [File -> InStore]
  PROVE  TypesOK'
<1>1. /\ rec' = r /\ run' = None /\ filed' = filed + 1 /\ filed < MaxActions
      /\ before' = [module |-> module, running |-> running]
      /\ UNCHANGED <<canisters, assets, failures, swallowed, losses>>
  BY DEF Approves, budget
<1>2. before' \in [module : [Canister -> Version], running : SUBSET Canister]
  BY <1>1 DEF TypesOK, ChainOK, CanistersOK
<1>3. filed' \in 0..MaxActions BY <1>1, CallBoundsAssumption DEF TypesOK, ChainOK
<1>4. CanistersOK' BY <1>1 DEF TypesOK, ChainOK, CanistersOK, canisters
<1>5. ChainOK' BY <1>1, <1>2, <1>3, <1>4 DEF TypesOK, ChainOK
<1>6. r.kind \in {"upgrade", "restore", "provision"} BY DEF Record
<1>7. r.status \in OpenStatus(r.kind) BY <1>6, PhasesAre
<1>8. CursorOK(r) BY Lists DEF CursorOK
<1> QED BY <1>1, <1>5, <1>7, <1>8 DEF TypesOK, RecordOK, ExecutorOK

\* An executor begins.
LEMMA BeginsT ==
  ASSUME TypesOK, NEW m \in Record, CursorOK(m), NEW at \in PhasesOf(m.kind), NEW todo \in Seq(Asked(at)),
         rec' = m, m.status \in OpenStatus(m.kind) \ {"APPROVED"}, m.kind = "upgrade" => m.status = at,
         run' = Doing(at, m, todo)
  PROVE  /\ RecordOK' /\ ExecutorOK'
         /\ run' # None /\ run'.at = at /\ run'.mem = m /\ run'.todo = todo /\ run'.noted = {} /\ run'.problems = 0
<1>1. run' = [at |-> at, mem |-> m, todo |-> todo, noted |-> {}, problems |-> 0, end |-> None] BY DEF Doing
<1> QED BY <1>1, DoingTypes

\* What the beginning of an upgrade's phase saves and starts.
LEMMA BeginUpgradeIs ==
  ASSUME TypesOK, BeginUpgradePhase
  PROVE  /\ TypesOK' /\ rec # None /\ rec \in Record /\ Open /\ run = None /\ rec.kind = "upgrade"
         /\ rec' \in Record /\ rec'.kind = "upgrade"
         /\ rec'.status = (IF rec.status = "APPROVED" THEN "PRE_FLIGHT" ELSE rec.status)
         /\ rec'.refs = rec.refs /\ rec'.index = rec.index /\ rec'.load = rec.load /\ rec'.version = rec.version
         /\ UNCHANGED <<canisters, assets, before, swallowed, losses>>
         /\ run' # None /\ run'.at = rec'.status /\ run'.mem = rec' /\ run'.todo = PhaseCalls(rec') /\ run'.noted = {}
<1> DEFINE r == [rec EXCEPT !.status = IF @ = "APPROVED" THEN "PRE_FLIGHT" ELSE @]
<1>1. /\ Open /\ run = None /\ rec.kind = "upgrade" /\ rec' = r /\ run' = Doing(r.status, r, PhaseCalls(r))
      /\ UNCHANGED <<canisters, assets, store, filed, before, failures, swallowed, losses>>
  BY DEF BeginUpgradePhase, budget
<1>2. rec # None /\ rec \in Record /\ CursorOK(rec) /\ rec.status \in OpenStatus("upgrade")
  BY <1>1 DEF Open, TypesOK, RecordOK
<1>3. "PRE_FLIGHT" \in Status BY DEF Status
<1>4. /\ r \in Record /\ r.kind = "upgrade" /\ r.status = (IF rec.status = "APPROVED" THEN "PRE_FLIGHT" ELSE rec.status)
      /\ r.refs = rec.refs /\ r.index = rec.index /\ r.load = rec.load /\ r.version = rec.version
  BY <1>1, <1>2, <1>3 DEF Record
<1> HIDE DEF r
<1>5. CursorOK(r) BY <1>1, <1>2, <1>4 DEF CursorOK
<1>6. r.status \in OpenStatus(r.kind) \ {"APPROVED"} /\ r.status \in PhasesOf(r.kind) BY <1>2, <1>4, PhasesAre
<1>7. PhaseCalls(r) \in Seq(Asked(r.status)) BY <1>4, <1>5, <1>6, PhaseCallsAre
<1>8. /\ RecordOK' /\ ExecutorOK'
      /\ run' # None /\ run'.at = r.status /\ run'.mem = r /\ run'.todo = PhaseCalls(r) /\ run'.noted = {}
  BY <1>1, <1>4, <1>5, <1>6, <1>7, BeginsT
<1>9. CanistersOK' BY <1>1 DEF TypesOK, ChainOK, CanistersOK, canisters
<1>10. ChainOK' BY <1>1, <1>9 DEF TypesOK, ChainOK
<1>11. TypesOK' BY <1>8, <1>10 DEF TypesOK
<1> QED BY <1>1, <1>2, <1>4, <1>8, <1>11

\* A step that changes no more than the canisters, the record and the executor.
LEMMA StepTypes ==
  ASSUME TypesOK, CanistersOK', UNCHANGED <<assets, store, filed, before>>, Succeeds \/ Fails \/ Swallows,
         RecordOK', ExecutorOK'
  PROVE  TypesOK'
<1>1. failures' \in Nat /\ swallowed' \in Nat /\ losses' \in Nat BY BudgetTypes DEF TypesOK
<1>2. ChainOK' BY <1>1 DEF TypesOK, ChainOK
<1> QED BY <1>2 DEF TypesOK

\* The canisters stay.
LEMMA CanistersStay ==
  ASSUME TypesOK, UNCHANGED canisters
  PROVE  CanistersOK'
BY DEF TypesOK, ChainOK, CanistersOK, canisters

\* The executor is gone, the record as it was.
LEMMA GoneTypes ==
  ASSUME TypesOK, rec' = rec, run' = None
  PROVE  RecordOK' /\ ExecutorOK'
BY DEF TypesOK, RecordOK, ExecutorOK

LEMMA LoseT ==
  ASSUME TypesOK, LoseExecutor
  PROVE  TypesOK'
<1>1. /\ UNCHANGED <<canisters, assets, store, filed, before, rec, failures, swallowed>>
      /\ run' = None /\ losses' = losses + 1
  BY DEF LoseExecutor
<1>2. CanistersOK' BY <1>1, CanistersStay
<1>3. ChainOK' BY <1>1, <1>2 DEF TypesOK, ChainOK
<1> QED BY <1>1, <1>3, GoneTypes DEF TypesOK

\* A phase of an upgrade is over.
LEMMA PhaseDoneIs ==
  ASSUME TypesOK, NEW from \in PhasesOf("upgrade"), NEW to \in OpenStatus("upgrade") \cup Terminal, PhaseDone(from, to)
  PROVE  /\ TypesOK' /\ run # None /\ run.at = from /\ run.todo = <<>> /\ rec.kind = "upgrade" /\ run' = None
         /\ rec' \in Record /\ rec'.status = to /\ rec'.kind = "upgrade" /\ rec'.index = run.mem.index
         /\ rec'.load = run.mem.load /\ rec'.refs = run.mem.refs /\ rec'.version = run.mem.version
         /\ UNCHANGED <<canisters, assets, before, swallowed, losses>>
<1>1. /\ run # None /\ run.at = from /\ run.todo = <<>> /\ Ends(run.mem, to)
      /\ UNCHANGED <<canisters, assets, store, filed, before, failures, swallowed, losses>>
  BY DEF PhaseDone, Called, At, budget
<1>2. rec.kind = "upgrade" BY <1>1, KindOfPhase
<1>3. run.mem \in Record /\ CursorOK(run.mem) /\ run.mem.kind = "upgrade" BY <1>1, <1>2, Executing
<1>4. /\ RecordOK' /\ ExecutorOK' /\ rec' \in Record /\ rec'.status = to /\ rec'.kind = "upgrade"
      /\ rec'.index = run.mem.index /\ rec'.load = run.mem.load /\ rec'.refs = run.mem.refs
      /\ rec'.version = run.mem.version /\ run' = None
  BY <1>1, <1>3, SaveTypes
<1>5. CanistersOK' BY <1>1, CanistersStay
<1>6. Succeeds BY <1>1 DEF Succeeds, budget
<1>7. TypesOK' BY <1>1, <1>4, <1>5, <1>6, StepTypes
<1> QED BY <1>1, <1>2, <1>4, <1>7
-----------------------------------------------------------------------------
(* Upgrades *)

\* An upgrade that ended leaves the stand whole.
LEMMA EndedUpgrade ==
  ASSUME run' = None, rec'.kind = "upgrade", rec'.status \in Terminal,
         rec'.status = "COMPLETE" => \A c \in Canister : module'[c] = rec'.version,
         Clean' /\ rec'.status # "COMPLETE" =>
           module' = before'.module \/ \A c \in Canister : module'[c] = rec'.version,
         Clean' /\ rec'.status # "REVERTED_PARTIAL_FAILURE" => before'.running \subseteq running'
  PROVE  UpgradesOK'
<1>1. ~Open' BY DEF Open
<1>2. UpgradeOK' /\ PhaseOK' /\ StepOK' /\ CleanOK' /\ UndoOK'
  BY <1>1 DEF UpgradeOK, PhaseOK, StepOK, CleanOK, UndoOK, Upgrading
<1>3. UpgradeEndsWhole'
  BY DEF UpgradeEndsWhole, CompleteIsNew, EndsUniform, EndsRunning, Was, Clean
<1> QED BY <1>2, <1>3 DEF UpgradesOK

\* While it is open, the parts about it are what is to be shown.
LEMMA OpenUpgrade ==
  ASSUME TypesOK', rec' # None, rec'.status \in OpenStatus("upgrade"),
         UpgradeOK', PhaseOK', StepOK', CleanOK', UndoOK'
  PROVE  UpgradesOK'
<1>1. rec'.status \notin Terminal BY PhasesDisjoint
<1>2. UpgradeEndsWhole'
  BY <1>1 DEF UpgradeEndsWhole, CompleteIsNew, EndsUniform, EndsRunning, Was, Terminal
<1> QED BY <1>2 DEF UpgradesOK

\* Between two messages, less is.
LEMMA SavedUpgrade ==
  ASSUME TypesOK', rec' # None, rec'.kind = "upgrade", rec'.status \in OpenStatus("upgrade"), run' = None,
         Undoable(rec)',
         rec'.status \in Early =>
           /\ module' = before'.module /\ rec'.index = 0 /\ rec'.load = 0 
           /\ \A c \in Canister : rec'.refs[c] = 0,
         rec'.status \in Later => \A c \in Canister : rec'.refs[c] # 0,
         rec'.status \in {"APPROVED", "PRE_FLIGHT"} => before'.running = running',
         rec'.status = "UPGRADING" => rec'.load < Pieces,
         rec'.status = "FINALIZING" => \A c \in Canister : module'[c] = rec'.version,
         Clean' =>
           /\ rec'.status = "STOPPING" => before'.running \subseteq running'
           /\ rec'.status = "UPGRADING" => InstalledTo(rec.index, FALSE, rec.version)'
           /\ rec'.status = "STARTING" => \A c \in Canister : module'[c] = rec'.version
           /\ rec'.status \in {"VERIFYING", "FINALIZING"} => running' = Canister
  PROVE  UpgradesOK'
<1>1. UpgradeOK' BY DEF UpgradeOK, HasRef
<1>2. CleanOK' BY DEF CleanOK
<1>3. PhaseOK' /\ StepOK' /\ UndoOK' BY DEF PhaseOK, StepOK, UndoOK
<1> QED BY <1>1, <1>2, <1>3, OpenUpgrade

\* What holds of an open upgrade, and of its executor.
LEMMA OfUpgrade ==
  ASSUME UpgradesOK, Open, rec.kind = "upgrade"
  PROVE  /\ Undoable(rec)
         /\ rec.status \in Early =>
              module = before.module /\ rec.index = 0 /\ rec.load = 0 /\ \A c \in Canister : rec.refs[c] = 0
         /\ rec.status \in Later => \A c \in Canister : rec.refs[c] # 0
         /\ rec.status \in {"APPROVED", "PRE_FLIGHT"} => before.running = running
         /\ rec.status = "UPGRADING" => rec.load < Pieces
         /\ rec.status = "FINALIZING" => \A c \in Canister : module[c] = rec.version
         /\ run # None => Undoable(run.mem) /\ (rec.status \in Later => run.mem.refs = rec.refs)
BY DEF UpgradesOK, UpgradeOK, Upgrading, HasRef

\* The action is filed and approved.
LEMMA ApprovesU ==
  ASSUME TypesOK, NEW r \in Record, r.index = 0, r.load = 0, r.status = "APPROVED",
         \A c \in Canister : r.refs[c] = 0, Approves(r), store' \in [File -> InStore]
  PROVE  UpgradesOK'
<1>1. /\ rec' = r /\ run' = None /\ module' = module /\ running' = running
      /\ before' = [module |-> module, running |-> running]
  BY DEF Approves, canisters
<1>2. TypesOK' BY ApprovesT
<1>3. CASE r.kind = "upgrade"
  <2>1. Undoable(rec)' BY <1>1 DEF Undoable, HasRef
  <2>2. r.status \in OpenStatus("upgrade") /\ r.status \notin Later BY PhasesAre DEF Later
  <2>3. rec' # None BY <1>1, NoneAssumption
  <2> QED BY <1>1, <1>2, <1>3, <2>1, <2>2, <2>3, SavedUpgrade DEF Later
<1>4. CASE r.kind # "upgrade"
  BY <1>1, <1>4 DEF UpgradesOK, UpgradeOK, PhaseOK, StepOK, CleanOK, UndoOK, Upgrading, UpgradeEndsWhole,
                    CompleteIsNew, EndsUniform, EndsRunning, Was
<1> QED BY <1>3, <1>4

\* The calls of a step of the installation, as it begins.
LEMMA StepBegins ==
  ASSUME NEW r \in Record, r.load < Pieces, r.index < Len(Canisters)
  PROVE  StepCalls(InstallStepCalls(r), r.load, Target(r))
<1>1. r.load \in Nat /\ (r.load + 1 < Pieces \/ r.load + 1 = Pieces)
  <2>1. r.load \in Nat BY DEF Record
  <2> QED BY <2>1, Lists
<1> DEFINE c == Target(r)
           clear == [op |-> "clear", cid |-> c]
           upload == [op |-> "upload", cid |-> c]
           install == [op |-> "install", cid |-> c]
<1>2. /\ Calls("clear", <<c>>) = <<clear>> /\ Calls("upload", <<c>>) = <<upload>>
      /\ Calls("install", <<c>>) = <<install>>
  BY DEF Calls
<1>3. InstallStepCalls(r) =
        (IF r.load = 0 THEN Calls("clear", <<c>>) ELSE <<>>) \o Calls("upload", <<c>>)
          \o (IF r.load + 1 < Pieces THEN <<>> ELSE Calls("install", <<c>>) \o Calls("clear", <<c>>))
  BY DEF InstallStepCalls
<1>4. StepCalls(InstallStepCalls(r), r.load, c) <=>
        \/ InstallStepCalls(r) = <<>> /\ r.load > 0
        \/ InstallStepCalls(r) = <<clear>> /\ r.load = Pieces
        \/ InstallStepCalls(r) = <<install, clear>> /\ r.load = Pieces
        \/ InstallStepCalls(r) = <<upload>> /\ r.load + 1 < Pieces
        \/ InstallStepCalls(r) = <<upload, install, clear>> /\ r.load + 1 = Pieces
        \/ InstallStepCalls(r) = <<clear, upload>> /\ r.load + 1 < Pieces
        \/ InstallStepCalls(r) = <<clear, upload, install, clear>> /\ r.load + 1 = Pieces
  BY DEF StepCalls
<1> HIDE DEF c, clear, upload, install
<1>5. CASE r.load = 0 /\ r.load + 1 < Pieces
  <2>1. <<clear>> \o <<upload>> \o <<>> = <<clear, upload>>
    <3>1. <<clear, upload>> \o <<>> = <<clear, upload>> OBVIOUS
    <3>2. <<clear>> \o <<upload>> = <<clear, upload>> BY WrittenOut
    <3> QED BY <3>1, <3>2
  <2> QED BY <1>2, <1>3, <1>4, <1>5, <2>1 DEF c
<1>6. CASE r.load = 0 /\ ~(r.load + 1 < Pieces)
  <2>1. <<clear>> \o <<upload>> \o (<<install>> \o <<clear>>) = <<clear, upload, install, clear>>
    <3>1. <<clear>> \o <<upload>> = <<clear, upload>> /\ <<install>> \o <<clear>> = <<install, clear>> BY WrittenOut
    <3>2. <<clear>> \o <<upload>> \o <<install, clear>> = <<clear>> \o (<<upload>> \o <<install, clear>>)
      <4> DEFINE Y == {clear, upload, install}
      <4>1. <<clear>> \in Seq(Y) /\ <<upload>> \in Seq(Y) /\ <<install, clear>> \in Seq(Y) OBVIOUS
      <4> HIDE DEF Y
      <4> QED BY <4>1, ConcatAssociative
    <3>3. <<upload>> \o <<install, clear>> = <<upload, install, clear>> BY WrittenOut
    <3>4. <<clear>> \o <<upload, install, clear>> = <<clear, upload, install, clear>>
      <4> DEFINE Y == {clear, upload, install}
                 long == <<clear, upload, install, clear>>
                 rest == <<upload, install, clear>>
      <4>1. long \in Seq(Y) /\ rest \in Seq(Y) /\ clear \in Y OBVIOUS
      <4>2. long # <<>> /\ Head(long) = clear /\ Tail(long) = rest OBVIOUS
      <4> HIDE DEF Y, long, rest
      <4>3. <<clear>> \o rest = long BY <4>1, <4>2, InFrontIs
      <4> QED BY <4>3 DEF long, rest
    <3> QED BY <3>1, <3>2, <3>3, <3>4
  <2> QED BY <1>1, <1>2, <1>3, <1>4, <1>6, <2>1 DEF c
<1>7. CASE r.load # 0 /\ r.load + 1 < Pieces
  <2>1. <<>> \o <<upload>> \o <<>> = <<upload>> OBVIOUS
  <2> QED BY <1>2, <1>3, <1>4, <1>7, <2>1 DEF c
<1>8. CASE r.load # 0 /\ ~(r.load + 1 < Pieces)
  <2>1. <<>> \o <<upload>> \o (<<install>> \o <<clear>>) = <<upload, install, clear>>
    <3>1. <<>> \o <<upload>> = <<upload>> OBVIOUS
    <3>2. <<install>> \o <<clear>> = <<install, clear>> BY WrittenOut
    <3>3. <<upload>> \o <<install, clear>> = <<upload, install, clear>> BY WrittenOut
    <3> QED BY <3>1, <3>2, <3>3
  <2> QED BY <1>1, <1>2, <1>3, <1>4, <1>8, <2>1 DEF c
<1> QED BY <1>5, <1>6, <1>7, <1>8

\* A phase begins.
LEMMA BeginUpgradeU ==
  ASSUME TypesOK, UpgradesOK, BeginUpgradePhase
  PROVE  TypesOK' /\ UpgradesOK'
<1>1. /\ TypesOK' /\ rec # None /\ rec \in Record /\ Open /\ run = None /\ rec.kind = "upgrade"
      /\ rec' \in Record /\ rec'.kind = "upgrade"
      /\ rec'.status = (IF rec.status = "APPROVED" THEN "PRE_FLIGHT" ELSE rec.status)
      /\ rec'.refs = rec.refs /\ rec'.index = rec.index /\ rec'.load = rec.load /\ rec'.version = rec.version
      /\ module' = module /\ running' = running /\ taken' = taken /\ kept' = kept /\ before' = before
      /\ swallowed' = swallowed /\ losses' = losses
      /\ run' # None /\ run'.at = rec'.status /\ run'.mem = rec' /\ run'.todo = PhaseCalls(rec') /\ run'.noted = {}
  BY BeginUpgradeIs DEF canisters
<1>2. rec.status \in OpenStatus("upgrade") BY <1>1 DEF Open, TypesOK, RecordOK
<1>3. rec'.status \in OpenStatus("upgrade") /\ rec'.status # "undo" /\ rec'.status # "APPROVED" /\ rec' # None
  BY <1>1, <1>2, PhasesAre, NoneAssumption
<1>4. /\ rec.status \in Early <=> rec'.status \in Early
      /\ rec.status \in Later <=> rec'.status \in Later
      /\ \A s \in {"STOPPING", "SNAPSHOTTING", "UPGRADING", "STARTING", "VERIFYING", "FINALIZING"} :
           rec.status = s <=> rec'.status = s
      /\ rec.status \in {"APPROVED", "PRE_FLIGHT"} <=> rec'.status \in {"APPROVED", "PRE_FLIGHT"}
  BY <1>1 DEF Early, Later
<1>5. Undoable(rec)' /\ Undoable(run.mem)'
  <2>1. Undoable(rec) BY <1>1, OfUpgrade
  <2> QED BY <1>1, <2>1 DEF Undoable, HasRef
<1>6. UpgradeOK' BY <1>1, <1>4, <1>5, OfUpgrade DEF UpgradeOK, HasRef
<1>7. PhaseOK'
  <2> SUFFICES ASSUME run' # None PROVE PhaseOK' BY DEF PhaseOK
  <2>1. \A op, c : c \in Canister => Due(op, c, Calls(op, Canisters)) BY Lists, CallsElements DEF Canister
  <2>2. rec'.status = "SNAPSHOTTING" => run'.todo = Calls("snapshot", Canisters) BY <1>1 DEF PhaseCalls
  <2>3. rec'.status = "VERIFYING" => run'.todo = Calls("verify", Canisters) BY <1>1 DEF PhaseCalls
  <2>4. rec'.status \in {"PRE_FLIGHT", "STOPPING", "SNAPSHOTTING"} => rec'.index = 0 /\ rec'.load = 0
    BY <1>1, <1>4, OfUpgrade DEF Early
  <2> QED BY <1>1, <2>1, <2>2, <2>3, <2>4 DEF PhaseOK
<1>8. StepOK'
  <2> SUFFICES ASSUME run' # None, rec'.status = "UPGRADING" PROVE StepOK' BY <1>1 DEF StepOK
  <2>1. rec'.load < Pieces BY <1>1, <1>4, OfUpgrade
  <2>2. run'.todo = IF rec'.index < Len(Canisters) THEN InstallStepCalls(rec') ELSE <<>> BY <1>1 DEF PhaseCalls
  <2>3. rec'.index < Len(Canisters) => StepCalls(run'.todo, run'.mem.load, Target(run'.mem))
    BY <1>1, <2>1, <2>2, StepBegins
  <2> QED BY <2>2, <2>3 DEF StepOK
<1>9. CleanOK'
  <2> SUFFICES ASSUME Clean' PROVE CleanOK' BY DEF CleanOK
  <2>1. Clean BY <1>1 DEF Clean
  <2>2. /\ rec.status = "STOPPING" => before.running \subseteq running
        /\ rec.status = "UPGRADING" => InstalledTo(rec.index, FALSE, rec.version)
        /\ rec.status = "STARTING" => \A c \in Canister : module[c] = rec.version
        /\ rec.status \in {"VERIFYING", "FINALIZING"} => running = Canister
    BY <1>1, <2>1 DEF UpgradesOK, CleanOK, Upgrading
  <2>3. run' # None /\ rec'.status = "UPGRADING" => ~Installed'
    <3>1. rec'.status = "UPGRADING" => rec'.load < Pieces BY <1>1, <1>4, OfUpgrade
    <3>2. rec'.load \in Nat BY <1>1 DEF Record
    <3> QED BY <1>1, <3>1, <3>2, Lists DEF Installed
  <2>a. rec'.status = "UPGRADING" => InstalledTo(rec.index, FALSE, rec.version)'
    BY <1>1, <1>4, <2>2 DEF InstalledTo
  <2>4. run' # None /\ rec'.status = "UPGRADING" =>
          InstalledTo(rec.index, rec.index < Len(Canisters) /\ Installed, rec.version)'
    BY <2>3, <2>a DEF InstalledTo
  <2>5. rec'.status = "STARTING" => \A c \in Canister : Due("start", c, run'.todo)
    <3>1. \A c : c \in Canister => Due("start", c, Calls("start", Canisters)) BY Lists, CallsElements DEF Canister
    <3>2. rec'.status = "STARTING" => run'.todo = Calls("start", Canisters) BY <1>1 DEF PhaseCalls
    <3> QED BY <3>1, <3>2
  <2> QED BY <1>1, <1>4, <2>2, <2>a, <2>4, <2>5 DEF CleanOK
<1>10. UndoOK' BY <1>1, <1>3 DEF UndoOK
<1> QED BY <1>1, <1>3, <1>6, <1>7, <1>8, <1>9, <1>10, OpenUpgrade

\* What holds of the executor of an upgrade.
LEMMA OfExecutor ==
  ASSUME TypesOK, UpgradesOK, run # None, rec.kind = "upgrade"
  PROVE  /\ Open /\ Undoable(rec) /\ Undoable(run.mem) /\ (run.at # "undo" => rec.status = run.at)
         /\ run.mem.version = rec.version /\ run.mem.index = rec.index /\ run.mem \in Record /\ CursorOK(run.mem)
         /\ run.mem.kind = "upgrade" /\ run.mem.status = rec.status
         /\ rec.status \in Early =>
              module = before.module /\ rec.index = 0 /\ rec.load = 0 /\ \A c \in Canister : rec.refs[c] = 0
         /\ rec.status \in Later => run.mem.refs = rec.refs /\ \A c \in Canister : rec.refs[c] # 0
         /\ rec.status \in {"APPROVED", "PRE_FLIGHT"} => before.running = running
         /\ rec.status = "UPGRADING" => rec.load < Pieces
         /\ rec.status = "FINALIZING" => \A c \in Canister : module[c] = rec.version
         /\ run.at \in {"PRE_FLIGHT", "STOPPING"} => run.mem.refs = rec.refs
         /\ run.at \in {"PRE_FLIGHT", "STOPPING", "SNAPSHOTTING"} => run.mem.index = 0 /\ run.mem.load = 0
         /\ run.at = "SNAPSHOTTING" => \A c \in Canister : run.mem.refs[c] # 0 \/ Due("snapshot", c, run.todo)
         /\ run.at = "VERIFYING" => \A c \in Canister : module[c] = run.mem.version \/ Due("verify", c, run.todo)
<1>1. /\ Open /\ (run.at # "undo" => rec.status = run.at) /\ run.mem \in Record /\ CursorOK(run.mem)
      /\ run.mem.kind = "upgrade" /\ run.mem.status = rec.status
      /\ run.mem.version = rec.version /\ run.mem.index = rec.index
  BY Executing, ExecutorIs
<1>2. /\ run.at \in {"PRE_FLIGHT", "STOPPING"} => run.mem.refs = rec.refs
      /\ run.at \in {"PRE_FLIGHT", "STOPPING", "SNAPSHOTTING"} => run.mem.index = 0 /\ run.mem.load = 0
      /\ run.at = "SNAPSHOTTING" => \A c \in Canister : run.mem.refs[c] # 0 \/ Due("snapshot", c, run.todo)
      /\ run.at = "VERIFYING" => \A c \in Canister : module[c] = run.mem.version \/ Due("verify", c, run.todo)
  BY <1>1 DEF UpgradesOK, PhaseOK, Upgrading, HasRef
<1> QED BY <1>1, <1>2, OfUpgrade

\* What holds of it when nothing went unnoticed and no executor was lost.
LEMMA OfClean ==
  ASSUME TypesOK, UpgradesOK, run # None, rec.kind = "upgrade", Clean
  PROVE  /\ run.at = "STOPPING" => before.running \subseteq running \cup run.noted
         /\ run.at = "UPGRADING" => InstalledTo(rec.index, rec.index < Len(Canisters) /\ Installed, rec.version)
         /\ rec.status = "STARTING" => \A c \in Canister : module[c] = rec.version
         /\ run.at = "STARTING" => \A c \in Canister : c \in running \/ Due("start", c, run.todo)
         /\ rec.status \in {"VERIFYING", "FINALIZING"} /\ run.at # "undo" => running = Canister
<1>1. Open BY Executing
<1> QED BY <1>1 DEF UpgradesOK, CleanOK, Upgrading

LEMMA NoneDue ==
  ASSUME NEW op, NEW c
  PROVE  ~Due(op, c, <<>>)
<1>1. Len(<<>>) = 0 OBVIOUS
<1> QED BY <1>1 DEF Due

\* A phase of an upgrade ends.
LEMMA PhaseDoneU ==
  ASSUME TypesOK, UpgradesOK, UpgradePhaseDone
  PROVE  TypesOK' /\ UpgradesOK'
<1> DEFINE Done(from, to) ==
             /\ TypesOK' /\ run # None /\ run.at = from /\ run.todo = <<>> /\ rec.kind = "upgrade" /\ run' = None
             /\ rec' \in Record /\ rec'.status = to /\ rec'.kind = "upgrade" /\ rec'.index = run.mem.index
             /\ rec'.load = run.mem.load /\ rec'.refs = run.mem.refs /\ rec'.version = run.mem.version
             /\ module' = module /\ running' = running /\ taken' = taken /\ kept' = kept /\ before' = before
             /\ (Clean' => Clean) /\ rec' # None
<1>1. \E from, to : <<from, to>> \in {<<"PRE_FLIGHT", "STOPPING">>, <<"STOPPING", "SNAPSHOTTING">>,
                       <<"SNAPSHOTTING", "UPGRADING">>, <<"STARTING", "VERIFYING">>, <<"VERIFYING", "FINALIZING">>,
                       <<"FINALIZING", "COMPLETE">>} /\ PhaseDone(from, to)
  BY DEF UpgradePhaseDone
<1>2. ASSUME NEW from \in PhasesOf("upgrade"), NEW to \in OpenStatus("upgrade") \cup Terminal, PhaseDone(from, to)
      PROVE  Done(from, to)
  <2>1. /\ TypesOK' /\ run # None /\ run.at = from /\ run.todo = <<>> /\ rec.kind = "upgrade" /\ run' = None
        /\ rec' \in Record /\ rec'.status = to /\ rec'.kind = "upgrade" /\ rec'.index = run.mem.index
        /\ rec'.load = run.mem.load /\ rec'.refs = run.mem.refs /\ rec'.version = run.mem.version
        /\ UNCHANGED <<canisters, assets, before, swallowed, losses>>
    BY <1>2, PhaseDoneIs
  <2> QED BY <2>1, NoneAssumption DEF canisters, Clean
<1>3. \E from, to : <<from, to>> \in {<<"PRE_FLIGHT", "STOPPING">>, <<"STOPPING", "SNAPSHOTTING">>,
                       <<"SNAPSHOTTING", "UPGRADING">>, <<"STARTING", "VERIFYING">>, <<"VERIFYING", "FINALIZING">>,
                       <<"FINALIZING", "COMPLETE">>} /\ Done(from, to)
  <2> HIDE DEF Done
  <2>1. "COMPLETE" \in Terminal BY DEF Terminal
  <2>2. ASSUME NEW from, NEW to,
               <<from, to>> \in {<<"PRE_FLIGHT", "STOPPING">>, <<"STOPPING", "SNAPSHOTTING">>,
                       <<"SNAPSHOTTING", "UPGRADING">>, <<"STARTING", "VERIFYING">>, <<"VERIFYING", "FINALIZING">>,
                       <<"FINALIZING", "COMPLETE">>}
        PROVE  from \in PhasesOf("upgrade") /\ to \in OpenStatus("upgrade") \cup Terminal
    BY <2>1, <2>2, PhasesAre
  <2> QED BY <1>1, <1>2, <2>2
<1>4. PICK from, to : <<from, to>> \in {<<"PRE_FLIGHT", "STOPPING">>, <<"STOPPING", "SNAPSHOTTING">>,
                       <<"SNAPSHOTTING", "UPGRADING">>, <<"STARTING", "VERIFYING">>, <<"VERIFYING", "FINALIZING">>,
                       <<"FINALIZING", "COMPLETE">>} /\ Done(from, to)
  BY <1>3
<1>5. from # "undo" BY <1>4
<1>6. rec.status = from BY <1>4, <1>5, OfExecutor
<1>7. Undoable(rec)'
  <2>1. Undoable(run.mem) BY <1>4, OfExecutor
  <2> QED BY <1>4, <2>1 DEF Undoable, HasRef
<1>8. CASE from = "PRE_FLIGHT"
  <2>1. to = "STOPPING" /\ rec.status \in Early BY <1>4, <1>6, <1>8 DEF Early
  <2>2. module = before.module /\ run.mem.index = 0 /\ run.mem.load = 0 /\ before.running = running
        /\ \A c \in Canister : run.mem.refs[c] = 0
    BY <1>4, <1>6, <1>8, <2>1, OfExecutor
  <2> QED BY <1>4, <1>7, <2>1, <2>2, PhasesAre, SavedUpgrade DEF Early, Later
<1>9. CASE from = "STOPPING"
  <2>1. to = "SNAPSHOTTING" /\ rec.status \in Early BY <1>4, <1>6, <1>9 DEF Early
  <2>2. module = before.module /\ run.mem.index = 0 /\ run.mem.load = 0 /\ \A c \in Canister : run.mem.refs[c] = 0
    BY <1>4, <1>6, <1>9, <2>1, OfExecutor
  <2> QED BY <1>4, <1>7, <2>1, <2>2, PhasesAre, SavedUpgrade DEF Early, Later
<1>10. CASE from = "SNAPSHOTTING"
  <2>1. to = "UPGRADING" /\ rec.status \in Early BY <1>4, <1>6, <1>10 DEF Early
  <2>2. module = before.module /\ run.mem.index = 0 /\ run.mem.load = 0 BY <1>4, <1>6, <1>10, <2>1, OfExecutor
  <2>3. \A c \in Canister : run.mem.refs[c] # 0 BY <1>4, <1>10, OfExecutor, NoneDue
  <2>4. 0 < Pieces BY Lists
  <2>5. \A k \in 1..Len(Canisters) : ~(k <= 0) OBVIOUS
  <2>6. InstalledTo(rec.index, FALSE, rec.version)' BY <1>4, <2>2, <2>5 DEF InstalledTo
  <2> QED BY <1>4, <1>7, <2>1, <2>2, <2>3, <2>4, <2>6, PhasesAre, SavedUpgrade DEF Early, Later
<1>11. CASE from = "STARTING"
  <2>1. to = "VERIFYING" /\ rec.status \in Later BY <1>4, <1>6, <1>11 DEF Later
  <2>2. \A c \in Canister : run.mem.refs[c] # 0 BY <1>4, <2>1, OfExecutor
  <2>3. Clean => running = Canister
    <3>1. running \subseteq Canister BY DEF TypesOK, ChainOK, CanistersOK
    <3>2. Clean => \A c \in Canister : c \in running BY <1>4, <1>11, OfClean, NoneDue
    <3> QED BY <3>1, <3>2
  <2> QED BY <1>4, <1>7, <2>1, <2>2, <2>3, PhasesAre, SavedUpgrade DEF Early
<1>12. CASE from = "VERIFYING"
  <2>1. to = "FINALIZING" /\ rec.status \in Later BY <1>4, <1>6, <1>12 DEF Later
  <2>2. \A c \in Canister : run.mem.refs[c] # 0 BY <1>4, <2>1, OfExecutor
  <2>3. \A c \in Canister : module[c] = run.mem.version BY <1>4, <1>12, OfExecutor, NoneDue
  <2>4. Clean => running = Canister BY <1>4, <1>5, <1>6, <1>12, OfClean
  <2> QED BY <1>4, <1>7, <2>1, <2>2, <2>3, <2>4, PhasesAre, SavedUpgrade DEF Early
<1>13. CASE from = "FINALIZING"
  <2>1. to = "COMPLETE" /\ to \in Terminal BY <1>4, <1>13 DEF Terminal
  <2>2. \A c \in Canister : module[c] = run.mem.version BY <1>4, <1>6, <1>13, OfExecutor
  <2>3. Clean => running = Canister BY <1>4, <1>5, <1>6, <1>13, OfClean
  <2>4. before.running \subseteq Canister BY DEF TypesOK, ChainOK
  <2> QED BY <1>4, <2>1, <2>2, <2>3, <2>4, EndedUpgrade
<1> QED BY <1>4, <1>8, <1>9, <1>10, <1>11, <1>12, <1>13

\* An upgrade that stays open with an executor, and its record as it is.
LEMMA RunningUpgrade ==
  ASSUME TypesOK, UpgradesOK, TypesOK', run # None, rec.kind = "upgrade", rec' = rec, before' = before,
         run' # None, Undoable(rec)', Undoable(run.mem)',
         rec.status \in Early \cup {"FINALIZING"} => module' = module,
         rec.status \in Later => run'.mem.refs = rec.refs,
         rec.status \in {"APPROVED", "PRE_FLIGHT"} => running' = running,
         PhaseOK', StepOK', CleanOK', UndoOK'
  PROVE  UpgradesOK'
<1>1. rec # None /\ rec.status \in OpenStatus("upgrade") BY Executing
<1>2. UpgradeOK' BY OfExecutor DEF UpgradeOK, HasRef
<1> QED BY <1>1, <1>2, OpenUpgrade

\* What is counted is no longer clean, the rest is as clean as it was.
LEMMA CleanStays ==
  ASSUME TypesOK
  PROVE  /\ Succeeds \/ Fails => (Clean' => Clean)
         /\ Swallows => ~Clean'
         /\ \A cannot \in BOOLEAN : FailsOr(cannot) => (Clean' => Clean) /\ (Succeeds \/ Fails)
<1>1. swallowed \in Nat /\ losses \in Nat BY DEF TypesOK, ChainOK
<1>2. Succeeds \/ Fails => (Clean' => Clean) BY DEF Succeeds, Fails, budget, Clean
<1>3. Swallows => ~Clean' BY <1>1 DEF Swallows, Clean
<1>4. \A cannot \in BOOLEAN : FailsOr(cannot) => Succeeds \/ Fails BY DEF FailsOr, Refused, Succeeds
<1> QED BY <1>2, <1>3, <1>4

\* Snapshots that were taken are still those of the record.

LEMMA StayUndoable ==
  ASSUME Undoable(rec), Undoable(run.mem), taken' = taken, kept' = kept, before' = before,
         rec'.refs = rec.refs, run' # None => run'.mem.refs = run.mem.refs
  PROVE  Undoable(rec)' /\ (run' # None => Undoable(run.mem)')
BY DEF Undoable, HasRef

\* An executor begins to undo what it did.
LEMMA UndoingIs ==
  ASSUME TypesOK, run # None, rec.kind = "upgrade", rec' = rec, NEW todo \in Seq(Asked("undo")),
         NEW end \in Terminal, run' = Undoing(run.mem, todo, end)
  PROVE  /\ RecordOK' /\ ExecutorOK'
         /\ run' # None /\ run'.at = "undo" /\ run'.mem = run.mem /\ run'.todo = todo /\ run'.end = end
<1> DEFINE e == [at |-> "undo", mem |-> run.mem, todo |-> todo, noted |-> {}, problems |-> 0, end |-> end]
<1>1. run' = e BY DEF Undoing, Doing
<1>2. /\ run.mem \in Record /\ Open /\ CursorOK(run.mem) /\ run.mem.kind = rec.kind /\ run.mem.status = rec.status
      /\ run.mem.version = rec.version /\ run.mem.choice = rec.choice /\ run.mem.index = rec.index
      /\ rec.status # "APPROVED"
  BY Executing, ExecutorIs
<1>3. "undo" \in PhasesOf("upgrade") /\ "undo" \in Phase BY PhasesAre DEF Phase
<1>4. e \in [at : Phase, mem : Record, todo : Seq(Asked("undo")), noted : SUBSET Canister,
             problems : 0..2, end : Terminal \cup {None}]
  <2>1. {} \in SUBSET Canister /\ 0 \in 0..2 OBVIOUS
  <2> QED BY <1>2, <1>3, <2>1
<1>5. e # None BY <1>3, <1>4, IsExecutor
<1>6. e.at = "undo" /\ e.mem = run.mem /\ e.todo = todo /\ e.end = end OBVIOUS
<1> HIDE DEF e
<1>7. Open' BY <1>2 DEF Open
<1>8. RecordOK' BY DEF TypesOK, RecordOK
<1>9. ExecutorOK' BY <1>1, <1>2, <1>3, <1>4, <1>6, <1>7 DEF ExecutorOK
<1> QED BY <1>1, <1>5, <1>6, <1>8, <1>9

\* Every canister is checked before anything is done.
LEMMA PreFlightU ==
  ASSUME TypesOK, UpgradesOK, PhasePreFlight
  PROVE  TypesOK' /\ UpgradesOK'
<1>1. /\ run # None /\ run.at = "PRE_FLIGHT" /\ run.todo # <<>>
      /\ UNCHANGED <<canisters, assets, store, origins, filed, before>>
  BY DEF PhasePreFlight, Calling, At
<1>2. rec.kind = "upgrade" BY <1>1, KindOfPhase, PhasesAre
<1>3. rec.status = "PRE_FLIGHT" /\ rec.status \in Early /\ rec.status \notin Later BY <1>1, <1>2, OfExecutor DEF Early, Later
<1>4. /\ module' = module /\ running' = running /\ taken' = taken /\ kept' = kept /\ before' = before
      /\ module = before.module /\ before.running = running /\ rec # None
  BY <1>1, <1>2, <1>3, OfExecutor, Executing DEF canisters
<1>5. CanistersOK' BY <1>1, CanistersStay
<1>6. CASE Answered(run) /\ Succeeds /\ UNCHANGED rec
  <2>1. /\ RecordOK' /\ ExecutorOK'
        /\ run' # None /\ run'.at = run.at /\ run'.mem = run.mem /\ run'.todo = Tail(run.todo)
    BY <1>1, <1>6, PlainAnswers
  <2>2. TypesOK' BY <1>1, <1>5, <1>6, <2>1, StepTypes
  <2>3. Undoable(rec)' /\ Undoable(run.mem)' BY <1>1, <1>2, <1>4, <1>6, <2>1, OfExecutor, StayUndoable
  <2>4. PhaseOK' BY <1>1, <1>2, <1>6, <2>1, OfExecutor DEF PhaseOK
  <2>5. StepOK' /\ CleanOK' /\ UndoOK' BY <1>1, <1>3, <1>6, <2>1 DEF StepOK, CleanOK, UndoOK
  <2> QED BY <1>1, <1>2, <1>3, <1>4, <1>6, <2>1, <2>2, <2>3, <2>4, <2>5, RunningUpgrade
<1>7. CASE FailsOr(Call.cid \notin running) /\ Ends(run.mem, "REJECTED_PREFLIGHT")
  <2>1. "REJECTED_PREFLIGHT" \in Terminal BY DEF Terminal
  <2>2. run.mem \in Record /\ CursorOK(run.mem) /\ run.mem.kind = "upgrade" BY <1>1, <1>2, OfExecutor
  <2>3. /\ RecordOK' /\ ExecutorOK' /\ rec'.status = "REJECTED_PREFLIGHT" /\ rec'.kind = "upgrade" /\ run' = None
    BY <1>7, <2>1, <2>2, SaveTypes
  <2>4. Succeeds \/ Fails BY <1>7, CleanStays
  <2>5. TypesOK' BY <1>1, <1>5, <2>3, <2>4, StepTypes
  <2> QED BY <1>4, <2>1, <2>3, <2>5, EndedUpgrade
<1>8. CASE Fails /\ run' = None /\ UNCHANGED rec
  <2>1. TypesOK' BY <1>1, <1>5, <1>8, GoneTypes, StepTypes
  <2>2. Undoable(rec)' BY <1>1, <1>2, <1>4, <1>8, OfExecutor, StayUndoable
  <2>3. /\ rec.status \in OpenStatus("upgrade") /\ rec.index = 0 /\ rec.load = 0
        /\ \A c \in Canister : rec.refs[c] = 0
    BY <1>1, <1>2, <1>3, OfExecutor, PhasesAre
  <2> QED BY <1>2, <1>3, <1>4, <1>8, <2>1, <2>2, <2>3, SavedUpgrade
<1> QED BY <1>6, <1>7, <1>8 DEF PhasePreFlight

\* What is undone of a stop or of the snapshots: only starts.
LEMMA StartsAre ==
  ASSUME NEW cs \in Seq(Canister)
  PROVE  /\ ComesLast("start", RestartCanisters(cs))
         /\ \A c : Due("start", c, RestartCanisters(cs)) <=> c \in ToSet(cs)
         /\ \A c : ~Due("stop", c, RestartCanisters(cs)) /\ ~Due("load", c, RestartCanisters(cs))
<1> DEFINE t == Calls("start", cs)
<1>1. /\ \A i \in 1..Len(t) : t[i].op = "start"
      /\ \A c : Due("start", c, t) <=> c \in ToSet(cs)
      /\ \A other, c : other # "start" => ~Due(other, c, t)
  BY CallsElements
<1> HIDE DEF t
<1>2. ComesLast("start", t) BY <1>1, AllLast
<1> QED BY <1>1, <1>2 DEF t, RestartCanisters

LEMMA StopU ==
  ASSUME TypesOK, UpgradesOK, PhaseStop
  PROVE  TypesOK' /\ UpgradesOK'
<1>1. /\ run # None /\ run.at = "STOPPING" /\ run.todo # <<>> /\ rec' = rec /\ run.at # "PROVISIONING"
      /\ UNCHANGED <<assets, store, origins, filed, before>>
  BY DEF PhaseStop, Calling, At
<1>2. rec.kind = "upgrade" BY <1>1, KindOfPhase, PhasesAre
<1>3. rec.status = "STOPPING" /\ rec.status \in Early /\ rec.status \notin Later BY <1>1, <1>2, OfExecutor DEF Early, Later
<1>4. module = before.module /\ rec # None /\ Call.cid \in Canister /\ before' = before
  BY <1>1, <1>2, <1>3, OfExecutor, Executing
<1>5. ASSUME \/ StopCanister(Call.cid) /\ Succeeds
             \/ Swallows /\ UNCHANGED canisters,
             Answered([run EXCEPT !.noted = @ \cup {Call.cid}])
      PROVE  TypesOK' /\ UpgradesOK'
  <2>1. /\ RecordOK' /\ ExecutorOK'
        /\ run' # None /\ run'.at = run.at /\ run'.mem = run.mem /\ run'.todo = Tail(run.todo)
        /\ run'.noted = run.noted \cup {Call.cid}
    BY <1>1, <1>5, NotedAnswers
  <2>2. CanistersOK' BY <1>4, <1>5, CallTypes DEF Changes, TypesOK, ChainOK
  <2>3. TypesOK' BY <1>1, <1>5, <2>1, <2>2, StepTypes
  <2>4. /\ module' = module /\ taken' = taken /\ kept' = kept
        /\ (Succeeds /\ running' = running \ {Call.cid}) \/ Swallows
    BY <1>5 DEF StopCanister, canisters
  <2>5. Undoable(rec)' /\ Undoable(run.mem)' BY <1>1, <1>2, <1>4, <2>1, <2>4, OfExecutor, StayUndoable
  <2>6. PhaseOK' BY <1>1, <1>2, <2>1, OfExecutor DEF PhaseOK
  <2>7. Clean' => before.running \subseteq running' \cup run'.noted
    <3>1. Clean' => Clean /\ running' = running \ {Call.cid} BY <2>4, CleanStays
    <3>2. Clean => before.running \subseteq running \cup run.noted BY <1>1, <1>2, OfClean
    <3> QED BY <2>1, <3>1, <3>2
  <2>8. StepOK' /\ CleanOK' /\ UndoOK' BY <1>1, <1>3, <1>4, <2>1, <2>7 DEF StepOK, CleanOK, UndoOK
  <2> QED BY <1>1, <1>2, <1>3, <1>4, <2>1, <2>3, <2>4, <2>5, <2>6, <2>8, RunningUpgrade
<1>6. CASE /\ Fails /\ UNCHANGED canisters
           /\ run' = Undoing(run.mem, RestartCanisters(Having(Canisters, run.noted)), "FAILED_STOP")
  <2> DEFINE cs == Having(Canisters, run.noted)
  <2>1. "FAILED_STOP" \in Terminal \ {"COMPLETE"} BY DEF Terminal
  <2>2. cs \in Seq(Canister) /\ ToSet(cs) = Canister \cap run.noted
    BY PickedAre, Lists DEF Canister
  <2>3. RestartCanisters(cs) \in Seq(Asked("undo"))
    BY <2>2, OpsAre, CallsAre DEF RestartCanisters
  <2> HIDE DEF cs
  <2>4. run' = Undoing(run.mem, RestartCanisters(cs), "FAILED_STOP") BY <1>6 DEF cs
  <2>5. /\ RecordOK' /\ ExecutorOK'
        /\ run' # None /\ run'.at = "undo" /\ run'.mem = run.mem /\ run'.todo = RestartCanisters(cs)
        /\ run'.end = "FAILED_STOP"
    BY <1>1, <1>2, <2>1, <2>3, <2>4, UndoingIs
  <2>6. TypesOK' BY <1>1, <1>6, <2>5, CanistersStay, StepTypes
  <2>7. module' = module /\ taken' = taken /\ kept' = kept /\ running' = running BY <1>6 DEF canisters
  <2>8. Undoable(rec)' /\ Undoable(run.mem)' BY <1>1, <1>2, <1>4, <2>5, <2>7, OfExecutor, StayUndoable
  <2>9. PhaseOK' /\ StepOK' /\ CleanOK' BY <1>1, <1>3, <2>5 DEF PhaseOK, StepOK, CleanOK
  <2>10. UndoOK'
    <3>1. ComesLast("start", run'.todo) BY <2>2, <2>5, StartsAre
    <3>2. Clean' => before.running \subseteq running \cup run.noted BY <1>1, <1>2, <1>6, CleanStays, OfClean
    <3>3. before.running \subseteq Canister BY DEF TypesOK, ChainOK
    <3>4. Clean' => \A c \in Canister : c \in before.running => Due("start", c, run'.todo) \/ (c \in running /\ ~Due("stop", c, run'.todo))
      BY <2>2, <2>5, <3>2, <3>3, StartsAre
    <3>5. \A c \in Canister : module'[c] = before'.module[c] BY <1>4, <2>7
    <3> QED BY <1>1, <1>3, <1>4, <2>1, <2>5, <2>7, <3>1, <3>4, <3>5 DEF UndoOK
  <2> QED BY <1>1, <1>2, <1>3, <1>4, <2>5, <2>6, <2>7, <2>8, <2>9, <2>10, RunningUpgrade
<1> QED BY <1>5, <1>6 DEF PhaseStop

LEMMA SnapshotU ==
  ASSUME TypesOK, UpgradesOK, PhaseSnapshot
  PROVE  TypesOK' /\ UpgradesOK'
<1>1. /\ run # None /\ run.at = "SNAPSHOTTING" /\ run.todo # <<>> /\ rec' = rec
      /\ UNCHANGED <<assets, store, origins, filed, before>>
  BY DEF PhaseSnapshot, Calling, At
<1>2. rec.kind = "upgrade" BY <1>1, KindOfPhase, PhasesAre
<1>3. rec.status = "SNAPSHOTTING" /\ rec.status \in Early /\ rec.status \notin Later
  BY <1>1, <1>2, OfExecutor DEF Early, Later
<1>4. /\ module = before.module /\ rec # None /\ Call.cid \in Canister /\ before' = before
      /\ run.mem \in Record /\ CanistersOK /\ \A c \in Canister : rec.refs[c] = 0
  BY <1>1, <1>2, <1>3, OfExecutor, Executing DEF TypesOK, ChainOK
<1>5. CASE TakeSnapshot(Call.cid) /\ Succeeds /\ Answered([run EXCEPT !.mem.refs[Call.cid] = Len(taken'[Call.cid])])
  <2> DEFINE c == Call.cid
             k == Len(taken'[c])
  <2>1. /\ CanistersOK' /\ module' = module
        /\ taken'[c][k].module = module[c] /\ k \in kept'[c] /\ k \in Nat \ {0}
        /\ \A d \in Canister \ {c} : taken'[d] = taken[d] /\ kept'[d] = kept[d]
    BY <1>4, <1>5, TakingIs
  <2>2. Answered([run EXCEPT !.mem.refs[Call.cid] = k]) BY <1>5
  <2>3. k = Len(taken'[c]) OBVIOUS
  <2> HIDE DEF k
  <2>4. /\ RecordOK' /\ ExecutorOK'
        /\ run' # None /\ run'.at = run.at /\ run'.todo = Tail(run.todo)
        /\ run'.mem.refs = [run.mem.refs EXCEPT ![c] = k]
        /\ run'.mem.load = run.mem.load /\ run'.mem.index = run.mem.index
    BY <1>1, <2>1, <2>2, SnapshotAnswers
  <2>5. TypesOK' BY <1>1, <1>5, <2>1, <2>4, StepTypes
  <2>6. run.mem.refs \in [Canister -> Nat] BY <1>4 DEF Record
  <2>7. run'.mem.refs[c] = k /\ \A d \in Canister \ {c} : run'.mem.refs[d] = run.mem.refs[d] BY <1>4, <2>4, <2>6
  <2>8. Undoable(run.mem)'
    <3> SUFFICES ASSUME NEW d \in Canister, run'.mem.refs[d] # 0
                 PROVE  /\ run'.mem.refs[d] = Len(taken'[d]) /\ run'.mem.refs[d] \in kept'[d]
                        /\ taken'[d][run'.mem.refs[d]].module = before'.module[d]
      BY DEF Undoable, HasRef
    <3>1. CASE d = c BY <1>4, <2>1, <2>3, <2>7, <3>1
    <3>2. CASE d # c
      <4>1. run'.mem.refs[d] = run.mem.refs[d] /\ taken'[d] = taken[d] /\ kept'[d] = kept[d] BY <2>1, <2>7, <3>2
      <4>2. Undoable(run.mem) BY <1>1, <1>2, OfExecutor
      <4> QED BY <1>4, <4>1, <4>2 DEF Undoable, HasRef
    <3> QED BY <3>1, <3>2
  <2>9. Undoable(rec)' BY <1>1, <1>4 DEF Undoable, HasRef
  <2>10. PhaseOK'
    <3>1. run.mem.index = 0 /\ run.mem.load = 0 /\ \A d \in Canister : run.mem.refs[d] # 0 \/ Due("snapshot", d, run.todo)
      BY <1>1, <1>2, OfExecutor
    <3>2. \A d \in Canister \ {c} : Due("snapshot", d, run.todo) => Due("snapshot", d, run'.todo)
      <4>1. run.todo \in Seq(Asked(run.at)) BY <1>1, Executing
      <4>2. \A d : Due("snapshot", d, run.todo) => Head(run.todo).cid = d \/ Due("snapshot", d, Tail(run.todo))
        BY <1>1, <4>1, DueTail
      <4> QED BY <2>4, <4>2 DEF Call
    <3>3. \A d \in Canister : run'.mem.refs[d] # 0 \/ Due("snapshot", d, run'.todo) BY <2>1, <2>7, <3>1, <3>2
    <3> QED BY <1>1, <2>4, <3>1, <3>3 DEF PhaseOK, HasRef
  <2>11. StepOK' /\ CleanOK' /\ UndoOK' BY <1>1, <1>3, <2>4 DEF StepOK, CleanOK, UndoOK
  <2> QED BY <1>1, <1>2, <1>3, <1>4, <2>1, <2>4, <2>5, <2>8, <2>9, <2>10, <2>11, RunningUpgrade
<1>6. CASE /\ FailsOr(~CanTake(Call.cid)) /\ UNCHANGED canisters
           /\ run' = Undoing(run.mem, RestartCanisters(Canisters), "FAILED_SNAPSHOT")
  <2>1. "FAILED_SNAPSHOT" \in Terminal \ {"COMPLETE"} BY DEF Terminal
  <2>2. RestartCanisters(Canisters) \in Seq(Asked("undo"))
    BY Lists, OpsAre, CallsAre DEF RestartCanisters
  <2>3. /\ RecordOK' /\ ExecutorOK'
        /\ run' # None /\ run'.at = "undo" /\ run'.mem = run.mem /\ run'.todo = RestartCanisters(Canisters)
        /\ run'.end = "FAILED_SNAPSHOT"
    BY <1>1, <1>2, <1>6, <2>1, <2>2, UndoingIs
  <2>4. Succeeds \/ Fails BY <1>6, CleanStays
  <2>5. TypesOK' BY <1>1, <1>6, <2>3, <2>4, CanistersStay, StepTypes
  <2>6. module' = module /\ taken' = taken /\ kept' = kept /\ running' = running BY <1>6 DEF canisters
  <2>7. Undoable(rec)' /\ Undoable(run.mem)' BY <1>1, <1>2, <1>4, <2>3, <2>6, OfExecutor, StayUndoable
  <2>8. PhaseOK' /\ StepOK' /\ CleanOK' BY <1>1, <1>3, <2>3 DEF PhaseOK, StepOK, CleanOK
  <2>9. UndoOK'
    <3>1. ComesLast("start", run'.todo) /\ \A c \in Canister : Due("start", c, run'.todo)
      BY <2>3, Lists, StartsAre DEF Canister
    <3>2. \A c \in Canister : module'[c] = before'.module[c] BY <1>4, <2>6
    <3> QED BY <1>1, <1>3, <2>1, <2>3, <3>1, <3>2 DEF UndoOK
  <2> QED BY <1>1, <1>2, <1>3, <1>4, <2>3, <2>5, <2>6, <2>7, <2>8, <2>9, RunningUpgrade
<1> QED BY <1>5, <1>6 DEF PhaseSnapshot

\* The calls of an installation step, one by one.
LEMMA StepTail ==
  ASSUME NEW todo, NEW n \in Nat, NEW c, StepCalls(todo, n, c), todo # <<>>
  PROVE  /\ Head(todo).cid = c
         /\ Head(todo).op = "clear" =>
              StepCalls(Tail(todo), n, c) /\ (Tail(todo) # <<>> => Head(Tail(todo)).op # "install")
         /\ Head(todo).op = "upload" =>
              /\ n < Pieces /\ StepCalls(Tail(todo), n + 1, c)
              /\ n + 1 = Pieces => Tail(todo) # <<>> /\ Head(Tail(todo)).op = "install"
         /\ Head(todo).op = "install" =>
              /\ n = Pieces /\ StepCalls(Tail(todo), n, c) /\ (Tail(todo) # <<>> => Head(Tail(todo)).op # "install")
<1> DEFINE clear == [op |-> "clear", cid |-> c]
           upload == [op |-> "upload", cid |-> c]
           install == [op |-> "install", cid |-> c]
<1>1. Pieces \in Nat \ {0} BY Lists
<1>2. /\ clear.op = "clear" /\ clear.cid = c /\ upload.op = "upload" /\ upload.cid = c
      /\ install.op = "install" /\ install.cid = c
  OBVIOUS
<1>3. \A t, m : StepCalls(t, m, c) <=>
        \/ t = <<>> /\ m > 0
        \/ t = <<clear>> /\ m = Pieces
        \/ t = <<install, clear>> /\ m = Pieces
        \/ t = <<upload>> /\ m + 1 < Pieces
        \/ t = <<upload, install, clear>> /\ m + 1 = Pieces
        \/ t = <<clear, upload>> /\ m + 1 < Pieces
        \/ t = <<clear, upload, install, clear>> /\ m + 1 = Pieces
  BY DEF StepCalls
<1> HIDE DEF clear, upload, install
<1>4. /\ Head(<<clear>>) = clear /\ Tail(<<clear>>) = <<>>
      /\ Head(<<install, clear>>) = install /\ Tail(<<install, clear>>) = <<clear>>
      /\ Head(<<upload>>) = upload /\ Tail(<<upload>>) = <<>>
      /\ Head(<<upload, install, clear>>) = upload /\ Tail(<<upload, install, clear>>) = <<install, clear>>
      /\ Head(<<clear, upload>>) = clear /\ Tail(<<clear, upload>>) = <<upload>>
      /\ Head(<<clear, upload, install, clear>>) = clear
      /\ Tail(<<clear, upload, install, clear>>) = <<upload, install, clear>>
      /\ <<install, clear>> # <<>>
  OBVIOUS
<1>5. CASE todo = <<clear>> /\ n = Pieces BY <1>1, <1>2, <1>3, <1>4, <1>5
<1>6. CASE todo = <<install, clear>> /\ n = Pieces BY <1>1, <1>2, <1>3, <1>4, <1>6
<1>7. CASE todo = <<upload>> /\ n + 1 < Pieces BY <1>1, <1>2, <1>3, <1>4, <1>7
<1>8. CASE todo = <<upload, install, clear>> /\ n + 1 = Pieces BY <1>1, <1>2, <1>3, <1>4, <1>8
<1>9. CASE todo = <<clear, upload>> /\ n + 1 < Pieces BY <1>1, <1>2, <1>3, <1>4, <1>9
<1>10. CASE todo = <<clear, upload, install, clear>> /\ n + 1 = Pieces BY <1>1, <1>2, <1>3, <1>4, <1>10
<1>11. \/ todo = <<clear>> /\ n = Pieces
       \/ todo = <<install, clear>> /\ n = Pieces
       \/ todo = <<upload>> /\ n + 1 < Pieces
       \/ todo = <<upload, install, clear>> /\ n + 1 = Pieces
       \/ todo = <<clear, upload>> /\ n + 1 < Pieces
       \/ todo = <<clear, upload, install, clear>> /\ n + 1 = Pieces
  BY <1>3
<1> QED BY <1>5, <1>6, <1>7, <1>8, <1>9, <1>10, <1>11

\* What is put back when the installation of a module failed.
LEMMA RevertsAre ==
  ASSUME NEW r \in Record, r.index <= Len(Canisters), \A c \in Canister : r.refs[c] # 0
  PROVE  LET todo == RevertUpgraded(r, r.index) \o RestartCanisters(Canisters)
         IN  /\ ComesLast("start", todo)
             /\ \A c \in Canister : Due("start", c, todo)
             /\ \A k \in 1..r.index : k \in 1..Len(Canisters) /\ Due("load", Canisters[k], todo)
<1> DEFINE first == SubSeq(Canisters, 1, r.index)
           cs == Referred(r, first)
           loads == Calls("load", cs)
           starts == RestartCanisters(Canisters)
<1>1. first \in Seq(Canister) BY UndoCallsAre
<1>2. cs \in Seq(Canister) /\ ToSet(cs) = ToSet(first)
  <2>1. cs \in Seq(Canister) /\ ToSet(cs) = ToSet(first) \cap {c \in Canister : HasRef(r, c)} BY <1>1, PickedAre DEF Referred
  <2>2. ToSet(first) \subseteq Canister BY <1>1 DEF ToSet
  <2> QED BY <2>1, <2>2 DEF HasRef
<1>3. \A k \in 1..r.index : k \in 1..Len(Canisters) /\ Canisters[k] \in ToSet(first)
  <2>1. r.index \in Nat BY DEF Record
  <2>2. /\ DOMAIN first = 1..r.index /\ \A k \in 1..r.index : first[k] = Canisters[k]
        /\ \A k \in 1..r.index : k \in 1..Len(Canisters)
    BY <2>1, Lists
  <2> QED BY <2>2 DEF ToSet
<1>4. /\ loads \in Seq([op : {"load"}, cid : Canister]) /\ \A i \in 1..Len(loads) : loads[i].op # "start"
      /\ \A c : Due("load", c, loads) <=> c \in ToSet(cs)
  <2> HIDE DEF cs
  <2> QED BY <1>2, CallsElements
<1>5. loads \in Seq(Asked("undo")) /\ starts \in Seq(Asked("undo"))
  <2> HIDE DEF cs
  <2> QED BY <1>2, Lists, OpsAre, CallsAre DEF RestartCanisters
<1>6. ComesLast("start", starts) /\ \A c \in Canister : Due("start", c, starts)
  BY Lists, StartsAre DEF Canister
<1> HIDE DEF loads, starts
<1>7. /\ ComesLast("start", loads \o starts)
      /\ \A op, c : Due(op, c, loads \o starts) <=> Due(op, c, loads) \/ Due(op, c, starts)
  BY <1>4, <1>5, <1>6, DueConcat
<1>8. \A k \in 1..r.index : k \in 1..Len(Canisters) /\ Due("load", Canisters[k], loads \o starts)
  BY <1>2, <1>3, <1>4, <1>7
<1> QED BY <1>6, <1>7, <1>8 DEF RevertUpgraded, loads, starts

\* A piece that cannot be uploaded, or a module that cannot be installed.
LEMMA UpgradeFailedU ==
  ASSUME TypesOK, UpgradesOK, run # None, run.at = "UPGRADING", run.todo # <<>>, rec.index < Len(Canisters),
         UpgradeFailed, Succeeds \/ Fails, UNCHANGED <<assets, store, origins, filed, before>>,
         ~Installed
  PROVE  TypesOK' /\ UpgradesOK'
<1> DEFINE m == [run.mem EXCEPT !.load = 0]
           todo == RevertUpgraded(m, m.index) \o RestartCanisters(Canisters)
           e == [at |-> "undo", mem |-> m, todo |-> todo, noted |-> {}, problems |-> 0, end |-> "REVERTED_PARTIAL_FAILURE"]
<1>1. rec.kind = "upgrade" BY KindOfPhase, PhasesAre
<1>2. rec.status = "UPGRADING" /\ rec.status \in Later /\ rec.status \notin Early BY <1>1, OfExecutor DEF Early, Later
<1>3. /\ run.mem \in Record /\ CursorOK(run.mem) /\ run.mem.kind = "upgrade" /\ run.mem.status = rec.status
      /\ run.mem.index = rec.index /\ run.mem.version = rec.version /\ run.mem.refs = rec.refs
      /\ (\A c \in Canister : rec.refs[c] # 0) /\ Undoable(run.mem)
  BY <1>1, <1>2, OfExecutor
<1>4. /\ m \in Record /\ m.kind = "upgrade" /\ m.status = rec.status /\ m.index = rec.index
      /\ m.version = rec.version /\ m.refs = rec.refs /\ m.load = 0
  BY <1>3 DEF Record
<1>5. rec' = m /\ run' = e /\ UNCHANGED canisters BY DEF UpgradeFailed, Undoing, Doing
<1> HIDE DEF m
<1>6. CursorOK(m) BY <1>3, <1>4, Lists DEF CursorOK
<1>a. m.index <= Len(Canisters) /\ \A c \in Canister : m.refs[c] # 0 BY <1>3, <1>4, <1>6 DEF CursorOK
<1>7. todo \in Seq(Asked("undo")) BY <1>4, <1>a, UndoCallsAre
<1>8. /\ ComesLast("start", todo) /\ \A c \in Canister : Due("start", c, todo)
      /\ \A k \in 1..m.index : k \in 1..Len(Canisters) /\ Due("load", Canisters[k], todo)
  BY <1>4, <1>a, RevertsAre
<1> HIDE DEF todo
<1>9. "REVERTED_PARTIAL_FAILURE" \in Terminal \ {"COMPLETE"} BY DEF Terminal
<1>10. m.status \in OpenStatus("upgrade") \ {"APPROVED"} /\ "undo" \in PhasesOf("upgrade") BY <1>2, <1>4, PhasesAre
<1>11. /\ RecordOK' /\ ExecutorOK' /\ run' # None /\ run'.at = "undo" /\ run'.mem = m /\ run'.todo = todo
       /\ run'.end = "REVERTED_PARTIAL_FAILURE"
  BY <1>4, <1>5, <1>6, <1>7, <1>9, <1>10, DoingTypes
<1>12. TypesOK' BY <1>5, <1>11, CanistersStay, StepTypes
<1>13. /\ module' = module /\ taken' = taken /\ kept' = kept /\ before' = before /\ rec' # None
  BY <1>4, <1>5, NoneAssumption DEF canisters
<1>14. Undoable(rec)' /\ Undoable(run.mem)'
  BY <1>3, <1>4, <1>5, <1>11, <1>13 DEF Undoable, HasRef
<1>15. UpgradeOK'
  <2>1. 0 < Pieces BY Lists
  <2> QED BY <1>2, <1>3, <1>4, <1>5, <1>11, <1>14, <2>1 DEF UpgradeOK, HasRef
<1>16. PhaseOK' /\ StepOK' /\ CleanOK' BY <1>2, <1>4, <1>5, <1>11 DEF PhaseOK, StepOK, CleanOK
<1>17. UndoOK'
  <2>1. Clean' => \A c \in Canister : module[c] = before.module[c] \/ Due("load", c, todo)
    <3> SUFFICES ASSUME Clean', NEW c \in Canister PROVE module[c] = before.module[c] \/ Due("load", c, todo) OBVIOUS
    <3>1. Clean BY CleanStays
    <3>2. InstalledTo(rec.index, FALSE, rec.version) BY <1>1, <3>1, OfClean DEF InstalledTo
    <3>3. PICK k \in 1..Len(Canisters) : Canisters[k] = c BY Lists
    <3>4. rec.index \in Nat BY <1>3 DEF Record
    <3>5. CASE k <= rec.index BY <1>4, <1>8, <3>3, <3>4, <3>5
    <3>6. CASE ~(k <= rec.index) BY <3>2, <3>3, <3>6 DEF InstalledTo
    <3> QED BY <3>5, <3>6
  <2> QED BY <1>2, <1>4, <1>5, <1>8, <1>9, <1>11, <1>13, <2>1 DEF UndoOK
<1> QED BY <1>2, <1>4, <1>5, <1>10, <1>12, <1>13, <1>15, <1>16, <1>17, OpenUpgrade

\* A call of an installation step.
LEMMA UpgradeStepU ==
  ASSUME TypesOK, UpgradesOK, PhaseUpgradeStep
  PROVE  TypesOK' /\ UpgradesOK'
<1>1. /\ run # None /\ run.at = "UPGRADING" /\ run.todo # <<>>
      /\ UNCHANGED <<assets, store, origins, filed, before>>
  BY DEF PhaseUpgradeStep, Calling, At
<1>2. rec.kind = "upgrade" BY <1>1, KindOfPhase, PhasesAre
<1>3. rec.status = "UPGRADING" /\ rec.status \in Later /\ rec.status \notin Early BY <1>1, <1>2, OfExecutor DEF Early, Later
<1>4. /\ run.mem \in Record /\ run.mem.index = rec.index /\ run.mem.version = rec.version /\ run.mem.refs = rec.refs
      /\ Open /\ rec # None /\ rec \in Record /\ Call.cid \in Canister /\ CanistersOK /\ before' = before
      /\ run.todo \in Seq(Asked(run.at))
  BY <1>1, <1>2, <1>3, OfExecutor, Executing DEF TypesOK, ChainOK
<1>5. run.mem.load \in Nat /\ rec.index \in Nat /\ rec.version \in Version BY <1>4 DEF Record
<1>6. rec.index < Len(Canisters) /\ StepCalls(run.todo, run.mem.load, Target(run.mem))
  BY <1>1, <1>2, <1>4 DEF UpgradesOK, StepOK, Upgrading
<1>7. /\ Call.cid = Target(run.mem)
      /\ Call.op = "clear" =>
           /\ StepCalls(Tail(run.todo), run.mem.load, Target(run.mem))
           /\ (Tail(run.todo) # <<>> => Head(Tail(run.todo)).op # "install")
      /\ Call.op = "upload" =>
           /\ run.mem.load < Pieces /\ StepCalls(Tail(run.todo), run.mem.load + 1, Target(run.mem))
           /\ run.mem.load + 1 = Pieces => Tail(run.todo) # <<>> /\ Head(Tail(run.todo)).op = "install"
      /\ Call.op = "install" =>
           /\ run.mem.load = Pieces /\ StepCalls(Tail(run.todo), run.mem.load, Target(run.mem))
           /\ (Tail(run.todo) # <<>> => Head(Tail(run.todo)).op # "install")
  BY <1>1, <1>5, <1>6, StepTail DEF Call
<1>8. Undoable(rec) /\ Undoable(run.mem) /\ (Clean => InstalledTo(rec.index, Installed, rec.version))
  <2>1. Undoable(rec) /\ Undoable(run.mem) BY <1>1, <1>2, OfExecutor
  <2>2. Clean => InstalledTo(rec.index, rec.index < Len(Canisters) /\ Installed, rec.version) BY <1>1, <1>2, OfClean
  <2> QED BY <1>6, <2>1, <2>2 DEF InstalledTo
\* What is to be shown when the step goes on.
<1>9. ASSUME TypesOK', rec' = rec, run' # None, run'.at = run.at, run'.todo = Tail(run.todo), run'.mem.refs = run.mem.refs,
             run'.mem.index = run.mem.index, taken' = taken, kept' = kept,
             StepCalls(run'.todo, run'.mem.load, Target(run.mem)),
             Clean' => InstalledTo(rec.index, Installed, rec.version)'
      PROVE  UpgradesOK'
  <2>1. Undoable(rec)' /\ Undoable(run.mem)' BY <1>4, <1>8, <1>9, StayUndoable
  <2>2. PhaseOK' /\ UndoOK' BY <1>1, <1>9 DEF PhaseOK, UndoOK
  <2>3. Target(run.mem)' = Target(run.mem) BY <1>9 DEF Target
  <2>4. StepOK' BY <1>6, <1>9, <2>3 DEF StepOK
  <2>5. CleanOK'
    <3>1. Clean' => InstalledTo(rec.index, rec.index < Len(Canisters) /\ Installed, rec.version)'
      BY <1>6, <1>9 DEF InstalledTo
    <3> QED BY <1>1, <1>3, <1>9, <3>1 DEF CleanOK
  <2> QED BY <1>1, <1>2, <1>3, <1>4, <1>9, <2>1, <2>2, <2>4, <2>5, RunningUpgrade
<1>10. CASE /\ Call.op = "clear" /\ Answered(run) /\ UNCHANGED rec
            /\ \/ ClearChunkStore(Call.cid) /\ Succeeds
               \/ UNCHANGED canisters /\ Swallows
  <2>1. /\ RecordOK' /\ ExecutorOK'
        /\ run' # None /\ run'.at = run.at /\ run'.mem = run.mem /\ run'.todo = Tail(run.todo)
    BY <1>1, <1>10, PlainAnswers
  <2>2. CanistersOK' BY <1>4, <1>10, CallTypes DEF Changes
  <2>3. TypesOK' BY <1>1, <1>10, <2>1, <2>2, StepTypes
  <2>4. module' = module /\ taken' = taken /\ kept' = kept BY <1>10 DEF ClearChunkStore, canisters
  <2>5. Installed' <=> Installed BY <1>1, <1>7, <1>10, <2>1 DEF Installed, Call
  <2>6. Clean' => Clean BY <1>10, CleanStays
  <2>7. Clean' => InstalledTo(rec.index, Installed, rec.version)' BY <1>4, <1>8, <1>10, <2>4, <2>5, <2>6 DEF InstalledTo
  <2> QED BY <1>7, <1>9, <1>10, <2>1, <2>3, <2>4, <2>7
<1>11. CASE /\ Call.op = "upload" /\ UploadChunk(Call.cid, run.mem.load + 1) /\ Succeeds
            /\ Answered([run EXCEPT !.mem.load = @ + 1]) /\ UNCHANGED rec
  <2>1. run.mem.load < Pieces /\ run.mem.load + 1 \in 1..Pieces
    <3>1. Call.op = "upload" BY <1>11
    <3>2. run.mem.load < Pieces BY <1>7, <3>1
    <3>3. Pieces \in Nat BY Lists
    <3> QED BY <1>5, <3>2, <3>3
  <2>2. /\ RecordOK' /\ ExecutorOK'
        /\ run' # None /\ run'.at = run.at /\ run'.todo = Tail(run.todo)
        /\ run'.mem.refs = run.mem.refs /\ run'.mem.load = run.mem.load + 1 /\ run'.mem.index = run.mem.index
    BY <1>1, <1>2, <1>11, <2>1, LoadAnswers
  <2>3. CanistersOK' BY <1>4, <1>11, <2>1, CallTypes DEF Changes
  <2>4. TypesOK' BY <1>1, <1>11, <2>2, <2>3, StepTypes
  <2>5. module' = module /\ taken' = taken /\ kept' = kept BY <1>11 DEF UploadChunk
  <2>6. ~Installed /\ ~Installed'
    <3>1. run.mem.load # Pieces BY <1>5, <2>1, Lists
    <3>2. run'.mem.load = Pieces => run'.todo # <<>> /\ Head(run'.todo).op = "install" BY <1>7, <1>11, <2>2
    <3> QED BY <3>1, <3>2 DEF Installed, Call
  <2>7. Clean' => Clean BY <1>11, CleanStays
  <2>8. Clean' => InstalledTo(rec.index, Installed, rec.version)'
    BY <1>4, <1>8, <1>11, <2>5, <2>6, <2>7 DEF InstalledTo
  <2> QED BY <1>7, <1>9, <1>11, <2>2, <2>4, <2>5, <2>8
<1>12. CASE /\ Call.op = "upload" /\ Fails /\ UpgradeFailed
  <2>1. ~Installed BY <1>5, <1>7, <1>12, Lists DEF Installed
  <2> QED BY <1>1, <1>6, <1>12, <2>1, UpgradeFailedU
<1>13. CASE /\ Call.op = "install" /\ Succeeds
            /\ InstallChunkedCode(Call.cid, run.mem.version) /\ Answered(run) /\ UNCHANGED rec
  <2>1. /\ RecordOK' /\ ExecutorOK'
        /\ run' # None /\ run'.at = run.at /\ run'.mem = run.mem /\ run'.todo = Tail(run.todo)
    BY <1>1, <1>13, PlainAnswers
  <2>2. CanistersOK' BY <1>4, <1>5, <1>13, CallTypes DEF Changes
  <2>3. TypesOK' BY <1>1, <1>13, <2>1, <2>2, StepTypes
  <2>4. taken' = taken /\ kept' = kept /\ module' = [module EXCEPT ![Call.cid] = rec.version]
    BY <1>4, <1>13 DEF InstallChunkedCode
  <2>5. ~Installed /\ Installed' BY <1>1, <1>7, <1>13, <2>1 DEF Installed, Call
  <2>6. Clean' => Clean BY <1>13, CleanStays
  <2>7. Clean' => InstalledTo(rec.index, Installed, rec.version)'
    <3> SUFFICES ASSUME Clean', NEW k \in 1..Len(Canisters)
                 PROVE  module'[Canisters[k]] = (IF k <= rec.index \/ k = rec.index + 1 THEN rec.version
                                                 ELSE before.module[Canisters[k]])
      BY <1>4, <1>13, <2>5 DEF InstalledTo
    <3>1. module[Canisters[k]] = (IF k <= rec.index THEN rec.version ELSE before.module[Canisters[k]])
      BY <1>8, <2>5, <2>6 DEF InstalledTo
    <3>2. Canisters[k] \in Canister /\ rec.index + 1 \in 1..Len(Canisters) /\ Call.cid = Canisters[rec.index + 1]
      BY <1>4, <1>6, <1>7, Lists, TargetIs DEF Target
    <3>3. module \in [Canister -> Version] BY <1>4 DEF CanistersOK
    <3>4. CASE k = rec.index + 1 BY <2>4, <3>2, <3>3, <3>4
    <3>5. CASE k # rec.index + 1
      <4>1. Canisters[k] # Call.cid BY <3>2, <3>5, Lists
      <4> QED BY <2>4, <3>1, <3>2, <3>3, <3>5, <4>1
    <3> QED BY <3>4, <3>5
  <2> QED BY <1>7, <1>9, <1>13, <2>1, <2>3, <2>4, <2>7
<1>14. CASE /\ Call.op = "install" /\ FailsOr(chunks[Call.cid] # 1..Pieces) /\ UpgradeFailed
  <2>1. ~Installed BY <1>1, <1>14 DEF Installed
  <2>2. Succeeds \/ Fails BY <1>14, CleanStays
  <2> QED BY <1>1, <1>6, <1>14, <2>1, <2>2, UpgradeFailedU
<1> QED BY <1>10, <1>11, <1>12, <1>13, <1>14 DEF PhaseUpgradeStep

\* The record is saved, nothing else.
LEMMA SavedTypes ==
  ASSUME TypesOK, NEW m \in Record, CursorOK(m), m.status \in OpenStatus(m.kind), Saves(m),
         UNCHANGED <<canisters, assets, store, filed, before, budget>>
  PROVE  TypesOK' /\ rec' = m /\ run' = None /\ rec' # None
<1>1. rec' = m /\ run' = None BY DEF Saves
<1>2. RecordOK' /\ ExecutorOK' BY <1>1 DEF RecordOK, ExecutorOK
<1>3. Succeeds BY DEF Succeeds
<1>4. TypesOK' BY <1>2, <1>3, CanistersStay, StepTypes
<1> QED BY <1>1, <1>4, NoneAssumption

\* The step is saved: the next piece, the next canister, or the next phase.
LEMMA StepDoneU ==
  ASSUME TypesOK, UpgradesOK, UpgradeStepDone
  PROVE  TypesOK' /\ UpgradesOK'
<1>1. /\ run # None /\ run.at = "UPGRADING" /\ run.todo = <<>>
      /\ UNCHANGED <<canisters, assets, store, origins, filed, before, budget>>
  BY DEF UpgradeStepDone, Called, At
<1>2. rec.kind = "upgrade" BY <1>1, KindOfPhase, PhasesAre
<1>3. rec.status = "UPGRADING" /\ rec.status \in Later /\ rec.status \notin Early BY <1>1, <1>2, OfExecutor DEF Early, Later
<1>4. /\ run.mem \in Record /\ CursorOK(run.mem) /\ run.mem.kind = "upgrade" /\ run.mem.status = rec.status
      /\ run.mem.index = rec.index /\ run.mem.version = rec.version /\ run.mem.refs = rec.refs
      /\ (\A c \in Canister : run.mem.refs[c] # 0) /\ Undoable(run.mem)
  BY <1>1, <1>2, <1>3, OfExecutor
<1>5. run.mem.index \in Nat /\ run.mem.load \in Nat /\ run.mem.index <= Len(Canisters) BY <1>4 DEF Record, CursorOK
<1>6. /\ module' = module /\ running' = running /\ taken' = taken /\ kept' = kept /\ before' = before
      /\ (Clean' => Clean)
  BY <1>1 DEF canisters, Clean, budget
<1>7. /\ "UPGRADING" \in OpenStatus("upgrade") /\ "STARTING" \in OpenStatus("upgrade")
      /\ "STARTING" \in Later /\ "UPGRADING" \in Later /\ "UPGRADING" \notin Early /\ "STARTING" \notin Early
  BY PhasesAre DEF Early, Later
<1>8. Clean => InstalledTo(rec.index, rec.index < Len(Canisters) /\ Installed, rec.version)
  BY <1>1, <1>2, OfClean
<1>9. Undoable(rec)' <=> \A c \in Canister : rec'.refs[c] # 0 =>
           /\ rec'.refs[c] = Len(taken[c]) /\ rec'.refs[c] \in kept[c]
           /\ taken[c][rec'.refs[c]].module = before.module[c]
  BY <1>6 DEF Undoable, HasRef
<1>10. CASE run.mem.index >= Len(Canisters) /\ Ends(run.mem, "STARTING")
  <2>1. /\ RecordOK' /\ ExecutorOK' /\ rec' \in Record /\ rec'.status = "STARTING" /\ rec'.kind = "upgrade"
        /\ rec'.refs = run.mem.refs /\ rec'.version = run.mem.version /\ run' = None
    BY <1>4, <1>7, <1>10, SaveTypes
  <2>2. Succeeds BY <1>1 DEF Succeeds
  <2>3. TypesOK' /\ rec' # None BY <1>1, <2>1, <2>2, CanistersStay, StepTypes, NoneAssumption
  <2>4. Undoable(rec)' BY <1>4, <1>9, <2>1 DEF Undoable, HasRef
  <2>5. Clean' => \A c \in Canister : module'[c] = rec'.version
    <3> SUFFICES ASSUME Clean', NEW c \in Canister PROVE module[c] = rec.version BY <1>4, <1>6, <2>1
    <3>1. PICK k \in 1..Len(Canisters) : Canisters[k] = c BY Lists
    <3>2. k <= rec.index BY <1>4, <1>5, <1>10, <3>1, Lists
    <3> QED BY <1>6, <1>8, <3>1, <3>2 DEF InstalledTo
  <2> QED BY <1>4, <1>6, <1>7, <2>1, <2>3, <2>4, <2>5, SavedUpgrade
<1>11. CASE run.mem.index < Len(Canisters) /\ run.mem.load < Pieces /\ Saves(run.mem)
  <2>1. TypesOK' /\ rec' = run.mem /\ run' = None /\ rec' # None BY <1>1, <1>3, <1>4, <1>7, <1>11, SavedTypes
  <2>2. Undoable(rec)' BY <1>4, <1>9, <2>1 DEF Undoable, HasRef
  <2>3. ~Installed BY <1>5, <1>11, Lists DEF Installed
  <2>4. Clean' => InstalledTo(rec.index, FALSE, rec.version)'
    BY <1>4, <1>6, <1>8, <2>1, <2>3 DEF InstalledTo
  <2> QED BY <1>3, <1>4, <1>6, <1>7, <1>11, <2>1, <2>2, <2>4, SavedUpgrade
<1>12. CASE /\ run.mem.index < Len(Canisters) /\ run.mem.load = Pieces
            /\ Saves([run.mem EXCEPT !.index = @ + 1, !.load = 0])
  <2> DEFINE m == [run.mem EXCEPT !.index = @ + 1, !.load = 0]
  <2>1. /\ m \in Record /\ m.kind = "upgrade" /\ m.status = rec.status /\ m.index = run.mem.index + 1
        /\ m.version = rec.version /\ m.refs = rec.refs /\ m.load = 0 /\ Saves(m)
    <3>1. run.mem.index + 1 \in Nat BY <1>5
    <3> QED BY <1>4, <1>12, <3>1 DEF Record
  <2> HIDE DEF m
  <2>2. CursorOK(m) BY <1>5, <1>12, <2>1, Lists DEF CursorOK
  <2>3. TypesOK' /\ rec' = m /\ run' = None /\ rec' # None BY <1>1, <1>3, <1>7, <2>1, <2>2, SavedTypes
  <2>4. Undoable(rec)' BY <1>4, <1>9, <2>1, <2>3 DEF Undoable, HasRef
  <2>5. Installed BY <1>1, <1>12 DEF Installed
  <2>6. Clean' => InstalledTo(rec.index, FALSE, rec.version)'
    <3>2. \A i, k \in Nat : k <= i + 1 <=> k <= i \/ k = i + 1 OBVIOUS
    <3>1. \A k \in 1..Len(Canisters) : k <= rec.index + 1 <=> k <= rec.index \/ k = rec.index + 1 BY <1>4, <1>5, <3>2
    <3> QED BY <1>4, <1>6, <1>8, <1>12, <2>1, <2>3, <2>5, <3>1 DEF InstalledTo
  <2>7. 0 < Pieces BY Lists
  <2> QED BY <1>3, <1>4, <1>6, <1>7, <2>1, <2>3, <2>4, <2>6, <2>7, SavedUpgrade
<1> QED BY <1>10, <1>11, <1>12 DEF UpgradeStepDone

\* A canister is started, or does not start.
LEMMA StartU ==
  ASSUME TypesOK, UpgradesOK, PhaseStart
  PROVE  TypesOK' /\ UpgradesOK'
<1>1. /\ run # None /\ run.at = "STARTING" /\ run.todo # <<>>
      /\ UNCHANGED <<assets, store, origins, filed, before>>
  BY DEF PhaseStart, Calling, At
<1>2. rec.kind = "upgrade" BY <1>1, KindOfPhase, PhasesAre
<1>3. /\ rec.status = "STARTING" /\ rec.status \in Later /\ rec.status \notin Early
      /\ rec.status \notin {"APPROVED", "PRE_FLIGHT", "FINALIZING"}
  BY <1>1, <1>2, OfExecutor DEF Early, Later
<1>4. /\ run.mem \in Record /\ CursorOK(run.mem) /\ run.mem.kind = "upgrade" /\ run.mem.version = rec.version
      /\ run.mem.refs = rec.refs /\ Call.cid \in Canister /\ CanistersOK /\ before' = before /\ rec # None
      /\ run.todo \in Seq(Asked(run.at)) /\ Undoable(rec) /\ Undoable(run.mem)
      /\ Call \in [op : OpsOf(run.at), cid : Canister]
  BY <1>1, <1>2, <1>3, OfExecutor, Executing DEF TypesOK, ChainOK
<1>5. Clean => /\ \A c \in Canister : module[c] = rec.version
               /\ \A c \in Canister : c \in running \/ Due("start", c, run.todo)
  BY <1>1, <1>2, <1>3, OfClean
<1>6. CASE /\ Answered(run) /\ UNCHANGED rec
           /\ \/ StartCanister(Call.cid) /\ Succeeds
              \/ UNCHANGED canisters /\ Swallows
  <2>1. /\ RecordOK' /\ ExecutorOK'
        /\ run' # None /\ run'.at = run.at /\ run'.mem = run.mem /\ run'.todo = Tail(run.todo)
    BY <1>1, <1>6, PlainAnswers
  <2>2. CanistersOK' BY <1>4, <1>6, CallTypes DEF Changes
  <2>3. TypesOK' BY <1>1, <1>6, <2>1, <2>2, StepTypes
  <2>4. /\ module' = module /\ taken' = taken /\ kept' = kept
        /\ (Succeeds /\ running' = running \cup {Call.cid}) \/ Swallows
    BY <1>6 DEF StartCanister, canisters
  <2>5. Undoable(rec)' /\ Undoable(run.mem)' BY <1>4, <1>6, <2>1, <2>4, StayUndoable
  <2>6. Clean' => Clean /\ running' = running \cup {Call.cid} BY <2>4, CleanStays
  <2>7. \A c : Due("start", c, run.todo) => Call.cid = c \/ Due("start", c, Tail(run.todo))
    BY <1>1, <1>4, DueTail DEF Call
  <2>8. CleanOK' BY <1>1, <1>3, <1>5, <1>6, <2>1, <2>4, <2>6, <2>7 DEF CleanOK
  <2>9. PhaseOK' /\ StepOK' /\ UndoOK' BY <1>1, <2>1 DEF PhaseOK, StepOK, UndoOK
  <2> QED BY <1>1, <1>2, <1>3, <1>4, <1>6, <2>1, <2>3, <2>4, <2>5, <2>8, <2>9, RunningUpgrade
<1>7. CASE UNCHANGED canisters /\ Fails /\ Ends(run.mem, "REVERTED_PARTIAL_FAILURE")
  <2>1. "REVERTED_PARTIAL_FAILURE" \in Terminal BY DEF Terminal
  <2>2. /\ RecordOK' /\ ExecutorOK' /\ rec'.status = "REVERTED_PARTIAL_FAILURE" /\ rec'.kind = "upgrade" /\ run' = None
        /\ rec'.version = rec.version
    BY <1>4, <1>7, <2>1, SaveTypes
  <2>3. TypesOK' BY <1>1, <1>7, <2>2, CanistersStay, StepTypes
  <2>4. module' = module /\ (Clean' => Clean) BY <1>7, CleanStays DEF canisters
  <2> QED BY <1>5, <2>1, <2>2, <2>3, <2>4, EndedUpgrade
<1> QED BY <1>6, <1>7 DEF PhaseStart

\* What puts the whole stand back.
LEMMA FullRevertIs ==
  ASSUME NEW r \in Record, \A c \in Canister : r.refs[c] # 0
  PROVE  LET todo == FullRevertAndRestart(r)
         IN  /\ ComesLast("start", todo)
             /\ \A c \in Canister : Due("start", c, todo) /\ Due("load", c, todo)
<1> DEFINE cs == Referred(r, Canisters)
           stops == Calls("stop", Canisters)
           loads == Calls("load", cs)
           starts == Calls("start", Canisters)
<1>1. cs \in Seq(Canister) /\ ToSet(cs) = Canister
  <2>1. cs \in Seq(Canister) /\ ToSet(cs) = ToSet(Canisters) \cap {c \in Canister : HasRef(r, c)}
    BY PickedAre, Lists DEF Referred
  <2> QED BY <2>1 DEF HasRef, Canister
<1>2. /\ stops \in Seq(Asked("undo")) /\ loads \in Seq(Asked("undo")) /\ starts \in Seq(Asked("undo"))
  <2> HIDE DEF cs
  <2> QED BY <1>1, Lists, OpsAre, CallsAre
<1>3. \A i \in 1..Len(stops) : stops[i].op # "start"
  <2>1. \A i \in 1..Len(stops) : stops[i].op = "stop" BY Lists, CallsElements
  <2> QED BY <2>1
<1>4. /\ \A i \in 1..Len(loads) : loads[i].op # "start"
      /\ \A c \in Canister : Due("load", c, loads)
  <2> HIDE DEF cs
  <2> QED BY <1>1, CallsElements
<1>5. ComesLast("start", starts) /\ \A c \in Canister : Due("start", c, starts)
  BY Lists, StartsAre DEF Canister, RestartCanisters
<1> HIDE DEF stops, loads, starts
<1>6. /\ stops \o loads \in Seq(Asked("undo"))
      /\ \A i \in 1..Len(stops \o loads) : (stops \o loads)[i].op # "start"
      /\ \A c \in Canister : Due("load", c, stops \o loads)
  BY <1>2, <1>3, <1>4, DueConcat
<1> DEFINE both == stops \o loads
<1>7. both \in Seq(Asked("undo")) /\ (\A i \in 1..Len(both) : both[i].op # "start") /\ \A c \in Canister : Due("load", c, both)
  BY <1>6
<1> HIDE DEF both
<1>8. ComesLast("start", both \o starts) /\ \A c \in Canister : Due("start", c, both \o starts) /\ Due("load", c, both \o starts)
  BY <1>2, <1>5, <1>7, DueConcat
<1> QED BY <1>8 DEF both, FullRevertAndRestart, stops, loads, starts

\* A canister is verified, or not.
LEMMA VerifyU ==
  ASSUME TypesOK, UpgradesOK, PhaseVerify
  PROVE  TypesOK' /\ UpgradesOK'
<1>1. /\ run # None /\ run.at = "VERIFYING" /\ run.todo # <<>> /\ rec' = rec
      /\ UNCHANGED <<canisters, assets, store, origins, filed, before>>
  BY DEF PhaseVerify, Calling, At
<1>2. rec.kind = "upgrade" BY <1>1, KindOfPhase, PhasesAre
<1>3. /\ rec.status = "VERIFYING" /\ rec.status \in Later /\ rec.status \notin Early
      /\ rec.status \notin {"APPROVED", "PRE_FLIGHT", "FINALIZING", "UPGRADING", "STARTING"}
  BY <1>1, <1>2, OfExecutor DEF Early, Later
<1>4. /\ run.mem \in Record /\ CursorOK(run.mem) /\ run.mem.kind = "upgrade" /\ run.mem.version = rec.version
      /\ run.mem.refs = rec.refs /\ Call.cid \in Canister /\ before' = before /\ rec # None
      /\ run.todo \in Seq(Asked(run.at)) /\ Undoable(rec) /\ Undoable(run.mem)
      /\ \A c \in Canister : run.mem.refs[c] # 0
      /\ \A c \in Canister : module[c] = run.mem.version \/ Due("verify", c, run.todo)
      /\ module' = module /\ running' = running /\ taken' = taken /\ kept' = kept
  BY <1>1, <1>2, <1>3, OfExecutor, Executing DEF canisters
<1>5. Clean => running = Canister BY <1>1, <1>2, <1>3, OfClean
<1>6. CASE Verified(Call.cid) /\ Succeeds /\ Answered(run)
  <2>1. /\ RecordOK' /\ ExecutorOK'
        /\ run' # None /\ run'.at = run.at /\ run'.mem = run.mem /\ run'.todo = Tail(run.todo)
    BY <1>1, <1>6, PlainAnswers
  <2>2. TypesOK' BY <1>1, <1>6, <2>1, CanistersStay, StepTypes
  <2>3. Undoable(rec)' /\ Undoable(run.mem)' BY <1>1, <1>4, <2>1, StayUndoable
  <2>4. \A c : Due("verify", c, run.todo) => Call.cid = c \/ Due("verify", c, Tail(run.todo))
    BY <1>1, <1>4, DueTail DEF Call
  <2>5. module[Call.cid] = run.mem.version BY <1>6 DEF Verified
  <2>6. PhaseOK' BY <1>1, <1>4, <2>1, <2>4, <2>5 DEF PhaseOK
  <2>7. Clean' => Clean BY <1>6, CleanStays
  <2>8. StepOK' /\ CleanOK' /\ UndoOK' BY <1>1, <1>3, <1>4, <1>5, <2>1, <2>7 DEF StepOK, CleanOK, UndoOK
  <2> QED BY <1>1, <1>2, <1>3, <1>4, <2>1, <2>2, <2>3, <2>6, <2>8, RunningUpgrade
<1>7. CASE /\ FailsOr(~Verified(Call.cid))
           /\ run' = Undoing(run.mem, FullRevertAndRestart(run.mem), "REVERTED_FAILED_VERIFY")
  <2>1. "REVERTED_FAILED_VERIFY" \in Terminal \ {"COMPLETE"} BY DEF Terminal
  <2>2. FullRevertAndRestart(run.mem) \in Seq(Asked("undo")) BY <1>4, UndoCallsAre DEF CursorOK
  <2>3. /\ RecordOK' /\ ExecutorOK'
        /\ run' # None /\ run'.at = "undo" /\ run'.mem = run.mem /\ run'.todo = FullRevertAndRestart(run.mem)
        /\ run'.end = "REVERTED_FAILED_VERIFY"
    BY <1>1, <1>2, <1>7, <2>1, <2>2, UndoingIs
  <2>4. Succeeds \/ Fails BY <1>7, CleanStays
  <2>5. TypesOK' BY <1>1, <2>3, <2>4, CanistersStay, StepTypes
  <2>6. Undoable(rec)' /\ Undoable(run.mem)' BY <1>1, <1>4, <2>3, StayUndoable
  <2>7. ComesLast("start", run'.todo) /\ \A c \in Canister : Due("start", c, run'.todo) /\ Due("load", c, run'.todo)
    BY <1>4, <2>3, FullRevertIs
  <2>8. UndoOK' BY <1>1, <1>3, <2>1, <2>3, <2>7 DEF UndoOK
  <2>9. PhaseOK' /\ StepOK' /\ CleanOK' BY <1>1, <1>3, <2>3 DEF PhaseOK, StepOK, CleanOK
  <2> QED BY <1>1, <1>2, <1>3, <1>4, <2>3, <2>5, <2>6, <2>8, <2>9, RunningUpgrade
<1>8. CASE Fails /\ run' = None
  <2>1. TypesOK' BY <1>1, <1>8, CanistersStay, GoneTypes, StepTypes
  <2>2. Undoable(rec)' BY <1>1, <1>4, <1>8, StayUndoable
  <2>3. rec.status \in OpenStatus("upgrade") /\ \A c \in Canister : rec.refs[c] # 0 BY <1>3, <1>4, PhasesAre
  <2>4. Clean' => Clean BY <1>8, CleanStays
  <2> QED BY <1>1, <1>2, <1>3, <1>4, <1>5, <1>8, <2>1, <2>2, <2>3, <2>4, SavedUpgrade
<1> QED BY <1>6, <1>7, <1>8 DEF PhaseVerify

\* There are always the newest so many.
LEMMA NewestExist ==
  ASSUME NEW n \in Nat, NEW ids \in SUBSET (0..n), NEW m \in Nat, m <= Cardinality(ids)
  PROVE  \E S \in SUBSET ids : Cardinality(S) = m /\ \A i \in ids \ S, j \in S : i < j
<1> DEFINE P(k) == \E S \in SUBSET ids : Cardinality(S) = k /\ \A i \in ids \ S, j \in S : i < j
           Bad == {k \in 0..Cardinality(ids) : ~P(k)}
<1>1. IsFiniteSet(ids) /\ Cardinality(ids) \in Nat
  <2>1. IsFiniteSet(0..n) BY FS_Interval
  <2> QED BY <2>1, FS_Subset, FS_CardinalityType
<1>2. Bad = {}
  <2> SUFFICES ASSUME Bad # {} PROVE FALSE OBVIOUS
  <2> HIDE DEF P
  <2>1. Bad \subseteq Nat BY <1>1
  <2>2. PICK k \in Bad : \A l \in Bad : k <= l BY <2>1, LeastNatural
  <2>3. P(0)
    <3>1. {} \in SUBSET ids /\ Cardinality({}) = 0 BY FS_EmptySet
    <3> QED BY <3>1 DEF P
  <2>4. k # 0 BY <2>2, <2>3
  <2>5. k \in Nat /\ k - 1 \in 0..Cardinality(ids) /\ ~(k <= k - 1) /\ k <= Cardinality(ids) /\ (k - 1) + 1 = k
    BY <1>1, <2>2, <2>4
  <2>6. P(k - 1) BY <2>2, <2>5
  <2>7. PICK S \in SUBSET ids : Cardinality(S) = k - 1 /\ \A i \in ids \ S, j \in S : i < j BY <2>6 DEF P
  <2>8. IsFiniteSet(S) BY <1>1, FS_Subset
  <2>9. ids \ S # {}
    <3> SUFFICES ASSUME ids \ S = {} PROVE FALSE OBVIOUS
    <3>1. S = ids OBVIOUS
    <3> QED BY <2>5, <2>7, <3>1
  <2> DEFINE x == Max(ids \ S)
             T == S \cup {x}
  <2>10. x \in ids \ S /\ \A i \in ids \ S : i <= x BY <2>9, MaxOfBounded
  <2> HIDE DEF x
  <2>11. Cardinality(T) = k BY <2>5, <2>7, <2>8, <2>10, FS_AddElement
  <2>12. \A i \in ids \ T, j \in T : i < j
    <3> SUFFICES ASSUME NEW i \in ids \ T, NEW j \in T PROVE i < j OBVIOUS
    <3>1. i \in ids \ S /\ i # x OBVIOUS
    <3>2. CASE j \in S BY <2>7, <3>1, <3>2
    <3>3. CASE j = x
      <4>1. i <= x /\ i \in Nat /\ x \in Nat BY <2>10, <3>1
      <4> QED BY <3>1, <3>3, <4>1
    <3> QED BY <3>2, <3>3
  <2>13. P(k) BY <2>10, <2>11, <2>12 DEF P
  <2> QED BY <2>2, <2>13
<1>3. m \in 0..Cardinality(ids) BY <1>1
<1> QED BY <1>2, <1>3

\* The newest snapshot of all is among those that pruning keeps.
LEMMA NewestStays ==
  ASSUME NEW n \in Nat, NEW ids \in SUBSET (1..n), n \in ids
  PROVE  n \in NewestKept(ids)
<1> DEFINE m == Min({SnapshotsKept, Cardinality(ids)})
           S == NewestKept(ids)
<1>1. IsFiniteSet(ids) /\ Cardinality(ids) \in Nat /\ Cardinality(ids) # 0
  <2>1. IsFiniteSet(1..n) BY FS_Interval
  <2>2. IsFiniteSet(ids) BY <2>1, FS_Subset
  <2> QED BY <2>2, FS_CardinalityType, FS_EmptySet
<1>2. SnapshotsKept \in Nat /\ SnapshotsKept # 0 BY KeepAssumption
<1>3. m \in Nat /\ m # 0 /\ m <= Cardinality(ids)
  <2>1. m \in {SnapshotsKept, Cardinality(ids)} /\ \A k \in {SnapshotsKept, Cardinality(ids)} : m <= k
    BY <1>1, <1>2, MinOfNaturals
  <2> HIDE DEF m
  <2> QED BY <1>1, <1>2, <2>1
<1>4. ids \in SUBSET (0..n)
  <2>1. 1..n \subseteq 0..n OBVIOUS
  <2> QED BY <2>1
<1>5. \E T \in SUBSET ids : Cardinality(T) = m /\ \A i \in ids \ T, j \in T : i < j
  <2> HIDE DEF m
  <2> QED BY <1>3, <1>4, NewestExist
<1>6. S \in SUBSET ids /\ Cardinality(S) = m /\ \A i \in ids \ S, j \in S : i < j
  BY <1>5 DEF NewestKept
<1> HIDE DEF m, S
<1>7. S # {} BY <1>3, <1>6, FS_EmptySet
<1>8. PICK j \in S : TRUE BY <1>7
<1>9. j \in 1..n /\ ~(n < j) BY <1>6, <1>8
<1>10. n \in S BY <1>6, <1>8, <1>9
<1> QED BY <1>10 DEF S

\* Pruning keeps the way back.
LEMMA PruneUndoable ==
  ASSUME CanistersOK, NEW c \in Canister, PruneSnapshots(c), Undoable(rec), before' = before, rec' = rec
  PROVE  Undoable(rec)'
<1>1. /\ taken' = taken /\ \A d \in Canister \ {c} : kept'[d] = kept[d]
      /\ NewestKept(kept[c]) \cap kept[c] \subseteq kept'[c]
  BY PruningIs
<1>2. ASSUME NEW d \in Canister, rec.refs[d] # 0 PROVE rec.refs[d] \in kept'[d]
  <2>1. rec.refs[d] = Len(taken[d]) /\ rec.refs[d] \in kept[d] BY <1>2 DEF Undoable, HasRef
  <2>2. CASE d # c BY <1>1, <2>1, <2>2
  <2>3. CASE d = c
    <3> DEFINE n == Len(taken[c])
    <3>1. n \in Nat BY KeptFinite
    <3>2. kept[c] \in SUBSET (1..n) BY DEF CanistersOK
    <3> HIDE DEF n
    <3>3. n \in NewestKept(kept[c]) BY <2>1, <2>3, <3>1, <3>2, NewestStays DEF n
    <3> QED BY <1>1, <2>1, <2>3, <3>3 DEF n
  <2> QED BY <2>2, <2>3
<1> QED BY <1>1, <1>2 DEF Undoable, HasRef

\* The older snapshots of a canister are deleted.
LEMMA KeepU ==
  ASSUME TypesOK, UpgradesOK, KeepNewestSnapshots
  PROVE  TypesOK' /\ UpgradesOK'
<1>1. /\ run # None /\ run.at = "FINALIZING" /\ run.todo # <<>> /\ rec' = rec
      /\ UNCHANGED <<assets, store, filed, before>> /\ PruneSnapshots(Call.cid) /\ Answered(run)
  BY DEF KeepNewestSnapshots, Calling, At
<1>2. rec.kind = "upgrade" BY <1>1, KindOfPhase, PhasesAre
<1>3. /\ rec.status = "FINALIZING" /\ rec.status \in Later /\ rec.status \notin Early
      /\ rec.status \notin {"APPROVED", "PRE_FLIGHT", "UPGRADING", "STARTING"}
  BY <1>1, <1>2, OfExecutor DEF Early, Later
<1>4. /\ run.mem.refs = rec.refs /\ Call.cid \in Canister /\ before' = before /\ rec # None
      /\ Undoable(rec) /\ CanistersOK
  BY <1>1, <1>2, <1>3, OfExecutor, Executing DEF TypesOK, ChainOK
<1>5. Clean => running = Canister BY <1>1, <1>2, <1>3, OfClean
<1>6. /\ RecordOK' /\ ExecutorOK'
      /\ run' # None /\ run'.at = run.at /\ run'.mem = run.mem /\ run'.todo = Tail(run.todo)
  BY <1>1, PlainAnswers
<1>7. CanistersOK' /\ module' = module /\ running' = running /\ (Succeeds \/ Fails) BY <1>1, <1>4, PruningIs
<1>8. TypesOK' BY <1>1, <1>6, <1>7, StepTypes
<1>9. Undoable(rec)' BY <1>1, <1>4, PruneUndoable
<1>10. Undoable(run.mem)' BY <1>1, <1>4, <1>6, <1>9 DEF Undoable, HasRef
<1>11. Clean' => Clean BY <1>7, CleanStays
<1>12. PhaseOK' /\ StepOK' /\ CleanOK' /\ UndoOK'
  BY <1>1, <1>3, <1>5, <1>6, <1>7, <1>11 DEF PhaseOK, StepOK, CleanOK, UndoOK
<1> QED BY <1>1, <1>2, <1>3, <1>4, <1>6, <1>7, <1>8, <1>9, <1>10, <1>12, RunningUpgrade

\* A call of the undo.
LEMMA UndoCallU ==
  ASSUME TypesOK, UpgradesOK, UndoCall
  PROVE  TypesOK' /\ UpgradesOK'
<1> DEFINE c == Call.cid
<1>1. /\ run # None /\ run.at = "undo" /\ run.todo # <<>> /\ rec' = rec /\ Answered(run)
      /\ UNCHANGED <<assets, store, origins, filed, before>>
      /\ \/ Succeeds /\ Call.op = "stop" /\ StopCanister(c)
         \/ Succeeds /\ Call.op = "load" /\ LoadSnapshot(c, run.mem.refs[c])
         \/ Succeeds /\ Call.op = "start" /\ StartCanister(c)
         \/ Swallows /\ UNCHANGED canisters
  BY DEF UndoCall, Calling, At
<1>2. rec.kind = "upgrade" BY <1>1, KindOfPhase, PhasesAre
<1>3. /\ c \in Canister /\ before' = before /\ rec # None /\ CanistersOK /\ Open
      /\ Undoable(rec) /\ Undoable(run.mem) /\ run.todo \in Seq(Asked(run.at))
      /\ rec.status \in Later => run.mem.refs = rec.refs
  BY <1>1, <1>2, OfExecutor, Executing DEF TypesOK, ChainOK
<1>4. /\ run.end \in Terminal \ {"COMPLETE"} /\ rec.status \in {"STOPPING", "SNAPSHOTTING", "UPGRADING", "VERIFYING"}
      /\ ComesLast("start", run.todo)
      /\ Clean => \A d \in Canister :
           /\ module[d] = before.module[d] \/ Due("load", d, run.todo)
           /\ d \in before.running => Due("start", d, run.todo) \/ (d \in running /\ ~Due("stop", d, run.todo))
  BY <1>1, <1>2, <1>3 DEF UpgradesOK, UndoOK, Upgrading
<1>5. /\ RecordOK' /\ ExecutorOK'
      /\ run' # None /\ run'.at = run.at /\ run'.mem = run.mem /\ run'.todo = Tail(run.todo) /\ run'.end = run.end
  BY <1>1, PlainAnswers
<1>6. CanistersOK' BY <1>1, <1>3, CallTypes DEF Changes
<1>7. TypesOK' BY <1>1, <1>5, <1>6, StepTypes
<1>8. taken' = taken /\ kept' = kept BY <1>1 DEF StopCanister, LoadSnapshot, StartCanister, canisters
<1>9. Undoable(rec)' /\ Undoable(run.mem)' BY <1>1, <1>3, <1>5, <1>8, StayUndoable
<1>10. /\ ComesLast("start", run'.todo)
       /\ Call.op = "start" => \A d : ~Due("stop", d, run'.todo)
       /\ \A op, d : Due(op, d, run.todo) => (Call.op = op /\ c = d) \/ Due(op, d, run'.todo)
       /\ \A op, d : Due(op, d, run'.todo) => Due(op, d, run.todo)
       /\ Due(Call.op, c, run.todo)
  <2>1. ComesLast("start", run'.todo) BY <1>1, <1>3, <1>4, <1>5, LastTail
  <2>2. Call.op = "start" => \A i \in 1..Len(run'.todo) : run'.todo[i].op = "start"
    BY <1>1, <1>3, <1>4, <1>5, LastTail DEF Call
  <2>3. Call.op = "start" => \A d : ~Due("stop", d, run'.todo) BY <2>2, OnlyDue
  <2>4. /\ \A op, d : Due(op, d, run.todo) => (Call.op = op /\ c = d) \/ Due(op, d, run'.todo)
        /\ \A op, d : Due(op, d, run'.todo) => Due(op, d, run.todo)
        /\ Due(Call.op, c, run.todo)
    BY <1>1, <1>3, <1>5, DueTail DEF Call
  <2> QED BY <2>1, <2>3, <2>4
<1>11. \/ Succeeds /\ Call.op = "stop" /\ module' = module /\ running' = running \ {c}
       \/ /\ Succeeds /\ Call.op = "load" /\ running' = running
          /\ module'[c] = before.module[c] /\ \A d \in Canister \ {c} : module'[d] = module[d]
       \/ Succeeds /\ Call.op = "start" /\ module' = module /\ running' = running \cup {c}
       \/ Swallows /\ module' = module /\ running' = running
  <2>1. CASE Succeeds /\ Call.op = "load" /\ LoadSnapshot(c, run.mem.refs[c])
    <3>1. /\ run.mem.refs[c] \in 1..Len(taken[c]) /\ running' = running
          /\ module' = [module EXCEPT ![c] = taken[c][run.mem.refs[c]].module]
      BY <1>3, <2>1, LoadingIs
    <3>2. module \in [Canister -> Version] BY <1>3 DEF CanistersOK
    <3>3. taken[c][run.mem.refs[c]].module = before.module[c] BY <1>3, <3>1 DEF Undoable, HasRef
    <3> QED BY <1>3, <2>1, <3>1, <3>2, <3>3
  <2>2. CASE Swallows /\ UNCHANGED canisters BY <2>2 DEF canisters
  <2>3. CASE Succeeds /\ Call.op = "stop" /\ StopCanister(c) BY <2>3 DEF StopCanister
  <2>4. CASE Succeeds /\ Call.op = "start" /\ StartCanister(c) BY <2>4 DEF StartCanister
  <2> QED BY <1>1, <2>1, <2>2, <2>3, <2>4
<1> HIDE DEF c
<1>12. rec.status \in Early \cup {"FINALIZING"} => module' = module
  <2>1. SUFFICES ASSUME rec.status \in Early PROVE module' = module BY <1>4
  <2>2. module = before.module BY <1>1, <1>2, <2>1, OfExecutor
  <2>3. module \in [Canister -> Version] /\ module' \in [Canister -> Version] BY <1>3, <1>6 DEF CanistersOK
  <2>4. \A d \in Canister : module'[d] = module[d] BY <1>11, <2>2
  <2> QED BY <2>3, <2>4
<1>13. UndoOK'
  <2>1. Clean' => \A d \in Canister :
           /\ module'[d] = before.module[d] \/ Due("load", d, run'.todo)
           /\ d \in before.running => Due("start", d, run'.todo) \/ (d \in running' /\ ~Due("stop", d, run'.todo))
    <3> SUFFICES ASSUME Clean', NEW d \in Canister
                 PROVE  /\ module'[d] = before.module[d] \/ Due("load", d, run'.todo)
                        /\ d \in before.running =>
                             Due("start", d, run'.todo) \/ (d \in running' /\ ~Due("stop", d, run'.todo))
      OBVIOUS
    <3>1. Clean BY <1>11, CleanStays
    <3>2. /\ module[d] = before.module[d] \/ Due("load", d, run.todo)
          /\ d \in before.running => Due("start", d, run.todo) \/ (d \in running /\ ~Due("stop", d, run.todo))
      BY <1>4, <3>1
    <3>3. ~Swallows BY CleanStays
    <3>4. CASE Call.op = "stop" /\ module' = module /\ running' = running \ {c} BY <1>10, <3>2, <3>4
    <3>5. CASE /\ Call.op = "load" /\ running' = running
               /\ module'[c] = before.module[c] /\ \A e \in Canister \ {c} : module'[e] = module[e]
      BY <1>10, <3>2, <3>5
    <3>6. CASE Call.op = "start" /\ module' = module /\ running' = running \cup {c} BY <1>10, <3>2, <3>6
    <3> QED BY <1>11, <3>3, <3>4, <3>5, <3>6
  <2> QED BY <1>1, <1>3, <1>4, <1>5, <1>10, <2>1 DEF UndoOK
<1>14. PhaseOK' /\ StepOK' /\ CleanOK' BY <1>1, <1>4, <1>5 DEF PhaseOK, StepOK, CleanOK
<1>15. rec.status \notin {"APPROVED", "PRE_FLIGHT"} BY <1>4
<1> QED BY <1>1, <1>2, <1>3, <1>5, <1>7, <1>9, <1>12, <1>13, <1>14, <1>15, RunningUpgrade

LEMMA UndoDoneU ==
  ASSUME TypesOK, UpgradesOK, UndoDone
  PROVE  TypesOK' /\ UpgradesOK'
<1>1. /\ run # None /\ run.at = "undo" /\ run.todo = <<>> /\ Ends(run.mem, run.end)
      /\ UNCHANGED <<canisters, assets, store, origins, filed, before, budget>>
  BY DEF UndoDone, Called, At
<1>2. rec.kind = "upgrade" BY <1>1, KindOfPhase, PhasesAre
<1>3. /\ run.mem \in Record /\ CursorOK(run.mem) /\ run.mem.kind = "upgrade" /\ Open BY <1>1, <1>2, OfExecutor
<1>4. /\ run.end \in Terminal \ {"COMPLETE"}
      /\ Clean => \A d \in Canister :
           /\ module[d] = before.module[d] \/ Due("load", d, run.todo)
           /\ d \in before.running => Due("start", d, run.todo) \/ (d \in running /\ ~Due("stop", d, run.todo))
  BY <1>1, <1>2, <1>3 DEF UpgradesOK, UndoOK, Upgrading
<1>5. RecordOK' /\ ExecutorOK' /\ rec'.status = run.end /\ rec'.kind = "upgrade" /\ run' = None
  BY <1>1, <1>3, <1>4, SaveTypes
<1>6. Succeeds BY <1>1 DEF Succeeds
<1>7. TypesOK' BY <1>1, <1>5, <1>6, CanistersStay, StepTypes
<1>8. module' = module /\ running' = running /\ before' = before /\ (Clean' => Clean)
  BY <1>1 DEF canisters, budget, Clean
<1>9. Clean => module = before.module
  <2>1. module \in [Canister -> Version] /\ before.module \in [Canister -> Version]
    BY DEF TypesOK, ChainOK, CanistersOK
  <2>2. Clean => \A d \in Canister : module[d] = before.module[d] BY <1>1, <1>4, NoneDue
  <2> QED BY <2>1, <2>2
<1>10. Clean => before.running \subseteq running
  <2>1. before.running \subseteq Canister BY DEF TypesOK, ChainOK
  <2> QED BY <1>1, <1>4, <2>1, NoneDue
<1> QED BY <1>4, <1>5, <1>7, <1>8, <1>9, <1>10, EndedUpgrade

\* The executor is lost.
LEMMA LoseU ==
  ASSUME TypesOK, UpgradesOK, LoseExecutor
  PROVE  UpgradesOK'
<1>1. /\ run # None /\ losses' = losses + 1 /\ run' = None /\ rec' = rec
      /\ UNCHANGED <<canisters, assets, store, origins, filed, before, failures, swallowed>>
  BY DEF LoseExecutor
<1>2. TypesOK' BY LoseT
<1>3. ~Clean'
  <2>1. losses \in Nat BY DEF TypesOK, ChainOK
  <2> QED BY <1>1, <2>1 DEF Clean
<1>4. module' = module /\ running' = running /\ taken' = taken /\ kept' = kept /\ before' = before
  BY <1>1 DEF canisters
<1>5. Open /\ rec # None /\ rec.status \in OpenStatus(rec.kind) BY <1>1, Executing
<1>6. CASE rec.kind = "upgrade"
  <2>1. Undoable(rec)' BY <1>1, <1>4, <1>6, OfExecutor, StayUndoable
  <2> QED BY <1>1, <1>2, <1>3, <1>4, <1>5, <1>6, <2>1, OfExecutor, SavedUpgrade
<1>7. CASE rec.kind # "upgrade"
  BY <1>1, <1>5, <1>7 DEF UpgradesOK, UpgradeOK, PhaseOK, StepOK, CleanOK, UndoOK, Upgrading, UpgradeEndsWhole,
                          CompleteIsNew, EndsUniform, EndsRunning, Was
<1> QED BY <1>6, <1>7
-----------------------------------------------------------------------------
(* Restores *)

\* The parts about another kind of action say nothing.
LEMMA NotUpgrade ==
  ASSUME rec' # None => rec'.kind # "upgrade"
  PROVE  UpgradesOK'
BY DEF UpgradesOK, UpgradeOK, PhaseOK, StepOK, CleanOK, UndoOK, Upgrading, Open, UpgradeEndsWhole, CompleteIsNew, EndsUniform,
       EndsRunning, Was

LEMMA NotRestore ==
  ASSUME rec' # None => rec'.kind # "restore"
  PROVE  RestoresOK'
BY DEF RestoresOK, RestoreOK, RestoringOK, RestoreUndoOK, RestoreStartOK, RestorePruneOK, Restoring, Open,
       RestoreOutcomeIsTrue, Was

\* The targets are the canisters a snapshot is chosen for.
LEMMA TargetsAre ==
  ASSUME NEW r
  PROVE  Targets(r) \in Seq(Canister) /\ ToSet(Targets(r)) = {c \in Canister : r.choice[c] # 0}
<1>1. /\ Targets(r) \in Seq(Canister)
      /\ ToSet(Targets(r)) = ToSet(Canisters) \cap {c \in Canister : r.choice[c] # 0}
  BY PickedAre, Lists DEF Targets
<1> QED BY <1>1 DEF Canister

\* A restore that ended tells the truth.
LEMMA EndedRestore ==
  ASSUME run' = None, rec' # None, rec'.kind = "restore", rec'.status \in Terminal,
         rec'.status = "COMPLETE" =>
           \A c \in Canister : rec'.choice[c] # 0 => c \in running' /\ module'[c] = taken'[c][rec'.choice[c]].module,
         rec'.status = "ROLLED_BACK" =>
           module' = before'.module /\ \A c \in Canister : rec'.choice[c] # 0 => c \in running'
  PROVE  RestoresOK'
<1>1. ~Open' BY DEF Open
<1>2. RestoreOK' /\ RestoringOK' /\ RestoreUndoOK' /\ RestoreStartOK' /\ RestorePruneOK'
  BY <1>1 DEF RestoreOK, RestoringOK, RestoreUndoOK, RestoreStartOK, RestorePruneOK, Restoring
<1>3. ToSet(Targets(rec')) = {c \in Canister : rec'.choice[c] # 0} BY TargetsAre
<1>4. ToSet(Targets(rec))' = {c \in Canister : rec'.choice[c] # 0} BY <1>3 DEF Targets, ToSet
<1>5. RestoreOutcomeIsTrue' BY <1>4 DEF RestoreOutcomeIsTrue, Was
<1> QED BY <1>2, <1>5 DEF RestoresOK

\* While it is open, the parts about it are to be shown.
LEMMA OpenRestore ==
  ASSUME TypesOK', rec' # None, rec'.status \in OpenStatus("restore"),
         RestoreOK', RestoringOK', RestoreUndoOK', RestoreStartOK', RestorePruneOK'
  PROVE  RestoresOK'
<1>1. rec'.status \notin Terminal BY PhasesDisjoint
<1>2. RestoreOutcomeIsTrue' BY <1>1 DEF RestoreOutcomeIsTrue, Was, Terminal
<1> QED BY <1>2 DEF RestoresOK

\* It is filed and approved.
LEMMA ApprovesR ==
  ASSUME TypesOK, NEW r \in Record, r.index = 0, r.load = 0, r.status = "APPROVED", r.kind = "restore",
         \A c \in Canister : r.choice[c] # 0 => r.choice[c] \in 1..Len(taken[c]), Approves(r),
         store' \in [File -> InStore]
  PROVE  RestoresOK'
<1>1. /\ rec' = r /\ run' = None /\ module' = module /\ taken' = taken
      /\ before' = [module |-> module, running |-> running]
  BY DEF Approves, canisters
<1>2. TypesOK' BY ApprovesT
<1>3. rec' # None BY <1>1, NoneAssumption
<1>4. RestoreOK' BY <1>1 DEF RestoreOK, Chosen
<1>5. RestoringOK' /\ RestoreUndoOK' /\ RestoreStartOK' /\ RestorePruneOK'
  BY <1>1 DEF RestoringOK, RestoreUndoOK, RestoreStartOK, RestorePruneOK
<1> QED BY <1>1, <1>2, <1>3, <1>4, <1>5, PhasesAre, OpenRestore

\* The calls of a restore as it begins.
LEMMA RestoreCallsAre ==
  ASSUME NEW r
  PROVE  /\ RestoreCalls(r) \in Seq(Asked("RESTORING"))
         /\ ComesLast("load", RestoreCalls(r))
         /\ \A c \in Canister : r.choice[c] # 0 => Due("snapshot", c, RestoreCalls(r)) /\ Due("load", c, RestoreCalls(r))
<1> DEFINE A == Asked("RESTORING")
           cs == Targets(r)
           stops == Calls("stop", cs)
           takes == Calls("snapshot", cs)
           loads == Calls("load", cs)
<1>1. cs \in Seq(Canister) /\ ToSet(cs) = {c \in Canister : r.choice[c] # 0} BY TargetsAre
<1>2. RestoreCalls(r) = stops \o takes \o loads BY DEF RestoreCalls
<1> HIDE DEF cs
<1>3. stops \in Seq(A) /\ takes \in Seq(A) /\ loads \in Seq(A) BY <1>1, OpsAre, CallsAre
<1>4. /\ \A i \in 1..Len(stops) : stops[i].op = "stop"
      /\ \A i \in 1..Len(takes) : takes[i].op = "snapshot"
      /\ \A i \in 1..Len(loads) : loads[i].op = "load"
      /\ \A c : Due("snapshot", c, takes) <=> c \in ToSet(cs)
      /\ \A c : Due("load", c, loads) <=> c \in ToSet(cs)
  BY <1>1, CallsElements
<1>5. ComesLast("load", loads) BY <1>4, AllLast
<1> HIDE DEF A, stops, takes, loads
<1> DEFINE both == stops \o takes
<1>6. /\ both \in Seq(A) /\ \A i \in 1..Len(both) : both[i].op # "load"
      /\ \A c : c \in ToSet(cs) => Due("snapshot", c, both)
  <2>1. /\ \A i \in 1..Len(stops) : stops[i].op # "load"
        /\ \A i \in 1..Len(takes) : takes[i].op # "load"
    BY <1>4
  <2> QED BY <1>3, <1>4, <2>1, DueConcat
<1> HIDE DEF both
<1>7. /\ both \o loads \in Seq(A) /\ ComesLast("load", both \o loads)
      /\ \A c : c \in ToSet(cs) => Due("snapshot", c, both \o loads) /\ Due("load", c, both \o loads)
  BY <1>3, <1>4, <1>5, <1>6, DueConcat
<1> QED BY <1>1, <1>2, <1>7 DEF both, A

\* It begins, or was interrupted.
LEMMA BeginRestoreR ==
  ASSUME TypesOK, RestoresOK, BeginRestore
  PROVE  TypesOK' /\ RestoresOK' /\ rec' # None /\ rec'.kind = "restore"
<1>1. /\ Open /\ run = None /\ rec.kind = "restore" /\ rec # None
      /\ UNCHANGED <<canisters, assets, store, origins, filed, before, budget>>
  BY DEF BeginRestore, Open
<1>2. rec \in Record /\ CursorOK(rec) BY <1>1 DEF TypesOK, RecordOK
<1>3. /\ \A c \in Canister : rec.choice[c] # 0 => rec.choice[c] \in 1..Len(taken[c])
      /\ rec.status = "APPROVED" => module = before.module
  BY <1>1 DEF RestoresOK, RestoreOK, Restoring, Chosen
<1>4. module' = module /\ running' = running /\ taken' = taken /\ kept' = kept /\ before' = before
  BY <1>1 DEF canisters
<1>5. Succeeds /\ CanistersOK' BY <1>1, CanistersStay DEF Succeeds
<1>6. CASE /\ rec.status = "APPROVED" /\ rec' = [rec EXCEPT !.status = "RESTORING"]
           /\ run' = Doing("RESTORING", rec', RestoreCalls(rec))
  <2> DEFINE m == [rec EXCEPT !.status = "RESTORING"]
  <2>1. "RESTORING" \in Status BY DEF Status
  <2>2. /\ m \in Record /\ m.kind = "restore" /\ m.status = "RESTORING" /\ m.index = rec.index /\ m.load = rec.load
        /\ m.choice = rec.choice /\ m.refs = rec.refs
    BY <1>1, <1>2, <2>1 DEF Record
  <2>a. rec' = m BY <1>6
  <2> HIDE DEF m
  <2>3. CursorOK(m) BY <1>1, <1>2, <2>2 DEF CursorOK
  <2>4. /\ m.status \in OpenStatus(m.kind) \ {"APPROVED"} /\ "RESTORING" \in PhasesOf(m.kind)
        /\ m.status \in OpenStatus("restore")
    BY <2>2, PhasesAre
  <2>5. /\ RestoreCalls(rec) \in Seq(Asked("RESTORING")) /\ ComesLast("load", RestoreCalls(rec))
        /\ \A c \in Canister : rec.choice[c] # 0 =>
             Due("snapshot", c, RestoreCalls(rec)) /\ Due("load", c, RestoreCalls(rec))
    BY RestoreCallsAre
  <2>6. /\ RecordOK' /\ ExecutorOK' /\ run' # None /\ run'.at = "RESTORING" /\ run'.mem = m
        /\ run'.todo = RestoreCalls(rec) /\ run'.noted = {} /\ run'.problems = 0
    BY <1>6, <2>a, <2>2, <2>3, <2>4, <2>5, BeginsT
  <2>7. TypesOK' BY <1>1, <1>5, <2>6, StepTypes
  <2>8. RestoreOK' BY <1>3, <1>4, <2>a, <2>2 DEF RestoreOK, Chosen
  <2>9. RestoringOK' BY <1>3, <1>4, <1>6, <2>a, <2>2, <2>5, <2>6 DEF RestoringOK, Chosen
  <2>10. RestoreUndoOK' /\ RestoreStartOK' /\ RestorePruneOK'
    BY <2>6 DEF RestoreUndoOK, RestoreStartOK, RestorePruneOK
  <2>11. rec' # None BY <2>a, <2>2, NoneAssumption
  <2> QED BY <2>a, <2>2, <2>4, <2>7, <2>8, <2>9, <2>10, <2>11, OpenRestore
<1>7. CASE rec.status = "RESTORING" /\ rec' = [rec EXCEPT !.status = "NEEDS_ATTENTION"] /\ UNCHANGED run
  <2>1. "NEEDS_ATTENTION" \in Terminal BY DEF Terminal
  <2>2. Ends(rec, "NEEDS_ATTENTION") BY <1>1, <1>7 DEF Ends, Saves
  <2>3. RecordOK' /\ ExecutorOK' /\ rec' \in Record /\ rec'.status = "NEEDS_ATTENTION" /\ rec'.kind = "restore" /\ run' = None
    BY <1>1, <1>2, <2>1, <2>2, SaveTypes
  <2>4. TypesOK' /\ rec' # None BY <1>1, <1>5, <2>3, StepTypes, NoneAssumption
  <2> QED BY <2>1, <2>3, <2>4, EndedRestore
<1> QED BY <1>6, <1>7 DEF BeginRestore

\* What holds of the executor of a restore.
LEMMA OfRestore ==
  ASSUME TypesOK, RestoresOK, run # None, rec.kind = "restore"
  PROVE  /\ Open /\ rec # None /\ rec \in Record /\ run.mem \in Record /\ CursorOK(run.mem) /\ run.mem.kind = "restore"
         /\ run.mem.choice = rec.choice /\ run.mem.status = rec.status /\ rec.status # "APPROVED"
         /\ rec.status \in OpenStatus("restore") /\ run.todo \in Seq(Asked(run.at)) /\ CanistersOK
         /\ run.todo # <<>> => Call.cid \in Canister /\ Call \in [op : OpsOf(run.at), cid : Canister]
         /\ \A c \in Canister : rec.choice[c] # 0 => rec.choice[c] \in 1..Len(taken[c])
         /\ run.at = "RESTORING" =>
              /\ run.problems = 0 /\ ComesLast("load", run.todo) /\ run.noted \subseteq Chosen
              /\ run.noted # {} => \A i \in 1..Len(run.todo) : run.todo[i].op = "load"
              /\ \A c \in Canister : c \in run.noted \/ module[c] = before.module[c]
              /\ \A c \in Chosen : /\ Due("snapshot", c, run.todo) \/ WayBack(c)
                                   /\ Due("load", c, run.todo) \/ Restored(c)
<1>1. /\ Open /\ rec # None /\ rec \in Record /\ run.mem \in Record /\ CursorOK(run.mem) /\ run.mem.kind = "restore"
      /\ run.mem.choice = rec.choice /\ run.mem.status = rec.status /\ rec.status # "APPROVED"
      /\ rec.status \in OpenStatus("restore") /\ run.todo \in Seq(Asked(run.at)) /\ run.at \in PhasesOf("restore")
      /\ run.todo # <<>> =>
           Call.cid \in Canister /\ (run.at # "PROVISIONING" => Call \in [op : OpsOf(run.at), cid : Canister])
  BY Executing, ExecutorIs
<1>2. run.at # "PROVISIONING" BY <1>1, PhasesAre
<1>3. /\ \A c \in Canister : rec.choice[c] # 0 => rec.choice[c] \in 1..Len(taken[c])
      /\ run.at = "RESTORING" =>
           /\ run.problems = 0 /\ ComesLast("load", run.todo) /\ run.noted \subseteq Chosen
           /\ run.noted # {} => \A i \in 1..Len(run.todo) : run.todo[i].op = "load"
           /\ \A c \in Canister : c \in run.noted \/ module[c] = before.module[c]
           /\ \A c \in Chosen : /\ Due("snapshot", c, run.todo) \/ WayBack(c)
                                /\ Due("load", c, run.todo) \/ Restored(c)
  BY <1>1 DEF RestoresOK, RestoreOK, RestoringOK, Restoring, Chosen
<1>4. CanistersOK BY DEF TypesOK, ChainOK
<1> QED BY <1>1, <1>2, <1>3, <1>4

\* A call of the restore that succeeds.
LEMMA RestoreCallR ==
  ASSUME TypesOK, RestoresOK, RestoreCallSucceeds
  PROVE  TypesOK' /\ RestoresOK' /\ rec' # None /\ rec'.kind = "restore"
<1>1. /\ run # None /\ run.at = "RESTORING" /\ run.todo # <<>> /\ rec' = rec /\ Succeeds
      /\ UNCHANGED <<assets, store, origins, filed, before>>
  BY DEF RestoreCallSucceeds, Calling, At
<1>2. rec.kind = "restore" BY <1>1, KindOfPhase, PhasesAre
<1>3. /\ Open /\ rec # None /\ rec \in Record /\ run.mem \in Record /\ run.mem.choice = rec.choice
      /\ rec.status # "APPROVED" /\ rec.status \in OpenStatus("restore") /\ run.todo \in Seq(Asked(run.at))
      /\ CanistersOK /\ Call.cid \in Canister /\ before' = before
      /\ \A d \in Canister : rec.choice[d] # 0 => rec.choice[d] \in 1..Len(taken[d])
  BY <1>1, <1>2, OfRestore
<1>c. PICK c \in Canister : c = Call.cid BY <1>3
<1>4. /\ run.problems = 0 /\ ComesLast("load", run.todo) /\ run.noted \subseteq Chosen
      /\ run.noted # {} => \A i \in 1..Len(run.todo) : run.todo[i].op = "load"
      /\ \A d \in Canister : d \in run.noted \/ module[d] = before.module[d]
      /\ \A d \in Chosen : /\ Due("snapshot", d, run.todo) \/ WayBack(d)
                           /\ Due("load", d, run.todo) \/ Restored(d)
  BY <1>1, <1>2, OfRestore
<1>5. /\ ComesLast("load", Tail(run.todo))
      /\ Call.op = "load" => \A i \in 1..Len(Tail(run.todo)) : Tail(run.todo)[i].op = "load"
      /\ \A op, d : Due(op, d, run.todo) => (Call.op = op /\ c = d) \/ Due(op, d, Tail(run.todo))
  <2>1. ComesLast("load", Tail(run.todo)) BY <1>1, <1>3, <1>4, LastTail
  <2>2. Call.op = "load" => \A i \in 1..Len(Tail(run.todo)) : Tail(run.todo)[i].op = "load"
    BY <1>1, <1>3, <1>4, LastTail DEF Call
  <2>3. \A op, d : Due(op, d, run.todo) => (Call.op = op /\ c = d) \/ Due(op, d, Tail(run.todo))
    BY <1>c, <1>1, <1>3, DueTail DEF Call
  <2> QED BY <2>1, <2>2, <2>3
<1>6. run.noted # {} => Call.op = "load"
  <2>1. 1 \in 1..Len(run.todo) /\ Head(run.todo) = run.todo[1] BY <1>1, <1>3
  <2> QED BY <1>4, <2>1 DEF Call
<1>7. Chosen' = Chosen /\ Chosen \subseteq Canister BY <1>1 DEF Chosen
\* What is to be shown of each call.
<1>8. ASSUME TypesOK', run' # None, run'.at = run.at, run'.problems = run.problems, ComesLast("load", run'.todo),
             run'.noted \subseteq Chosen, run'.noted # {} => \A i \in 1..Len(run'.todo) : run'.todo[i].op = "load",
             \A d \in Canister : d \in run'.noted \/ module'[d] = before.module[d],
             \A d \in Chosen : /\ Due("snapshot", d, run'.todo) \/ WayBack(d)'
                               /\ Due("load", d, run'.todo) \/ Restored(d)',
             \A d \in Canister : Len(taken[d]) \in Nat /\ Len(taken'[d]) \in Nat /\ Len(taken[d]) <= Len(taken'[d])
      PROVE  RestoresOK'
  <2>1. RestoreOK'
    <3>1. \A d \in Canister : rec.choice[d] # 0 => rec.choice[d] \in 1..Len(taken'[d]) BY <1>3, <1>8
    <3> QED BY <1>1, <1>3, <3>1 DEF RestoreOK, Chosen
  <2>2. RestoringOK' BY <1>3, <1>4, <1>7, <1>8 DEF RestoringOK
  <2>3. RestoreUndoOK' /\ RestoreStartOK' /\ RestorePruneOK'
    BY <1>1, <1>8 DEF RestoreUndoOK, RestoreStartOK, RestorePruneOK
  <2> QED BY <1>1, <1>3, <1>8, <2>1, <2>2, <2>3, OpenRestore
<1>9. ASSUME Call.op = "stop", StopCanister(c), Answered(run) PROVE TypesOK' /\ RestoresOK'
  <2>1. /\ RecordOK' /\ ExecutorOK' /\ run' # None /\ run'.at = run.at /\ run'.mem = run.mem
        /\ run'.todo = Tail(run.todo) /\ run'.noted = run.noted /\ run'.problems = run.problems
    BY <1>1, <1>9, PlainAnswers
  <2>2. CanistersOK' BY <1>3, <1>9, CallTypes DEF Changes
  <2>3. TypesOK' BY <1>1, <2>1, <2>2, StepTypes
  <2>4. module' = module /\ taken' = taken /\ kept' = kept BY <1>9 DEF StopCanister
  <2>5. \A d : (WayBack(d)' <=> WayBack(d)) /\ (Restored(d)' <=> Restored(d))
    BY <1>1, <2>1, <2>4 DEF WayBack, Restored
  <2>6. \A d \in Canister : Len(taken[d]) \in Nat BY <1>3, KeptFinite
  <2>7. run.noted = {} BY <1>6, <1>9
  <2> QED BY <1>4, <1>5, <1>8, <1>9, <2>1, <2>3, <2>4, <2>5, <2>6, <2>7
<1>10. ASSUME Call.op = "snapshot", TakeSnapshot(c),
              Answered([run EXCEPT !.mem.refs[Call.cid] = Len(taken'[Call.cid])])
       PROVE  TypesOK' /\ RestoresOK'
  <2>k. PICK k : k = Len(taken'[c]) OBVIOUS
  <2>1. /\ CanistersOK' /\ SameTaken /\ module' = module
        /\ taken'[c][k].module = module[c] /\ k \in kept'[c] /\ k \in Nat \ {0}
        /\ \A d \in Canister \ {c} : taken'[d] = taken[d] /\ kept'[d] = kept[d]
    BY <1>3, <1>10, <2>k, TakingIs
  <2>2. Answered([run EXCEPT !.mem.refs[Call.cid] = k]) BY <1>c, <1>10, <2>k
  <2>3. /\ RecordOK' /\ ExecutorOK'
        /\ run' # None /\ run'.at = run.at /\ run'.todo = Tail(run.todo)
        /\ run'.mem.refs = [run.mem.refs EXCEPT ![c] = k]
        /\ run'.noted = run.noted /\ run'.problems = run.problems
    BY <1>c, <1>1, <2>1, <2>2, SnapshotAnswers 
  <2>4. TypesOK' BY <1>1, <2>1, <2>3, StepTypes
  <2>5. run.mem.refs \in [Canister -> Nat] BY <1>3 DEF Record
  <2>6. run'.mem.refs[c] = k /\ \A d \in Canister \ {c} : run'.mem.refs[d] = run.mem.refs[d] BY <1>3, <2>3, <2>5
  <2>7. run.noted = {} BY <1>6, <1>10
  <2>8. WayBack(c)' BY <1>3, <1>4, <2>1, <2>6, <2>7 DEF WayBack
  <2>9. \A d \in Canister \ {c} : WayBack(d) => WayBack(d)' BY <1>3, <2>1, <2>6 DEF WayBack
  <2>10. \A d \in Chosen : Restored(d) => Restored(d)'
    <3> SUFFICES ASSUME NEW d \in Chosen, Restored(d) PROVE Restored(d)' OBVIOUS
    <3>1. d \in Canister /\ rec.choice[d] \in 1..Len(taken[d]) BY <1>3 DEF Chosen
    <3>2. taken'[d][rec.choice[d]] = taken[d][rec.choice[d]] BY <2>1, <3>1 DEF SameTaken
    <3> QED BY <1>1, <2>1, <3>2 DEF Restored
  <2>11. \A d \in Chosen : /\ Due("snapshot", d, run'.todo) \/ WayBack(d)'
                           /\ Due("load", d, run'.todo) \/ Restored(d)'
    BY <1>4, <1>5, <1>7, <1>10, <2>3, <2>8, <2>9, <2>10
  <2>12. \A d \in Canister : Len(taken[d]) \in Nat /\ Len(taken'[d]) \in Nat /\ Len(taken[d]) <= Len(taken'[d])
    <3>1. \A d \in Canister : taken[d] \in Seq(Snapshot) /\ taken'[d] \in Seq(Snapshot) BY <1>3, <2>1 DEF CanistersOK
    <3>2. \A d \in Canister : Len(taken[d]) \in Nat /\ Len(taken'[d]) \in Nat BY <3>1
    <3> QED BY <2>1, <3>2 DEF SameTaken
  <2> QED BY <1>4, <1>5, <1>8, <2>1, <2>3, <2>4, <2>7, <2>11, <2>12
<1>11. ASSUME Call.op = "load", LoadSnapshot(c, run.mem.choice[c]),
              Answered([run EXCEPT !.noted = @ \cup {Call.cid}])
       PROVE  TypesOK' /\ RestoresOK'
  <2>1. /\ RecordOK' /\ ExecutorOK' /\ run' # None /\ run'.at = run.at /\ run'.mem = run.mem
        /\ run'.todo = Tail(run.todo) /\ run'.noted = run.noted \cup {c} /\ run'.problems = run.problems
    BY <1>c, <1>1, <1>11, NotedAnswers 
  <2>2. /\ CanistersOK' /\ rec.choice[c] \in 1..Len(taken[c])
        /\ module' = [module EXCEPT ![c] = taken[c][rec.choice[c]].module]
        /\ taken' = taken /\ kept' = kept
    BY <1>3, <1>11, LoadingIs
  <2>3. TypesOK' BY <1>1, <2>1, <2>2, StepTypes
  <2>4. module \in [Canister -> Version] BY <1>3 DEF CanistersOK
  <2>5. module'[c] = taken[c][rec.choice[c]].module /\ \A d \in Canister \ {c} : module'[d] = module[d]
    BY <1>3, <2>2, <2>4
  <2>6. c \in Chosen BY <1>3, <2>2 DEF Chosen
  <2>7. \A d : WayBack(d) => WayBack(d)' BY <1>1, <2>1, <2>2 DEF WayBack
  <2>8. Restored(c)' /\ \A d \in Canister \ {c} : Restored(d) => Restored(d)' BY <1>1, <2>2, <2>5 DEF Restored
  <2>9. \A d \in Chosen : /\ Due("snapshot", d, run'.todo) \/ WayBack(d)'
                          /\ Due("load", d, run'.todo) \/ Restored(d)'
    BY <1>4, <1>5, <1>7, <1>11, <2>1, <2>7, <2>8
  <2>10. \A d \in Canister : d \in run'.noted \/ module'[d] = before.module[d] BY <1>4, <2>1, <2>5
  <2>11. \A d \in Canister : Len(taken[d]) \in Nat BY <1>3, KeptFinite
  <2>12. run'.noted # {} => \A i \in 1..Len(run'.todo) : run'.todo[i].op = "load" BY <1>5, <1>11, <2>1
  <2> QED BY <1>4, <1>5, <1>8, <2>1, <2>2, <2>3, <2>6, <2>9, <2>10, <2>11, <2>12
<1> QED
  <2>1. \/ Call.op = "stop" /\ StopCanister(c) /\ Answered(run)
        \/ /\ Call.op = "snapshot" /\ TakeSnapshot(c)
           /\ Answered([run EXCEPT !.mem.refs[Call.cid] = Len(taken'[Call.cid])])
        \/ /\ Call.op = "load" /\ LoadSnapshot(c, run.mem.choice[c])
           /\ Answered([run EXCEPT !.noted = @ \cup {Call.cid}])
    BY <1>c DEF RestoreCallSucceeds
  <2> QED BY <1>1, <1>2, <1>3, <1>9, <1>10, <1>11, <2>1

LEMMA ExecutorTurns ==
  ASSUME TypesOK, run # None, NEW x, NEW y, NEW z
  PROVE  /\ [run EXCEPT !.at = x, !.todo = y]
              = [at |-> x, mem |-> run.mem, todo |-> y, noted |-> run.noted, problems |-> run.problems, end |-> run.end]
         /\ [run EXCEPT !.at = x, !.problems = z, !.todo = y]
              = [at |-> x, mem |-> run.mem, todo |-> y, noted |-> run.noted, problems |-> z, end |-> run.end]
<1>1. PICK r, a, m, t, n, p, e :
        /\ r = run /\ a = run.at /\ m = run.mem /\ t = run.todo /\ n = run.noted /\ p = run.problems /\ e = run.end
        /\ r = [at |-> a, mem |-> m, todo |-> t, noted |-> n, problems |-> p, end |-> e]
  BY ExecutorIs
<1>2. [r EXCEPT !.at = x] = [at |-> x, mem |-> m, todo |-> t, noted |-> n, problems |-> p, end |-> e] BY <1>1
<1>3. [[at |-> x, mem |-> m, todo |-> t, noted |-> n, problems |-> p, end |-> e] EXCEPT !.problems = z]
        = [at |-> x, mem |-> m, todo |-> t, noted |-> n, problems |-> z, end |-> e]
  OBVIOUS
<1>4. \A k : [[at |-> x, mem |-> m, todo |-> t, noted |-> n, problems |-> k, end |-> e] EXCEPT !.todo = y]
              = [at |-> x, mem |-> m, todo |-> y, noted |-> n, problems |-> k, end |-> e]
  OBVIOUS
<1>5. [[r EXCEPT !.at = x] EXCEPT !.todo = y]
        = [at |-> x, mem |-> m, todo |-> y, noted |-> n, problems |-> p, end |-> e]
  BY <1>2, <1>4
<1>6. [[[r EXCEPT !.at = x] EXCEPT !.problems = z] EXCEPT !.todo = y]
        = [at |-> x, mem |-> m, todo |-> y, noted |-> n, problems |-> z, end |-> e]
  BY <1>2, <1>3, <1>4
<1>7. /\ [r EXCEPT !.at = x, !.todo = y]
           = [at |-> x, mem |-> m, todo |-> y, noted |-> n, problems |-> p, end |-> e]
      /\ [r EXCEPT !.at = x, !.problems = z, !.todo = y]
           = [at |-> x, mem |-> m, todo |-> y, noted |-> n, problems |-> z, end |-> e]
  BY <1>5, <1>6
<1> QED BY <1>1, <1>7, Zenon

\* The executor goes on with other calls, in another phase.
LEMMA GoesOn ==
  ASSUME TypesOK, run # None, rec' = rec, rec.kind # "upgrade", NEW at \in PhasesOf(rec.kind),
         NEW todo \in Seq(Asked(at)), NEW p \in 0..2,
         run' = [at |-> at, mem |-> run.mem, todo |-> todo, noted |-> run.noted, problems |-> p, end |-> run.end]
  PROVE  /\ RecordOK' /\ ExecutorOK'
         /\ run' # None /\ run'.at = at /\ run'.mem = run.mem /\ run'.todo = todo /\ run'.noted = run.noted
                           /\ run'.problems = p
<1>1. /\ run.mem \in Record /\ Open /\ CursorOK(run.mem) /\ run.mem.kind = rec.kind /\ run.mem.status = rec.status
      /\ run.mem.version = rec.version /\ run.mem.choice = rec.choice /\ run.mem.index = rec.index
      /\ rec.status # "APPROVED" /\ run.noted \in SUBSET Canister /\ run.end \in Terminal \cup {None}
      /\ rec.kind \in {"upgrade", "restore", "provision"}
  BY Executing, ExecutorIs
<1>2. at \in Phase BY <1>1, InPhases
<1> DEFINE e == [at |-> at, mem |-> run.mem, todo |-> todo, noted |-> run.noted, problems |-> p, end |-> run.end]
<1>3. e \in [at : Phase, mem : Record, todo : Seq(Asked(at)), noted : SUBSET Canister,
             problems : 0..2, end : Terminal \cup {None}]
  BY <1>1, <1>2
<1>4. /\ e.at = at /\ e.mem = run.mem /\ e.todo = todo /\ e.noted = run.noted /\ e.problems = p
      /\ run' = e
  OBVIOUS
<1> HIDE DEF e
<1>5. e # None BY <1>2, <1>3, IsExecutor
<1>6. Open' BY <1>1 DEF Open
<1>7. RecordOK' BY <1>1 DEF TypesOK, RecordOK
<1>8. ExecutorOK' BY <1>1, <1>3, <1>4, <1>5, <1>6 DEF ExecutorOK
<1> QED BY <1>4, <1>5, <1>7, <1>8

\* What holds of its executor in the other phases.
LEMMA OfRestoreLater ==
  ASSUME TypesOK, RestoresOK, run # None, rec.kind = "restore"
  PROVE  /\ run.at = "RESTORE_UNDO" =>
              /\ run.problems \in {1, 2}
              /\ \A c \in Canister : Due("load", c, run.todo) => WayBack(c)
              /\ run.problems = 1 =>
                   /\ \A c \in Canister : module[c] = before.module[c] \/ Due("load", c, run.todo)
                   /\ \A c \in Chosen : c \in running \/ Due("start", c, run.todo)
         /\ run.at = "RESTORE_START" /\ run.problems = 0 =>
              \A c \in Chosen : Restored(c) /\ (c \in running \/ Due("start", c, run.todo))
         /\ run.at = "RESTORE_PRUNE" => \A c \in Chosen : Restored(c) /\ c \in running
<1>1. Open BY OfRestore
<1>2. run.problems \in 0..2 BY ExecutorIs
<1>3. run.problems > 0 => run.problems \in {1, 2} BY <1>2
<1> QED BY <1>1, <1>3 DEF RestoresOK, RestoreUndoOK, RestoreStartOK, RestorePruneOK, Restoring

\* What is open and taken stays so while its snapshots do.
LEMMA RestoreStays ==
  ASSUME TypesOK, RestoresOK, run # None, rec.kind = "restore", rec' = rec, taken' = taken, before' = before,
         TypesOK', RestoringOK', RestoreUndoOK', RestoreStartOK', RestorePruneOK'
  PROVE  RestoresOK' /\ rec' # None /\ rec'.kind = "restore"
<1>1. /\ Open /\ rec # None /\ rec.status # "APPROVED" /\ rec.status \in OpenStatus("restore")
      /\ \A c \in Canister : rec.choice[c] # 0 => rec.choice[c] \in 1..Len(taken[c])
  BY OfRestore
<1>2. RestoreOK' BY <1>1 DEF RestoreOK, Chosen
<1> QED BY <1>1, <1>2, OpenRestore

\* The first failure: what was loaded is to be put back.
LEMMA RestoreFailsR ==
  ASSUME TypesOK, RestoresOK, RestoreCallFails
  PROVE  TypesOK' /\ RestoresOK' /\ rec' # None /\ rec'.kind = "restore"
<1> DEFINE T == Targets(run.mem)
           back == Having(T, run.noted)
           loads == Calls("load", back)
           starts == StartTargets(run.mem)
           todo == loads \o starts
           A == Asked("RESTORE_UNDO")
<1>1. /\ run # None /\ run.at = "RESTORING" /\ run.todo # <<>> /\ rec' = rec /\ (Succeeds \/ Fails)
      /\ UNCHANGED <<canisters, assets, store, origins, filed, before>>
      /\ run' = [run EXCEPT !.at = "RESTORE_UNDO", !.problems = 1, !.todo = todo]
  BY DEF RestoreCallFails, Calling, At, FailsOr, Refused, Succeeds
<1>2. rec.kind = "restore" BY <1>1, KindOfPhase, PhasesAre
<1>3. /\ Open /\ run.mem.choice = rec.choice /\ CanistersOK
      /\ run.noted \subseteq Chosen /\ (run.noted # {} => \A i \in 1..Len(run.todo) : run.todo[i].op = "load")
      /\ \A d \in Canister : d \in run.noted \/ module[d] = before.module[d]
      /\ \A d \in Chosen : Due("snapshot", d, run.todo) \/ WayBack(d)
  BY <1>1, <1>2, OfRestore
<1>4. T \in Seq(Canister) /\ ToSet(T) = Chosen
  <2>1. run.mem.choice = rec.choice BY <1>3
  <2>2. T \in Seq(Canister) /\ ToSet(T) = {c \in Canister : run.mem.choice[c] # 0} BY TargetsAre
  <2> QED BY <2>1, <2>2 DEF Chosen
<1> HIDE DEF T
<1>5. back \in Seq(Canister) /\ ToSet(back) = run.noted
  <2>1. Having(T, run.noted) \in Seq(Canister) /\ ToSet(Having(T, run.noted)) = ToSet(T) \cap run.noted
    BY <1>4, PickedAre
  <2> QED BY <1>3, <1>4, <2>1
<1>6. /\ loads \in Seq(A) /\ starts \in Seq(A)
      /\ \A d : Due("load", d, loads) <=> d \in run.noted
      /\ \A d : Due("start", d, starts) <=> d \in Chosen
      /\ \A d : ~Due("load", d, starts)
  <2> HIDE DEF back
  <2>1. loads \in Seq(A) BY <1>5, OpsAre, CallsAre
  <2>4. \A d : Due("load", d, loads) <=> d \in ToSet(back) BY <1>5, CallsElements
  <2>3. \A d : Due("load", d, loads) <=> d \in run.noted BY <1>5, <2>4
  <2>2. /\ starts \in Seq(A) /\ \A d : Due("start", d, starts) <=> d \in Chosen
        /\ \A d : ~Due("load", d, starts)
    BY <1>4, OpsAre, CallsAre, CallsElements DEF StartTargets, T
  <2> QED BY <2>1, <2>2, <2>3
<1> HIDE DEF loads, starts, A
<1>7. /\ todo \in Seq(A)
      /\ \A d : Due("load", d, todo) <=> d \in run.noted
      /\ \A d : d \in Chosen => Due("start", d, todo)
  <2>1. loads \in Seq(A) /\ starts \in Seq(A) BY <1>6
  <2>2. todo \in Seq(A) /\ \A op, d : Due(op, d, todo) <=> Due(op, d, loads) \/ Due(op, d, starts) BY <2>1, DueConcat
  <2> HIDE DEF todo
  <2> QED BY <1>6, <2>2
<1> HIDE DEF todo
<1>8. run' = [at |-> "RESTORE_UNDO", mem |-> run.mem, todo |-> todo, noted |-> run.noted, problems |-> 1, end |-> run.end]
  BY <1>1, ExecutorTurns, ZenonT(40)
<1>9. /\ RecordOK' /\ ExecutorOK' /\ run' # None /\ run'.at = "RESTORE_UNDO" /\ run'.mem = run.mem /\ run'.todo = todo
      /\ run'.noted = run.noted /\ run'.problems = 1
  <2>1. "RESTORE_UNDO" \in PhasesOf(rec.kind) /\ rec.kind # "upgrade" /\ 1 \in 0..2 BY <1>2, PhasesAre
  <2> QED BY <1>1, <1>7, <1>8, <2>1, GoesOn DEF A
<1>10. TypesOK' BY <1>1, <1>9, CanistersStay, StepTypes
<1>11. module' = module /\ taken' = taken /\ kept' = kept BY <1>1 DEF canisters
<1>12. ASSUME NEW d \in run.noted PROVE WayBack(d)'
  <2>1. d \in Chosen /\ ~Due("snapshot", d, run.todo) BY <1>3, OnlyDue
  <2>2. WayBack(d) BY <1>3, <2>1
  <2> QED BY <1>1, <1>9, <1>11, <2>2 DEF WayBack
<1>13. Chosen' = Chosen BY <1>1 DEF Chosen
<1>14. RestoreUndoOK' BY <1>1, <1>3, <1>7, <1>9, <1>11, <1>12, <1>13 DEF RestoreUndoOK
<1>15. RestoringOK' /\ RestoreStartOK' /\ RestorePruneOK' BY <1>9 DEF RestoringOK, RestoreStartOK, RestorePruneOK
<1> QED BY <1>1, <1>2, <1>10, <1>11, <1>14, <1>15, RestoreStays

\* The targets are loaded: they are to be started.
LEMMA RestoreLoadedR ==
  ASSUME TypesOK, RestoresOK, RestoreLoaded
  PROVE  TypesOK' /\ RestoresOK' /\ rec' # None /\ rec'.kind = "restore"
<1> DEFINE starts == StartTargets(run.mem)
<1>1. /\ run # None /\ run.at = "RESTORING" /\ run.todo = <<>> /\ rec' = rec /\ Succeeds
      /\ UNCHANGED <<canisters, assets, store, origins, filed, before>>
      /\ run' = [run EXCEPT !.at = "RESTORE_START", !.todo = starts]
  BY DEF RestoreLoaded, Called, At, Succeeds
<1>2. rec.kind = "restore" BY <1>1, KindOfPhase, PhasesAre
<1>3. /\ Open /\ run.mem.choice = rec.choice /\ run.problems = 0
      /\ \A d \in Chosen : Due("load", d, run.todo) \/ Restored(d)
  BY <1>1, <1>2, OfRestore
<1>4. Targets(run.mem) \in Seq(Canister) /\ ToSet(Targets(run.mem)) = Chosen BY <1>3, TargetsAre DEF Chosen
<1>5. starts \in Seq(Asked("RESTORE_START")) /\ \A d : Due("start", d, starts) <=> d \in Chosen
  BY <1>4, OpsAre, CallsAre, CallsElements DEF StartTargets
<1> HIDE DEF starts
<1>6. run' = [at |-> "RESTORE_START", mem |-> run.mem, todo |-> starts, noted |-> run.noted, problems |-> 0, end |-> run.end]
  BY <1>1, <1>3, ExecutorTurns
<1>7. /\ RecordOK' /\ ExecutorOK' /\ run' # None /\ run'.at = "RESTORE_START" /\ run'.mem = run.mem /\ run'.todo = starts
      /\ run'.problems = 0
  <2>1. "RESTORE_START" \in PhasesOf(rec.kind) /\ rec.kind # "upgrade" /\ 0 \in 0..2 BY <1>2, PhasesAre
  <2> QED BY <1>1, <1>5, <1>6, <2>1, GoesOn
<1>8. TypesOK' BY <1>1, <1>7, CanistersStay, StepTypes
<1>9. module' = module /\ taken' = taken BY <1>1 DEF canisters
<1>10. \A d \in Chosen : Restored(d)'
  <2>1. \A d : ~Due("load", d, run.todo) BY <1>1 DEF Due
  <2>2. \A d : Restored(d) => Restored(d)' BY <1>1, <1>9 DEF Restored
  <2> QED BY <1>3, <2>1, <2>2
<1>11. Chosen' = Chosen BY <1>1 DEF Chosen
<1>12. RestoreStartOK' BY <1>5, <1>7, <1>10, <1>11 DEF RestoreStartOK
<1>13. RestoringOK' /\ RestoreUndoOK' /\ RestorePruneOK' BY <1>7 DEF RestoringOK, RestoreUndoOK, RestorePruneOK
<1> QED BY <1>1, <1>2, <1>8, <1>9, <1>12, <1>13, RestoreStays

\* One more problem, and no third.
LEMMA ProblemAnswers ==
  ASSUME TypesOK, run # None, run.todo # <<>>, rec' = rec, Answered([run EXCEPT !.problems = Min({2, @ + 1})])
  PROVE  /\ RecordOK' /\ ExecutorOK'
         /\ run' # None /\ run'.at = run.at /\ run'.mem = run.mem /\ run'.todo = Tail(run.todo)
         /\ run'.noted = run.noted /\ run'.problems \in {1, 2} /\ (run.problems > 0 => run'.problems = 2)
<1> DEFINE p == Min({2, run.problems + 1})
<1>1. run.problems \in 0..2 BY ExecutorIs
<1>2. p \in {2, run.problems + 1} /\ p <= 2 /\ p <= run.problems + 1
  <2>1. {2, run.problems + 1} \subseteq Nat /\ {2, run.problems + 1} # {} BY <1>1
  <2> QED BY <2>1, MinOfNaturals
<1>a. Answered([run EXCEPT !.problems = p]) OBVIOUS
<1> HIDE DEF p
<1>3. p \in {1, 2} /\ (run.problems > 0 => p = 2) BY <1>1, <1>2
<1>4. [run EXCEPT !.problems = p] = [at |-> run.at, mem |-> run.mem, todo |-> run.todo, noted |-> run.noted,
                                     problems |-> p, end |-> run.end]
  BY ExecutorExcept
<1>5. /\ run.mem \in Record /\ CursorOK(run.mem) /\ run.mem.kind = rec.kind /\ run.mem.status = rec.status
      /\ run.mem.version = rec.version /\ run.mem.choice = rec.choice /\ run.mem.index = rec.index
      /\ run.noted \in SUBSET Canister /\ p \in 0..2
  BY <1>3, Executing, ExecutorIs
<1>6. /\ RecordOK' /\ ExecutorOK'
      /\ run' # None /\ run'.at = run.at /\ run'.mem = run.mem /\ run'.todo = Tail(run.todo)
      /\ run'.noted = run.noted /\ run'.problems = p
  BY <1>a, <1>4, <1>5, Answers
<1> QED BY <1>3, <1>6

\* A call of the undo, or a start.
LEMMA RestoreUndoCallR ==
  ASSUME TypesOK, RestoresOK, RestoreUndoCall
  PROVE  TypesOK' /\ RestoresOK' /\ rec' # None /\ rec'.kind = "restore"
<1>1. /\ run # None /\ run.at \in {"RESTORE_UNDO", "RESTORE_START"} /\ run.todo # <<>> /\ rec' = rec
      /\ UNCHANGED <<assets, store, origins, filed, before>>
      /\ \/ /\ Succeeds /\ Answered(run)
            /\ \/ Call.op = "load" /\ LoadSnapshot(Call.cid, run.mem.refs[Call.cid])
               \/ Call.op = "start" /\ StartCanister(Call.cid)
         \/ Fails /\ Answered([run EXCEPT !.problems = Min({2, @ + 1})]) /\ UNCHANGED canisters
  BY DEF RestoreUndoCall, Calling, At
<1>2. rec.kind = "restore" BY <1>1, KindOfPhase, PhasesAre
<1>3. /\ Open /\ CanistersOK /\ Call.cid \in Canister /\ run.mem \in Record /\ run.todo \in Seq(Asked(run.at))
      /\ Call.op \in OpsOf(run.at)
  <2>1. Call \in [op : OpsOf(run.at), cid : Canister] BY <1>1, <1>2, OfRestore
  <2> QED BY <1>1, <1>2, <2>1, OfRestore
<1>c. PICK c \in Canister : c = Call.cid BY <1>3
<1>4. /\ run.at = "RESTORE_UNDO" =>
           /\ run.problems \in {1, 2}
           /\ \A d \in Canister : Due("load", d, run.todo) => WayBack(d)
           /\ run.problems = 1 =>
                /\ \A d \in Canister : module[d] = before.module[d] \/ Due("load", d, run.todo)
                /\ \A d \in Chosen : d \in running \/ Due("start", d, run.todo)
      /\ run.at = "RESTORE_START" /\ run.problems = 0 =>
           \A d \in Chosen : Restored(d) /\ (d \in running \/ Due("start", d, run.todo))
  BY <1>1, <1>2, OfRestoreLater
<1>5. /\ \A op, d : Due(op, d, run.todo) => (Call.op = op /\ c = d) \/ Due(op, d, Tail(run.todo))
      /\ \A op, d : Due(op, d, Tail(run.todo)) => Due(op, d, run.todo)
      /\ Due(Call.op, c, run.todo)
  BY <1>c, <1>1, <1>3, DueTail DEF Call
<1>6. Chosen' = Chosen /\ Chosen \subseteq Canister BY <1>1 DEF Chosen
<1>7. ASSUME run' # None, run'.at = run.at, run'.mem = run.mem, run'.todo = Tail(run.todo), RecordOK', ExecutorOK',
             CanistersOK', taken' = taken, kept' = kept,
             run.at = "RESTORE_UNDO" =>
               /\ run'.problems \in {1, 2}
               /\ run'.problems = 1 =>
                    /\ \A d \in Canister : module'[d] = before.module[d] \/ Due("load", d, Tail(run.todo))
                    /\ \A d \in Chosen : d \in running' \/ Due("start", d, Tail(run.todo)),
             run.at = "RESTORE_START" /\ run'.problems = 0 =>
               \A d \in Chosen : Restored(d)' /\ (d \in running' \/ Due("start", d, Tail(run.todo)))
      PROVE  TypesOK' /\ RestoresOK' /\ rec' # None /\ rec'.kind = "restore"
  <2>1. TypesOK' BY <1>1, <1>7, StepTypes
  <2>2. \A d \in Canister : WayBack(d) => WayBack(d)' BY <1>1, <1>7 DEF WayBack
  <2>3. RestoreUndoOK' BY <1>1, <1>4, <1>5, <1>6, <1>7, <2>2 DEF RestoreUndoOK
  <2>4. RestoreStartOK' BY <1>6, <1>7 DEF RestoreStartOK
  <2>5. RestoringOK' /\ RestorePruneOK' BY <1>1, <1>7 DEF RestoringOK, RestorePruneOK
  <2> QED BY <1>1, <1>2, <1>7, <2>1, <2>3, <2>4, <2>5, RestoreStays
<1>8. ASSUME Succeeds, Answered(run), Call.op = "load", LoadSnapshot(c, run.mem.refs[c])
      PROVE  TypesOK' /\ RestoresOK' /\ rec' # None /\ rec'.kind = "restore"
  <2>1. /\ RecordOK' /\ ExecutorOK' /\ run' # None /\ run'.at = run.at /\ run'.mem = run.mem
        /\ run'.todo = Tail(run.todo) /\ run'.problems = run.problems
    BY <1>1, <1>8, PlainAnswers
  <2>2. PICK k : k = run.mem.refs[c] OBVIOUS
  <2>3. /\ CanistersOK' /\ module' = [module EXCEPT ![c] = taken[c][k].module]
        /\ running' = running /\ taken' = taken /\ kept' = kept
    BY <1>3, <1>8, <2>2, LoadingIs
  <2>4. run.at = "RESTORE_UNDO" BY <1>1, <1>3, <1>8, OpsAre
  <2>5. module \in [Canister -> Version] BY <1>3 DEF CanistersOK
  <2>6. taken[c][k].module = before.module[c] BY <1>4, <1>5, <1>8, <2>2, <2>4 DEF WayBack
  <2>7. \A d \in Canister : module'[d] = (IF d = c THEN before.module[d] ELSE module[d]) BY <2>3, <2>5, <2>6
  <2>8. run.problems = 1 => \A d \in Canister : module'[d] = before.module[d] \/ Due("load", d, Tail(run.todo))
    BY <1>4, <1>5, <2>4, <2>7
  <2>9. run.problems = 1 => \A d \in Chosen : d \in running' \/ Due("start", d, Tail(run.todo))
    BY <1>4, <1>5, <1>8, <2>3, <2>4
  <2> QED BY <1>4, <1>7, <2>1, <2>3, <2>4, <2>8, <2>9
<1>9. ASSUME Succeeds, Answered(run), Call.op = "start", StartCanister(c)
      PROVE  TypesOK' /\ RestoresOK' /\ rec' # None /\ rec'.kind = "restore"
  <2>1. /\ RecordOK' /\ ExecutorOK' /\ run' # None /\ run'.at = run.at /\ run'.mem = run.mem
        /\ run'.todo = Tail(run.todo) /\ run'.problems = run.problems
    BY <1>1, <1>9, PlainAnswers
  <2>2. CanistersOK' BY <1>3, <1>9, CallTypes DEF Changes
  <2>3. running' = running \cup {c} /\ module' = module /\ taken' = taken /\ kept' = kept BY <1>9 DEF StartCanister
  <2>4. \A d : Restored(d) => Restored(d)' BY <1>1, <2>3 DEF Restored
  <2>5. \A d \in Chosen : d \in running \/ Due("start", d, run.todo) => d \in running' \/ Due("start", d, Tail(run.todo))
    BY <1>5, <2>3
  <2>6. \A d : Due("load", d, run.todo) => Due("load", d, Tail(run.todo)) BY <1>5, <1>9
  <2> QED BY <1>4, <1>7, <2>1, <2>2, <2>3, <2>4, <2>5, <2>6
<1>10. ASSUME Fails, Answered([run EXCEPT !.problems = Min({2, @ + 1})]), UNCHANGED canisters
       PROVE  TypesOK' /\ RestoresOK' /\ rec' # None /\ rec'.kind = "restore"
  <2>1. /\ RecordOK' /\ ExecutorOK' /\ run' # None /\ run'.at = run.at /\ run'.mem = run.mem
        /\ run'.todo = Tail(run.todo) /\ run'.problems \in {1, 2} /\ (run.problems > 0 => run'.problems = 2)
    BY <1>1, <1>10, ProblemAnswers
  <2>2. CanistersOK' BY <1>10, CanistersStay
  <2>3. taken' = taken /\ kept' = kept BY <1>10 DEF canisters
  <2>4. run.at = "RESTORE_UNDO" => run'.problems = 2 BY <1>4, <2>1
  <2>5. run'.problems # 0 BY <2>1
  <2> QED BY <1>7, <2>1, <2>2, <2>3, <2>4, <2>5
<1> QED BY <1>c, <1>1, <1>8, <1>9, <1>10

\* Without its executor a restore that is open says little.
LEMMA RestoreGone ==
  ASSUME TypesOK, RestoresOK, run # None, rec.kind = "restore", rec' = rec, taken' = taken, before' = before,
         TypesOK', run' = None
  PROVE  RestoresOK' /\ rec' # None /\ rec'.kind = "restore"
<1>1. RestoringOK' /\ RestoreUndoOK' /\ RestoreStartOK' /\ RestorePruneOK'
  BY DEF RestoringOK, RestoreUndoOK, RestoreStartOK, RestorePruneOK
<1> QED BY <1>1, RestoreStays

LEMMA LoseR ==
  ASSUME TypesOK, RestoresOK, LoseExecutor
  PROVE  RestoresOK'
<1>1. rec' = rec /\ run' = None /\ run # None /\ taken' = taken /\ before' = before
  BY DEF LoseExecutor, canisters
<1>2. TypesOK' BY LoseT
<1>3. CASE rec.kind = "restore" BY <1>1, <1>2, <1>3, RestoreGone
<1>4. CASE rec.kind # "restore" BY <1>1, <1>4, NotRestore
<1> QED BY <1>3, <1>4

\* The targets are started: old snapshots are to be pruned, or the answer is an error.
LEMMA RestoreStartedR ==
  ASSUME TypesOK, RestoresOK, RestoreStarted
  PROVE  TypesOK' /\ RestoresOK' /\ rec' # None /\ rec'.kind = "restore"
<1> DEFINE prunes == Calls("prune", Targets(run.mem))
<1>1. /\ run # None /\ run.at = "RESTORE_START" /\ run.todo = <<>> /\ run.problems = 0 /\ rec' = rec
      /\ UNCHANGED <<canisters, assets, store, filed, before>>
      /\ \/ Succeeds /\ run' = [run EXCEPT !.at = "RESTORE_PRUNE", !.todo = prunes]
         \/ Fails /\ run' = None
  BY DEF RestoreStarted, Called, At
<1>2. rec.kind = "restore" BY <1>1, KindOfPhase, PhasesAre
<1>3. Open /\ CanistersOK' BY <1>1, <1>2, OfRestore, CanistersStay
<1>4. \A d \in Chosen : Restored(d) /\ (d \in running \/ Due("start", d, run.todo)) BY <1>1, <1>2, OfRestoreLater
<1>5. module' = module /\ running' = running /\ taken' = taken /\ kept' = kept /\ before' = before BY <1>1 DEF canisters
<1>6. ASSUME Succeeds, run' = [run EXCEPT !.at = "RESTORE_PRUNE", !.todo = prunes]
      PROVE  TypesOK' /\ RestoresOK' /\ rec' # None /\ rec'.kind = "restore"
  <2>1. prunes \in Seq(Asked("RESTORE_PRUNE")) BY TargetsAre, OpsAre, CallsAre
  <2> HIDE DEF prunes
  <2>2. run' = [at |-> "RESTORE_PRUNE", mem |-> run.mem, todo |-> prunes, noted |-> run.noted, problems |-> 0, end |-> run.end]
    BY <1>1, <1>6, ExecutorTurns
  <2>3. "RESTORE_PRUNE" \in PhasesOf(rec.kind) /\ rec.kind # "upgrade" /\ 0 \in 0..2 BY <1>2, PhasesAre
  <2>4. RecordOK' /\ ExecutorOK' /\ run' # None /\ run'.at = "RESTORE_PRUNE" BY <1>1, <2>1, <2>2, <2>3, GoesOn
  <2>5. TypesOK' BY <1>1, <1>3, <1>6, <2>4, StepTypes
  <2>6. \A d \in Chosen : Restored(d)' /\ d \in running'
    <3>1. \A d : ~Due("start", d, run.todo) BY <1>1 DEF Due
    <3>2. \A d : Restored(d) => Restored(d)' BY <1>1, <1>5 DEF Restored
    <3> QED BY <1>4, <1>5, <3>1, <3>2
  <2>7. Chosen' = Chosen BY <1>1 DEF Chosen
  <2>8. RestorePruneOK' BY <2>6, <2>7 DEF RestorePruneOK
  <2>9. RestoringOK' /\ RestoreUndoOK' /\ RestoreStartOK' BY <2>4 DEF RestoringOK, RestoreUndoOK, RestoreStartOK
  <2> QED BY <1>1, <1>2, <1>5, <2>5, <2>8, <2>9, RestoreStays
<1>7. ASSUME Fails, run' = None PROVE TypesOK' /\ RestoresOK' /\ rec' # None /\ rec'.kind = "restore"
  <2>1. TypesOK' BY <1>1, <1>3, <1>7, GoneTypes, StepTypes
  <2> QED BY <1>1, <1>2, <1>5, <1>7, <2>1, RestoreGone
<1> QED BY <1>1, <1>6, <1>7

\* Pruning leaves the targets as they are.
LEMMA RestorePruneR ==
  ASSUME TypesOK, RestoresOK, RestorePrune
  PROVE  TypesOK' /\ RestoresOK' /\ rec' # None /\ rec'.kind = "restore"
<1>1. /\ run # None /\ run.at = "RESTORE_PRUNE" /\ run.todo # <<>> /\ rec' = rec /\ Answered(run)
      /\ UNCHANGED <<assets, store, filed, before>> /\ PruneSnapshots(Call.cid)
  BY DEF RestorePrune, Calling, At
<1>2. rec.kind = "restore" BY <1>1, KindOfPhase, PhasesAre
<1>3. Open /\ CanistersOK /\ Call.cid \in Canister BY <1>1, <1>2, OfRestore
<1>4. \A d \in Chosen : Restored(d) /\ d \in running BY <1>1, <1>2, OfRestoreLater
<1>5. /\ CanistersOK' /\ module' = module /\ running' = running /\ taken' = taken
      /\ Succeeds \/ Fails
  BY <1>1, <1>3, PruningIs
<1>6. RecordOK' /\ ExecutorOK' /\ run' # None /\ run'.at = "RESTORE_PRUNE" BY <1>1, PlainAnswers
<1>7. TypesOK' BY <1>1, <1>5, <1>6, StepTypes
<1>8. \A d : Restored(d) => Restored(d)' BY <1>1, <1>5 DEF Restored
<1>9. Chosen' = Chosen BY <1>1 DEF Chosen
<1>10. RestorePruneOK' BY <1>4, <1>5, <1>8, <1>9 DEF RestorePruneOK
<1>11. RestoringOK' /\ RestoreUndoOK' /\ RestoreStartOK' BY <1>6 DEF RestoringOK, RestoreUndoOK, RestoreStartOK
<1> QED BY <1>1, <1>2, <1>5, <1>7, <1>10, <1>11, RestoreStays

\* It ends, and tells how.
LEMMA RestoreDoneR ==
  ASSUME TypesOK, RestoresOK, RestoreDone
  PROVE  TypesOK' /\ RestoresOK' /\ rec' # None /\ rec'.kind = "restore"
<1> DEFINE s == RestoreOutcome(run.at, run.problems)
<1>1. /\ run # None /\ run.at \in {"RESTORE_PRUNE", "RESTORE_UNDO", "RESTORE_START"} /\ run.todo = <<>>
      /\ Ends(run.mem, s)
      /\ UNCHANGED <<canisters, assets, store, origins, filed, before, budget>>
  BY DEF RestoreDone, Called, At
<1>2. rec.kind = "restore" BY <1>1, KindOfPhase, PhasesAre
<1>3. /\ Open /\ run.mem \in Record /\ CursorOK(run.mem) /\ run.mem.kind = "restore" /\ run.mem.choice = rec.choice
      /\ rec \in Record
  BY <1>1, <1>2, OfRestore
<1>4. /\ run.at = "RESTORE_UNDO" /\ run.problems = 1 =>
           /\ \A d \in Canister : module[d] = before.module[d] \/ Due("load", d, run.todo)
           /\ \A d \in Chosen : d \in running \/ Due("start", d, run.todo)
      /\ run.at = "RESTORE_PRUNE" => \A d \in Chosen : Restored(d) /\ d \in running
  BY <1>1, <1>2, OfRestoreLater
<1>5. /\ s \in Terminal
      /\ s = "COMPLETE" => run.at = "RESTORE_PRUNE"
      /\ s = "ROLLED_BACK" => run.at = "RESTORE_UNDO" /\ run.problems = 1
  BY <1>1 DEF RestoreOutcome, Terminal
<1> HIDE DEF s
<1>6. /\ RecordOK' /\ ExecutorOK' /\ rec' \in Record /\ rec'.status = s /\ rec'.kind = "restore"
      /\ rec'.choice = rec.choice /\ run' = None
  BY <1>1, <1>3, <1>5, SaveTypes
<1>7. /\ module' = module /\ running' = running /\ taken' = taken /\ before' = before /\ Succeeds
      /\ CanistersOK'
  BY <1>1, CanistersStay DEF canisters, Succeeds
<1>8. TypesOK' /\ rec' # None BY <1>1, <1>6, <1>7, StepTypes, NoneAssumption
<1>9. \A op, d : ~Due(op, d, run.todo) BY <1>1 DEF Due
<1>10. s = "COMPLETE" =>
         \A d \in Canister : rec'.choice[d] # 0 => d \in running' /\ module'[d] = taken'[d][rec'.choice[d]].module
  BY <1>4, <1>5, <1>6, <1>7 DEF Restored, Chosen
<1>11. ASSUME s = "ROLLED_BACK"
       PROVE  module' = before'.module /\ \A d \in Canister : rec'.choice[d] # 0 => d \in running'
  <2>1. \A d \in Canister : module[d] = before.module[d] BY <1>4, <1>5, <1>9, <1>11
  <2>2. \A d \in Chosen : d \in running BY <1>4, <1>5, <1>9, <1>11
  <2>3. module \in [Canister -> Version] /\ before.module \in [Canister -> Version]
    BY DEF TypesOK, ChainOK, CanistersOK
  <2>4. module = before.module BY <2>1, <2>3
  <2> QED BY <1>6, <1>7, <2>2, <2>4 DEF Chosen
<1> QED BY <1>5, <1>6, <1>8, <1>10, <1>11, EndedRestore
-----------------------------------------------------------------------------
(* Provisions *)

LEMMA NotProvision ==
  ASSUME rec' # None => rec'.kind # "provision", assets' = assets, ProvisionsOK
  PROVE  ProvisionsOK'
BY DEF ProvisionsOK, ProvisionOK, BatchOK, Provisioning, Open, ProvisionedAsApproved, Was

\* A provision that did not complete only promises what is served.
LEMMA ClosedProvision ==
  ASSUME run' = None, rec' # None, rec'.status \in Terminal,
         \A c \in Canister, f \in File : assets'[c][f] # "newer",
         rec'.status = "COMPLETE" => \A c \in Canister, f \in File : Right(c, f)'
  PROVE  ProvisionsOK'
<1>1. ~Open' BY DEF Open
<1>2. ProvisionOK' /\ BatchOK' BY <1>1 DEF ProvisionOK, BatchOK, Provisioning
<1>3. ProvisionedAsApproved' BY DEF ProvisionedAsApproved, Was, Right
<1> QED BY <1>2, <1>3 DEF ProvisionsOK

LEMMA OpenProvision ==
  ASSUME rec' # None => rec'.status # "COMPLETE", \A c \in Canister, f \in File : assets'[c][f] # "newer",
         ProvisionOK', BatchOK'
  PROVE  ProvisionsOK'
<1>1. ProvisionedAsApproved' BY DEF ProvisionedAsApproved, Was
<1> QED BY <1>1 DEF ProvisionsOK

\* The calls of a batch, one after the other.
LEMMA AreBatchCalls ==
  ASSUME NEW todo, NEW r, NEW k, NEW l \in Nat, NEW ships \in Nat, NEW n \in Nat,
         r.load + ships = k, n = (IF k = Len(Files) THEN 1 ELSE 0),
         Len(todo) = l + ships + n,
         l = 1 => todo[1] = [op |-> "list", cid |-> Provisioned(r)],
         \A j \in 1..ships : todo[l + j] = [op |-> "ship", cid |-> Provisioned(r), file |-> Files[r.load + j]],
         n = 1 => todo[l + ships + 1] = [op |-> "extra", cid |-> Provisioned(r)]
  PROVE  BatchCalls(todo, r, l, k)
BY DEF BatchCalls

LEMMA BatchTail ==
  ASSUME NEW X, NEW todo \in Seq(X), todo # <<>>, NEW r, r.load \in Nat, NEW l \in 0..1,
         NEW k \in r.load..Len(Files), BatchCalls(todo, r, l, k)
  PROVE  \/ /\ Head(todo) = [op |-> "list", cid |-> Provisioned(r)]
            /\ \A s : s.index = r.index /\ s.load = r.load => BatchCalls(Tail(todo), s, 0, k)
         \/ /\ Head(todo) = [op |-> "ship", cid |-> Provisioned(r), file |-> Files[r.load + 1]] /\ r.load < k
            /\ \A s : s.index = r.index /\ s.load = r.load + 1 => BatchCalls(Tail(todo), s, 0, k)
         \/ /\ Head(todo) = [op |-> "extra", cid |-> Provisioned(r)] /\ r.load = Len(Files)
            /\ Tail(todo) = <<>>
<1>1. PICK ships \in Nat, n \in Nat :
        /\ r.load + ships = k /\ n = (IF k = Len(Files) THEN 1 ELSE 0)
        /\ Len(todo) = l + ships + n
        /\ l = 1 => todo[1] = [op |-> "list", cid |-> Provisioned(r)]
        /\ \A j \in 1..ships : todo[l + j] = [op |-> "ship", cid |-> Provisioned(r), file |-> Files[r.load + j]]
        /\ n = 1 => todo[l + ships + 1] = [op |-> "extra", cid |-> Provisioned(r)]
  BY DEF BatchCalls
<1>L. PICK load \in Nat : load = r.load OBVIOUS
<1>z. PICK z \in Nat : z = 0 OBVIOUS
<1>2. /\ Len(todo) \in Nat \ {0} /\ Head(todo) = todo[1] /\ Len(Tail(todo)) = Len(todo) - 1
      /\ Tail(todo) \in Seq(X) /\ \A i \in 1..(Len(todo) - 1) : Tail(todo)[i] = todo[i + 1]
  OBVIOUS
<1> DEFINE t == Tail(todo)
<1>3. Len(t) = Len(todo) - 1 /\ \A i \in 1..(Len(todo) - 1) : t[i] = todo[i + 1] BY <1>2
<1> HIDE DEF t
<1>4. CASE l = 1
  <2>1. l = 1 /\ Len(t) = z + ships + n BY <1>1, <1>2, <1>3, <1>4, <1>z
  <2>2. ASSUME NEW s, s.index = r.index, s.load = r.load PROVE BatchCalls(t, s, z, k)
    <3>1. Provisioned(s) = Provisioned(r) BY <2>2 DEF Provisioned
    <3>2. ASSUME NEW j \in 1..ships
          PROVE  t[z + j] = [op |-> "ship", cid |-> Provisioned(s), file |-> Files[s.load + j]]
      <4>1. j \in 1..(Len(todo) - 1) /\ z + j = j /\ j + 1 = l + j BY <1>1, <1>z, <2>1
      <4> QED BY <1>1, <1>3, <2>2, <3>1, <4>1
    <3>3. ASSUME n = 1 PROVE t[z + ships + 1] = [op |-> "extra", cid |-> Provisioned(s)]
      <4>1. /\ ships + 1 \in 1..(Len(todo) - 1) /\ z + ships + 1 = ships + 1
            /\ (ships + 1) + 1 = l + ships + 1
        BY <1>1, <1>z, <2>1, <3>3
      <4>2. t[ships + 1] = todo[(ships + 1) + 1] BY <1>3, <4>1
      <4> QED BY <1>1, <3>1, <3>3, <4>1, <4>2
    <3>4. s.load + ships = k BY <1>1, <2>2
    <3>5. z # 1 BY <1>z
    <3>6. n = (IF k = Len(Files) THEN 1 ELSE 0) BY <1>1
    <3> QED BY <2>1, <3>2, <3>3, <3>4, <3>5, <3>6, AreBatchCalls
  <2> QED BY <1>1, <1>2, <1>4, <1>z, <2>2 DEF t
<1>5. CASE l = 0 /\ ships > 0
  <2>1. l = 0 /\ Len(t) = z + (ships - 1) + n /\ ships - 1 \in Nat BY <1>1, <1>2, <1>3, <1>5, <1>z
  <2>2. todo[1] = [op |-> "ship", cid |-> Provisioned(r), file |-> Files[r.load + 1]]
    <3>1. 1 \in 1..ships /\ l + 1 = 1 BY <1>5, <2>1
    <3> QED BY <1>1, <3>1
  <2>3. ASSUME NEW s, s.index = r.index, s.load = r.load + 1 PROVE BatchCalls(t, s, z, k)
    <3>1. Provisioned(s) = Provisioned(r) BY <2>3 DEF Provisioned
    <3>2. ASSUME NEW j \in 1..(ships - 1)
          PROVE  t[z + j] = [op |-> "ship", cid |-> Provisioned(s), file |-> Files[s.load + j]]
      <4>1. /\ j \in 1..(Len(todo) - 1) /\ z + j = j /\ j + 1 = l + (j + 1) /\ j + 1 \in 1..ships
        BY <1>1, <1>z, <2>1
      <4>4. r.load + (j + 1) = s.load + j
        <5>1. load + (j + 1) = (load + 1) + j OBVIOUS
        <5> QED BY <1>L, <2>3, <5>1
      <4>2. t[j] = todo[l + (j + 1)] BY <1>3, <4>1
      <4>3. todo[l + (j + 1)] = [op |-> "ship", cid |-> Provisioned(r), file |-> Files[r.load + (j + 1)]]
        BY <1>1, <4>1
      <4> QED BY <3>1, <4>1, <4>2, <4>3, <4>4
    <3>3. ASSUME n = 1 PROVE t[z + (ships - 1) + 1] = [op |-> "extra", cid |-> Provisioned(s)]
      <4>1. /\ ships \in 1..(Len(todo) - 1) /\ z + (ships - 1) + 1 = ships
            /\ ships + 1 = l + ships + 1
        BY <1>1, <1>z, <1>5, <2>1, <3>3
      <4>2. t[ships] = todo[ships + 1] BY <1>3, <4>1
      <4> QED BY <1>1, <3>1, <3>3, <4>1, <4>2
    <3>4. s.load + (ships - 1) = k
      <4>1. (load + 1) + (ships - 1) = load + ships OBVIOUS
      <4> QED BY <1>1, <1>L, <2>3, <4>1
    <3>5. z # 1 BY <1>z
    <3>6. n = (IF k = Len(Files) THEN 1 ELSE 0) BY <1>1
    <3> QED BY <2>1, <3>2, <3>3, <3>4, <3>5, <3>6, AreBatchCalls
  <2>4. r.load < k BY <1>1, <1>L, <1>5
  <2> QED BY <1>2, <1>z, <2>2, <2>3, <2>4 DEF t
<1>6. CASE l = 0 /\ ships = 0
  <2>1. l = 0 /\ n = 1 /\ Len(todo) = 1 BY <1>1, <1>2, <1>6
  <2>2. k = Len(Files) /\ r.load = k BY <1>1, <1>6, <2>1
  <2>3. l + ships + 1 = 1 BY <1>6, <2>1
  <2>4. Tail(todo) = <<>>
    <3>1. Len(Tail(todo)) = 0 BY <1>2, <2>1
    <3> QED BY <1>2, <3>1, EmptySeq
  <2> QED BY <1>1, <1>2, <2>1, <2>2, <2>3, <2>4
<1>7. l = 1 \/ (l = 0 /\ ships > 0) \/ (l = 0 /\ ships = 0) BY <1>1
<1> QED BY <1>4, <1>5, <1>6, <1>7

\* The calls of a message.
LEMMA ProvisionCallsAre ==
  ASSUME NEW r \in Record, r.index < Len(Canisters), r.load < Len(Files)
  PROVE  /\ ProvisionCalls(r) \in Seq(Asked("PROVISIONING"))
         /\ \E k \in r.load..Len(Files), l \in 0..1 :
              \A s : s.index = r.index /\ s.load = r.load => BatchCalls(ProvisionCalls(r), s, l, k)
<1> DEFINE A == Asked("PROVISIONING")
           c == Provisioned(r)
           b == Batch(r)
           lists == IF r.listed THEN <<>> ELSE <<[op |-> "list", cid |-> c]>>
           ships == [i \in 1..Len(b) |-> [op |-> "ship", cid |-> c, file |-> b[i]]]
           extras == IF r.load + Len(b) = Len(Files) THEN Calls("extra", <<c>>) ELSE <<>>
           todo == ProvisionCalls(r)
<1>1. todo = lists \o ships \o extras BY DEF ProvisionCalls
<1>2. /\ r.load \in Nat /\ r.index \in Nat /\ Len(Canisters) \in Nat /\ Len(Files) \in Nat /\ FilesPerExecute \in Nat \ {0}
      /\ Files \in Seq(File)
  BY Lists DEF Record
<1>3. c \in Canister
  <2>1. r.index + 1 \in 1..Len(Canisters) BY <1>2
  <2> QED BY <2>1, Lists DEF Provisioned
<1> DEFINE k == Min({r.load + FilesPerExecute, Len(Files)})
<1>4. k \in Nat /\ r.load < k /\ k <= Len(Files)
  <2>1. {r.load + FilesPerExecute, Len(Files)} \subseteq Nat /\ {r.load + FilesPerExecute, Len(Files)} # {} BY <1>2
  <2>2. k \in {r.load + FilesPerExecute, Len(Files)} /\ k <= Len(Files) BY <2>1, MinOfNaturals
  <2> QED BY <1>2, <2>2
<1>5. b = SubSeq(Files, r.load + 1, k) BY DEF Batch
<1> HIDE DEF k, b, c
<1>6. b \in Seq(File) /\ Len(b) = k - r.load /\ \A j \in 1..(k - r.load) : b[j] = Files[r.load + j]
  <2>1. /\ SubSeq(Files, r.load + 1, k) \in Seq(File)
        /\ Len(SubSeq(Files, r.load + 1, k)) = k - r.load
        /\ \A j \in 1..(k - r.load) : SubSeq(Files, r.load + 1, k)[j] = Files[r.load + j]
    <3>1. PICK x \in Nat, m \in Nat : x = r.load /\ m = x + 1 BY <1>2
    <3>2. \A i \in m..k : Files[i] \in File BY <1>2, <1>4, <3>1
    <3>3. /\ SubSeq(Files, m, k) \in Seq(File)
          /\ Len(SubSeq(Files, m, k)) = IF m <= k THEN k - m + 1 ELSE 0
          /\ \A i \in 1..(k - m + 1) : SubSeq(Files, m, k)[i] = Files[m + i - 1]
      BY <1>4, <3>2, SubSeqProperties
    <3>4. m <= k /\ k - m + 1 = k - x /\ \A i \in 1..(k - x) : m + i - 1 = x + i BY <1>4, <3>1
    <3>5. PICK q : q = SubSeq(Files, m, k) OBVIOUS
    <3>6. q \in Seq(File) /\ Len(q) = k - x BY <3>3, <3>4, <3>5
    <3>7. ASSUME NEW i \in 1..(k - x) PROVE q[i] = Files[x + i]
      <4>1. i \in 1..(k - m + 1) /\ m + i - 1 = x + i BY <3>4
      <4> QED BY <3>3, <3>5, <4>1
    <3> QED BY <3>1, <3>5, <3>6, <3>7
  <2> QED BY <1>5, <2>1
<1>7. PICK m \in Nat : m = k - r.load BY <1>2, <1>4
<1>8. /\ ships \in Seq(A) /\ Len(ships) = m
      /\ \A j \in 1..m : ships[j] = [op |-> "ship", cid |-> c, file |-> Files[r.load + j]]
  <2>1. \A j \in 1..m : b[j] \in File /\ b[j] = Files[r.load + j] BY <1>6, <1>7
  <2>2. \A j \in 1..m : [op |-> "ship", cid |-> c, file |-> b[j]] \in A BY <1>3, <2>1 DEF Asked
  <2> HIDE DEF A
  <2>3. ships = [j \in 1..m |-> [op |-> "ship", cid |-> c, file |-> b[j]]] BY <1>6, <1>7
  <2> QED BY <2>1, <2>2, <2>3
<1>9. PICK l \in 0..1 : l = (IF r.listed THEN 0 ELSE 1) OBVIOUS
<1>10. lists \in Seq(A) /\ Len(lists) = l /\ (l = 1 => lists[1] = [op |-> "list", cid |-> c])
  <2>1. [op |-> "list", cid |-> c] \in A BY <1>3, OpsAre DEF Asked
  <2> HIDE DEF A
  <2> QED BY <1>9, <2>1
<1>11. PICK n \in 0..1 : n = (IF k = Len(Files) THEN 1 ELSE 0) OBVIOUS
<1>12. extras \in Seq(A) /\ Len(extras) = n /\ (n = 1 => extras[1] = [op |-> "extra", cid |-> c])
  <2>1. [op |-> "extra", cid |-> c] \in A BY <1>3, OpsAre DEF Asked
  <2>2. Calls("extra", <<c>>) = <<[op |-> "extra", cid |-> c]>> BY DEF Calls
  <2>3. r.load + Len(b) = k BY <1>2, <1>4, <1>6
  <2> HIDE DEF A
  <2>4. CASE k = Len(Files)
    <3>1. extras = <<[op |-> "extra", cid |-> c]>> /\ n = 1 BY <1>11, <2>2, <2>3, <2>4
    <3> HIDE DEF extras
    <3> QED BY <2>1, <3>1
  <2>5. CASE k # Len(Files)
    <3>1. extras = <<>> /\ n = 0 BY <1>11, <2>3, <2>5
    <3> HIDE DEF extras
    <3> QED BY <3>1
  <2> QED BY <2>4, <2>5
<1> HIDE DEF lists, ships, extras, todo, A
<1> DEFINE both == lists \o ships
<1>13. /\ both \in Seq(A) /\ Len(both) = l + m
       /\ \A i \in 1..l : both[i] = lists[i]
       /\ \A j \in 1..m : both[l + j] = ships[j]
  <2>1. /\ both \in Seq(A) /\ Len(both) = l + m
        /\ \A i \in 1..(l + m) : both[i] = IF i <= l THEN lists[i] ELSE ships[i - l]
    BY <1>8, <1>10, ConcatProperties
  <2>2. \A i \in 1..l : i \in 1..(l + m) /\ i <= l OBVIOUS
  <2>3. \A j \in 1..m : l + j \in 1..(l + m) /\ ~(l + j <= l) /\ (l + j) - l = j OBVIOUS
  <2> HIDE DEF both
  <2>4. \A i \in 1..l : both[i] = lists[i] BY <2>1, <2>2
  <2>5. ASSUME NEW j \in 1..m PROVE both[l + j] = ships[j] BY <2>1, <2>3
  <2> QED BY <2>1, <2>4, <2>5
<1> HIDE DEF both
<1>14. /\ todo \in Seq(A) /\ Len(todo) = l + m + n
       /\ \A i \in 1..(l + m) : todo[i] = both[i]
       /\ \A j \in 1..n : todo[l + m + j] = extras[j]
  BY <1>1, <1>12, <1>13 DEF both
<1>15. ASSUME NEW s, s.index = r.index, s.load = r.load PROVE BatchCalls(todo, s, l, k)
  <2>1. Provisioned(s) = c BY <1>15 DEF Provisioned, c
  <2>2. ASSUME l = 1 PROVE todo[1] = [op |-> "list", cid |-> Provisioned(s)]
    <3>1. 1 \in 1..l /\ 1 \in 1..(l + m) BY <2>2
    <3> QED BY <1>10, <1>13, <1>14, <2>1, <2>2, <3>1
  <2>3. ASSUME NEW j \in 1..m PROVE todo[l + j] = [op |-> "ship", cid |-> Provisioned(s), file |-> Files[s.load + j]]
    <3>1. l + j \in 1..(l + m) OBVIOUS
    <3> QED BY <1>8, <1>13, <1>14, <1>15, <2>1, <3>1, ZenonT(40)
  <2>4. ASSUME n = 1 PROVE todo[l + m + 1] = [op |-> "extra", cid |-> Provisioned(s)]
    <3>1. 1 \in 1..n BY <2>4
    <3> QED BY <1>12, <1>14, <2>1, <2>4, <3>1
  <2>5. s.load + m = k BY <1>2, <1>4, <1>7, <1>15
  <2>6. l \in Nat /\ n \in Nat OBVIOUS
  <2> QED BY <1>11, <1>14, <2>2, <2>3, <2>4, <2>5, <2>6, AreBatchCalls
<1>16. k \in r.load..Len(Files) BY <1>2, <1>4
<1> QED BY <1>14, <1>15, <1>16 DEF todo, A

\* What holds of a provision and of its executor.
LEMMA OfProvision ==
  ASSUME TypesOK, ProvisionsOK, run # None, rec.kind = "provision"
  PROVE  /\ Open /\ rec # None /\ rec \in Record /\ rec.status # "COMPLETE"
         /\ run.mem \in Record /\ run.mem.kind = "provision" /\ run.mem.index = rec.index /\ CursorOK(run.mem)
         /\ run.mem.status \in OpenStatus("provision")
         /\ rec.index \in Nat /\ rec.index < Len(Canisters) /\ rec.load \in Nat /\ rec.load < Len(Files)
         /\ run.mem.load \in Nat /\ run.mem.load <= Len(Files) /\ rec.load <= run.mem.load
         /\ ShippedTo(rec) /\ ShippedTo(run.mem)
         /\ run.at = "PROVISIONING" /\ run.todo \in Seq(Asked("PROVISIONING"))
         /\ Provisioned(run.mem) \in Canister
         /\ assets \in [Canister -> [File -> Served]] /\ \A c \in Canister, f \in File : assets[c][f] # "newer"
         /\ \/ \E k \in run.mem.load..Len(Files), l \in 0..1 : BatchCalls(run.todo, run.mem, l, k)
            \/ /\ run.todo = <<>> /\ run.mem.load = Len(Files)
               /\ \A f \in File : Right(Provisioned(run.mem), f)
<1>1. /\ run.mem \in Record /\ rec \in Record /\ rec # None /\ Open /\ CursorOK(run.mem) /\ CursorOK(rec)
      /\ run.at \in PhasesOf("provision") /\ run.mem.kind = rec.kind /\ run.mem.status = rec.status
      /\ rec.status \in OpenStatus("provision") /\ run.todo \in Seq(Asked(run.at)) /\ run.mem.index = rec.index
  BY Executing, ExecutorIs
<1>2. run.at = "PROVISIONING" /\ rec.status # "COMPLETE" BY <1>1, PhasesAre
<1>3. /\ rec.index \in Nat /\ rec.load \in Nat /\ run.mem.load \in Nat /\ Len(Canisters) \in Nat
      /\ rec.index < Len(Canisters) /\ run.mem.load <= Len(Files)
  BY <1>1, Lists DEF Record, CursorOK
<1>4. Provisioned(run.mem) \in Canister
  <2>1. rec.index + 1 \in 1..Len(Canisters) BY <1>3
  <2> QED BY <1>1, <2>1, Lists DEF Provisioned
<1>5. /\ rec.load < Len(Files) /\ ShippedTo(rec) /\ run.mem.load >= rec.load /\ ShippedTo(run.mem)
      /\ \A c \in Canister, f \in File : assets[c][f] # "newer"
      /\ \/ \E k \in run.mem.load..Len(Files), l \in 0..1 : BatchCalls(run.todo, run.mem, l, k)
         \/ /\ run.todo = <<>> /\ run.mem.load = Len(Files)
            /\ \A f \in File : Right(Provisioned(run.mem), f)
  BY <1>1 DEF ProvisionsOK, ProvisionOK, BatchOK, Provisioning, ProvisionedAsApproved
<1>6. assets \in [Canister -> [File -> Served]] BY DEF TypesOK, ChainOK
<1>7. run.mem.load >= rec.load <=> rec.load <= run.mem.load BY <1>3
<1> QED BY <1>1, <1>2, <1>3, <1>4, <1>5, <1>6, <1>7

\* Its next call.
LEMMA BatchStep ==
  ASSUME TypesOK, ProvisionsOK, run # None, rec.kind = "provision", run.todo # <<>>
  PROVE  \/ /\ Call = [op |-> "list", cid |-> Provisioned(run.mem)]
            /\ \E k \in run.mem.load..Len(Files) :
                 \A s : s.index = run.mem.index /\ s.load = run.mem.load => BatchCalls(Tail(run.todo), s, 0, k)
         \/ /\ Call = [op |-> "ship", cid |-> Provisioned(run.mem), file |-> Files[run.mem.load + 1]]
            /\ run.mem.load < Len(Files)
            /\ \E k \in (run.mem.load + 1)..Len(Files) :
                 \A s : s.index = run.mem.index /\ s.load = run.mem.load + 1 => BatchCalls(Tail(run.todo), s, 0, k)
         \/ /\ Call = [op |-> "extra", cid |-> Provisioned(run.mem)] /\ run.mem.load = Len(Files)
            /\ Tail(run.todo) = <<>>
<1>1. /\ run.todo \in Seq(Asked("PROVISIONING")) /\ run.mem.load \in Nat
      /\ \E k \in run.mem.load..Len(Files), l \in 0..1 : BatchCalls(run.todo, run.mem, l, k)
  BY OfProvision
<1>2. PICK k \in run.mem.load..Len(Files), l \in 0..1 : BatchCalls(run.todo, run.mem, l, k) BY <1>1
<1>3. \/ /\ Head(run.todo) = [op |-> "list", cid |-> Provisioned(run.mem)]
         /\ \A s : s.index = run.mem.index /\ s.load = run.mem.load => BatchCalls(Tail(run.todo), s, 0, k)
      \/ /\ Head(run.todo) = [op |-> "ship", cid |-> Provisioned(run.mem), file |-> Files[run.mem.load + 1]]
         /\ run.mem.load < k
         /\ \A s : s.index = run.mem.index /\ s.load = run.mem.load + 1 => BatchCalls(Tail(run.todo), s, 0, k)
      \/ /\ Head(run.todo) = [op |-> "extra", cid |-> Provisioned(run.mem)] /\ run.mem.load = Len(Files)
         /\ Tail(run.todo) = <<>>
  BY <1>1, <1>2, BatchTail
<1>4. run.mem.load < k => run.mem.load < Len(Files) /\ k \in (run.mem.load + 1)..Len(Files) BY <1>1, <1>2, Lists
<1> QED BY <1>2, <1>3, <1>4 DEF Call

\* It is filed and approved, begins, or loses its executor.
LEMMA ApprovesP ==
  ASSUME TypesOK, ProvisionsOK, NEW r \in Record, r.index = 0, r.load = 0, r.status = "APPROVED", Approves(r)
  PROVE  ProvisionsOK'
<1>1. rec' = r /\ run' = None /\ assets' = assets BY DEF Approves
<1>2. \A c \in Canister, f \in File : assets'[c][f] # "newer" BY <1>1 DEF ProvisionsOK, ProvisionedAsApproved
<1>3. ShippedTo(rec)' BY <1>1 DEF ShippedTo
<1>4. ProvisionOK' BY <1>1, <1>3, Lists DEF ProvisionOK
<1>5. BatchOK' BY <1>1 DEF BatchOK
<1> QED BY <1>1, <1>2, <1>4, <1>5, OpenProvision

LEMMA BeginProvisionP ==
  ASSUME TypesOK, ProvisionsOK, BeginProvision
  PROVE  TypesOK' /\ ProvisionsOK' /\ rec' # None /\ rec'.kind = "provision"
<1> DEFINE m == [rec EXCEPT !.status = "PROVISIONING"]
           todo == ProvisionCalls(rec)
<1>1. /\ Open /\ rec # None /\ run = None /\ rec.kind = "provision" /\ rec' = m
      /\ run' = Doing("PROVISIONING", rec', todo)
      /\ UNCHANGED <<canisters, assets, store, origins, filed, before, budget>>
  BY DEF BeginProvision, Open
<1>2. rec \in Record /\ CursorOK(rec) BY <1>1 DEF TypesOK, RecordOK
<1>3. /\ rec.load < Len(Files) /\ ShippedTo(rec) /\ \A c \in Canister, f \in File : assets[c][f] # "newer"
  BY <1>1 DEF ProvisionsOK, ProvisionOK, Provisioning, ProvisionedAsApproved
<1>4. "PROVISIONING" \in Status BY DEF Status
<1>5. /\ m \in Record /\ m.kind = "provision" /\ m.status = "PROVISIONING" /\ m.index = rec.index /\ m.load = rec.load
  BY <1>1, <1>2, <1>4 DEF Record
<1> HIDE DEF m, todo
<1>6. CursorOK(m) /\ rec.index < Len(Canisters) BY <1>1, <1>2, <1>5 DEF CursorOK
<1>7. /\ m.status \in OpenStatus(m.kind) \ {"APPROVED"} /\ "PROVISIONING" \in PhasesOf(m.kind) BY <1>5, PhasesAre
<1>8. /\ todo \in Seq(Asked("PROVISIONING"))
      /\ \E k \in rec.load..Len(Files), l \in 0..1 :
           \A s : s.index = rec.index /\ s.load = rec.load => BatchCalls(todo, s, l, k)
  BY <1>2, <1>3, <1>6, ProvisionCallsAre DEF todo
<1>9. RecordOK' /\ ExecutorOK' /\ run' # None /\ run'.mem = m /\ run'.todo = todo
  BY <1>1, <1>5, <1>6, <1>7, <1>8, BeginsT
<1>10. Succeeds /\ CanistersOK' BY <1>1, CanistersStay DEF Succeeds
<1>11. TypesOK' BY <1>1, <1>9, <1>10, StepTypes
<1>12. assets' = assets BY <1>1
<1>13. ShippedTo(rec)' /\ ShippedTo(run.mem)'
  BY <1>1, <1>3, <1>5, <1>9, <1>12 DEF ShippedTo, Right, Shipped, Provisioned
<1>14. rec.load \in Nat BY <1>2 DEF Record
<1>15. ProvisionOK' BY <1>1, <1>3, <1>5, <1>9, <1>13, <1>14 DEF ProvisionOK
<1>16. BatchOK'
  <2>1. \E k \in run'.mem.load..Len(Files), l \in 0..1 : BatchCalls(run'.todo, run'.mem, l, k) BY <1>5, <1>8, <1>9
  <2> QED BY <2>1 DEF BatchOK, BatchCalls, Provisioned
<1>17. rec' # None /\ rec'.status # "COMPLETE" BY <1>1, <1>5, NoneAssumption
<1> QED BY <1>1, <1>3, <1>5, <1>11, <1>12, <1>15, <1>16, <1>17, OpenProvision

LEMMA LoseP ==
  ASSUME TypesOK, ProvisionsOK, LoseExecutor
  PROVE  ProvisionsOK'
<1>1. run # None /\ run' = None /\ rec' = rec /\ assets' = assets BY DEF LoseExecutor
<1>2. CASE rec.kind = "provision"
  <2>1. /\ rec.status # "COMPLETE" /\ rec.load < Len(Files) /\ ShippedTo(rec)
        /\ \A c \in Canister, f \in File : assets[c][f] # "newer"
    BY <1>1, <1>2, OfProvision
  <2>2. ShippedTo(rec)' BY <1>1, <2>1 DEF ShippedTo, Right, Shipped, Provisioned
  <2>3. ProvisionOK' /\ BatchOK' BY <1>1, <2>1, <2>2 DEF ProvisionOK, BatchOK
  <2> QED BY <1>1, <2>1, <2>3, OpenProvision
<1>3. CASE rec.kind # "provision" BY <1>1, <1>3, NotProvision
<1> QED BY <1>2, <1>3

\* The next file is listed.
LEMMA ListBundleP ==
  ASSUME TypesOK, ProvisionsOK, ListBundle
  PROVE  TypesOK' /\ ProvisionsOK' /\ rec' # None /\ rec'.kind = "provision"
<1> DEFINE m == [run.mem EXCEPT !.listed = TRUE]
           r == [run EXCEPT !.mem.listed = TRUE]
<1>1. /\ run # None /\ run.at = "PROVISIONING" /\ run.todo # <<>> /\ rec' = rec /\ Succeeds /\ Call.op = "list"
      /\ UNCHANGED <<canisters, assets, store, origins, filed, before>> /\ Answered(r)
  BY DEF ListBundle, Calling, At
<1>2. rec.kind = "provision" BY <1>1, KindOfPhase, PhasesAre
<1>3. /\ Open /\ rec # None /\ rec.status # "COMPLETE" /\ run.mem \in Record /\ CursorOK(run.mem)
      /\ run.mem.kind = "provision" /\ rec.load < Len(Files) /\ rec.load <= run.mem.load /\ run.mem.load \in Nat
      /\ rec.load \in Nat
      /\ ShippedTo(rec) /\ ShippedTo(run.mem) /\ \A c \in Canister, f \in File : assets[c][f] # "newer"
  BY <1>1, <1>2, OfProvision
<1>4. PICK k \in run.mem.load..Len(Files) :
        \A s : s.index = run.mem.index /\ s.load = run.mem.load => BatchCalls(Tail(run.todo), s, 0, k)
  BY <1>1, <1>2, BatchStep
<1>5. /\ m \in Record /\ m.kind = run.mem.kind /\ m.version = run.mem.version /\ m.choice = run.mem.choice
      /\ m.status = run.mem.status /\ m.index = run.mem.index /\ m.load = run.mem.load
  BY <1>3 DEF Record
<1>6. r = [at |-> run.at, mem |-> m, todo |-> run.todo, noted |-> run.noted, problems |-> run.problems, end |-> run.end]
  BY <1>1, ExecutorExcept
<1> HIDE DEF m, r
<1>7. CursorOK(m) BY <1>3, <1>5 DEF CursorOK
<1>8. RecordOK' /\ ExecutorOK' /\ run' # None /\ run'.mem = m /\ run'.todo = Tail(run.todo)
  <2>1. /\ run.mem.kind = rec.kind /\ run.mem.status = rec.status /\ run.noted \in SUBSET Canister
        /\ run.mem.version = rec.version /\ run.mem.choice = rec.choice /\ run.mem.index = rec.index
        /\ run.problems \in 0..2
    BY <1>1, Executing, ExecutorIs
  <2> QED BY <1>1, <1>5, <1>6, <1>7, <2>1, Answers
<1>9. TypesOK' BY <1>1, <1>8, CanistersStay, StepTypes
<1>10. assets' = assets BY <1>1
<1>11. ShippedTo(rec)' /\ ShippedTo(run.mem)'
  BY <1>1, <1>3, <1>5, <1>8, <1>10 DEF ShippedTo, Right, Shipped, Provisioned
<1>12. ProvisionOK' BY <1>1, <1>3, <1>5, <1>8, <1>11 DEF ProvisionOK
<1>13. BatchOK'
  <2>1. \E i \in run'.mem.load..Len(Files), l \in 0..1 : BatchCalls(run'.todo, run'.mem, l, i)
    BY <1>4, <1>5, <1>8
  <2> QED BY <2>1 DEF BatchOK, BatchCalls, Provisioned
<1> QED BY <1>1, <1>2, <1>3, <1>9, <1>10, <1>12, <1>13, OpenProvision

\* Shipping keeps what is on the chain a chain.
LEMMA ServeTypes ==
  ASSUME TypesOK, UNCHANGED <<canisters, store, filed, before>>, Succeeds, RecordOK', ExecutorOK',
         assets' \in [Canister -> [File -> Served]]
  PROVE  TypesOK'
<1>1. failures' \in Nat /\ swallowed' \in Nat /\ losses' \in Nat BY BudgetTypes DEF TypesOK
<1>2. ChainOK' BY <1>1, CanistersStay DEF TypesOK, ChainOK
<1> QED BY <1>2 DEF TypesOK

\* The canisters that were done before are others.
LEMMA OthersDone ==
  ASSUME TypesOK, ProvisionsOK, run # None, rec.kind = "provision"
  PROVE  \A i \in 1..rec.index : Canisters[i] \in Canister \ {Provisioned(run.mem)}
<1>1. rec.index \in Nat /\ rec.index < Len(Canisters) /\ run.mem.index = rec.index /\ Len(Canisters) \in Nat
  BY OfProvision, Lists
<1>2. ASSUME NEW i \in 1..rec.index
      PROVE  i \in 1..Len(Canisters) /\ rec.index + 1 \in 1..Len(Canisters) /\ i # rec.index + 1
  BY <1>1
<1> QED BY <1>1, <1>2, Lists DEF Provisioned

\* It is shipped if it is what was approved.
LEMMA ShipFileP ==
  ASSUME TypesOK, ProvisionsOK, ShipFile
  PROVE  TypesOK' /\ ProvisionsOK' /\ rec' # None /\ rec'.kind = "provision"
<1>1. /\ run # None /\ run.at = "PROVISIONING" /\ run.todo # <<>> /\ rec' = rec /\ Succeeds /\ Call.op = "ship"
      /\ UNCHANGED <<canisters, store, origins, filed, before>> /\ store[Call.file] = "approved"
      /\ assets' = [assets EXCEPT ![Call.cid][Call.file] = store[Call.file]]
      /\ Answered([run EXCEPT !.mem.load = @ + 1])
  BY DEF ShipFile, Calling, At, MatchesManifest
<1>2. rec.kind = "provision" BY <1>1, KindOfPhase, PhasesAre
<1>3. /\ Open /\ rec # None /\ rec.status # "COMPLETE" /\ run.mem.index = rec.index /\ Provisioned(run.mem) \in Canister
      /\ rec.load < Len(Files) /\ rec.load <= run.mem.load /\ run.mem.load \in Nat /\ rec.load \in Nat /\ rec.index \in Nat
      /\ ShippedTo(rec) /\ ShippedTo(run.mem) /\ \A c \in Canister, f \in File : assets[c][f] # "newer"
      /\ assets \in [Canister -> [File -> Served]]
  BY <1>1, <1>2, OfProvision
<1>4. /\ Call = [op |-> "ship", cid |-> Provisioned(run.mem), file |-> Files[run.mem.load + 1]]
      /\ run.mem.load < Len(Files)
      /\ \E k \in (run.mem.load + 1)..Len(Files) :
           \A s : s.index = run.mem.index /\ s.load = run.mem.load + 1 => BatchCalls(Tail(run.todo), s, 0, k)
  BY <1>1, <1>2, BatchStep
<1>5. PICK n \in Nat, c \in Canister, f \in File :
        n = run.mem.load /\ c = Provisioned(run.mem) /\ f = Files[n + 1] /\ c = Call.cid /\ f = Call.file
  <2>0. Len(Files) \in Nat /\ run.mem.load \in Nat /\ run.mem.load < Len(Files) BY <1>3, <1>4, Lists
  <2>1. run.mem.load + 1 \in 1..Len(Files) BY <2>0
  <2> QED BY <1>3, <1>4, <2>1, Lists
<1>6. /\ RecordOK' /\ ExecutorOK' /\ run' # None /\ run'.todo = Tail(run.todo)
      /\ run'.mem.load = n + 1 /\ run'.mem.index = rec.index
  BY <1>1, <1>2, <1>3, <1>4, <1>5, LoadAnswers
<1>7. \A d \in Canister, g \in File : assets'[d][g] = (IF d = c /\ g = f THEN "approved" ELSE assets[d][g])
  BY <1>1, <1>3, <1>5
<1>8. assets' \in [Canister -> [File -> Served]]
  <2>1. "approved" \in Served BY DEF Served
  <2> QED BY <1>1, <1>3, <1>5, <2>1
<1>9. TypesOK' BY <1>1, <1>6, <1>8, ServeTypes
<1>10. \A i \in 1..rec.index, g \in File : Right(Canisters[i], g)'
  <2>1. \A i \in 1..rec.index : Canisters[i] \in Canister \ {c} BY <1>1, <1>2, <1>5, OthersDone
  <2>2. \A i \in 1..rec.index, g \in File : Right(Canisters[i], g) BY <1>3 DEF ShippedTo
  <2>3. \A i \in 1..rec.index, g \in File : assets'[Canisters[i]][g] = assets[Canisters[i]][g] BY <1>7, <2>1
  <2> QED BY <2>2, <2>3 DEF Right
<1>11. \A g \in File : Shipped(c, g) \/ g = f => Shipped(c, g)' BY <1>7 DEF Shipped
<1>12. \A j \in 1..(n + 1) : Files[j] \in File /\ Shipped(c, Files[j])'
  <2>1. \A j \in 1..n : Shipped(c, Files[j]) BY <1>3, <1>5 DEF ShippedTo
  <2>0. Len(Files) \in Nat /\ n < Len(Files) BY <1>4, <1>5, Lists
  <2>2. \A j \in 1..(n + 1) : j \in 1..Len(Files) /\ (j \in 1..n \/ j = n + 1) BY <2>0
  <2> QED BY <1>5, <1>11, <2>1, <2>2, Lists
<1>13. Provisioned(rec) = c /\ Provisioned(rec)' = c /\ Provisioned(run.mem)' = c
  BY <1>1, <1>3, <1>5, <1>6 DEF Provisioned
<1>14. ShippedTo(run.mem)' BY <1>6, <1>10, <1>12, <1>13 DEF ShippedTo
<1>15. ShippedTo(rec)'
  <2>1. \A j \in 1..rec.load : j \in 1..(n + 1) BY <1>3, <1>5
  <2> QED BY <1>1, <1>10, <1>12, <1>13, <2>1 DEF ShippedTo
<1>16. ProvisionOK'
  <2>1. run'.mem.load >= rec.load BY <1>3, <1>5, <1>6
  <2> QED BY <1>1, <1>3, <1>14, <1>15, <2>1 DEF ProvisionOK
<1>17. BatchOK'
  <2>1. \E i \in run'.mem.load..Len(Files), l \in 0..1 : BatchCalls(run'.todo, run'.mem, l, i)
    BY <1>3, <1>4, <1>5, <1>6
  <2> QED BY <2>1 DEF BatchOK, BatchCalls, Provisioned
<1>18. \A d \in Canister, g \in File : assets'[d][g] # "newer" BY <1>3, <1>7
<1> QED BY <1>1, <1>2, <1>3, <1>9, <1>16, <1>17, <1>18, OpenProvision

\* The extra files go over them.
LEMMA ShipExtraP ==
  ASSUME TypesOK, ProvisionsOK, ShipExtra
  PROVE  TypesOK' /\ ProvisionsOK' /\ rec' # None /\ rec'.kind = "provision"
<1>1. /\ run # None /\ run.at = "PROVISIONING" /\ run.todo # <<>> /\ rec' = rec /\ Succeeds /\ Call.op = "extra"
      /\ UNCHANGED <<canisters, store, origins, filed, before>> /\ Answered(run)
      /\ assets' = [assets EXCEPT ![Call.cid] = [f \in File |-> IF f \in Extra THEN "extra" ELSE @[f]]]
  BY DEF ShipExtra, Calling, At
<1>2. rec.kind = "provision" BY <1>1, KindOfPhase, PhasesAre
<1>3. /\ Open /\ rec # None /\ rec.status # "COMPLETE" /\ run.mem.index = rec.index /\ Provisioned(run.mem) \in Canister
      /\ rec.load < Len(Files) /\ rec.load <= run.mem.load /\ rec.load \in Nat /\ rec.index \in Nat
      /\ ShippedTo(rec) /\ ShippedTo(run.mem) /\ \A c \in Canister, f \in File : assets[c][f] # "newer"
      /\ assets \in [Canister -> [File -> Served]]
  BY <1>1, <1>2, OfProvision
<1>4. /\ Call = [op |-> "extra", cid |-> Provisioned(run.mem)] /\ run.mem.load = Len(Files)
      /\ Tail(run.todo) = <<>>
  BY <1>1, <1>2, BatchStep
<1>5. PICK c \in Canister : c = Provisioned(run.mem) /\ c = Call.cid BY <1>3, <1>4
<1>6. /\ RecordOK' /\ ExecutorOK' /\ run' # None /\ run'.todo = <<>> /\ run'.mem = run.mem
  BY <1>1, <1>4, PlainAnswers
<1>7. /\ \A g \in File : assets'[c][g] = (IF g \in Extra THEN "extra" ELSE assets[c][g])
      /\ \A d \in Canister \ {c} : assets'[d] = assets[d]
  BY <1>1, <1>3, <1>5
<1>8. assets' \in [Canister -> [File -> Served]]
  <2>1. "extra" \in Served BY DEF Served
  <2>2. [f \in File |-> IF f \in Extra THEN "extra" ELSE assets[c][f]] \in [File -> Served] BY <1>3, <2>1
  <2>3. assets' = [assets EXCEPT ![c] = [f \in File |-> IF f \in Extra THEN "extra" ELSE assets[c][f]]] BY <1>1, <1>5
  <2> QED BY <1>3, <2>2, <2>3
<1>9. TypesOK' BY <1>1, <1>6, <1>8, ServeTypes
<1>10. \A i \in 1..rec.index, g \in File : Right(Canisters[i], g)'
  <2>1. \A i \in 1..rec.index : Canisters[i] \in Canister \ {c} BY <1>1, <1>2, <1>5, OthersDone
  <2>2. \A i \in 1..rec.index, g \in File : Right(Canisters[i], g) BY <1>3 DEF ShippedTo
  <2>3. \A i \in 1..rec.index : assets'[Canisters[i]] = assets[Canisters[i]] BY <1>7, <2>1
  <2> QED BY <2>2, <2>3 DEF Right
<1>11. \A g \in File : Shipped(c, g)
  <2>1. \A j \in 1..Len(Files) : Shipped(c, Files[j]) BY <1>3, <1>4, <1>5 DEF ShippedTo
  <2> QED BY <2>1, Lists
<1>12. \A g \in File : Right(c, g)' /\ Shipped(c, g)' BY <1>7, <1>11 DEF Right, Shipped
<1>13. Provisioned(rec)' = c /\ Provisioned(run.mem)' = c BY <1>1, <1>3, <1>5, <1>6 DEF Provisioned
<1>14. ShippedTo(run.mem)'
  <2>1. \A j \in 1..Len(Files) : Shipped(c, Files[j])' BY <1>12, Lists
  <2> QED BY <1>3, <1>4, <1>6, <1>10, <1>13, <2>1 DEF ShippedTo
<1>15. ShippedTo(rec)'
  <2>1. \A j \in 1..rec.load : j \in 1..Len(Files) BY <1>3, Lists
  <2>2. \A j \in 1..rec.load : Shipped(c, Files[j])' BY <1>12, <2>1, Lists
  <2> QED BY <1>1, <1>10, <1>13, <2>2 DEF ShippedTo
<1>16. ProvisionOK'
  <2>1. run'.mem.load >= rec.load BY <1>3, <1>4, <1>6, Lists
  <2> QED BY <1>1, <1>3, <1>14, <1>15, <2>1 DEF ProvisionOK
<1>17. \A f \in File : Right(Provisioned(run.mem), f)' BY <1>12, <1>13 DEF Right
<1>18. BatchOK' BY <1>4, <1>6, <1>17 DEF BatchOK
<1>19. \A d \in Canister, g \in File : assets'[d][g] # "newer" BY <1>3, <1>7
<1> QED BY <1>1, <1>2, <1>3, <1>9, <1>16, <1>18, <1>19, OpenProvision

\* An error ends it.
LEMMA ProvisionFailsP ==
  ASSUME TypesOK, ProvisionsOK, ProvisionFails
  PROVE  TypesOK' /\ ProvisionsOK' /\ rec' # None /\ rec'.kind = "provision"
<1>1. /\ run # None /\ run.at = "PROVISIONING" /\ Ends(run.mem, "FAILED_PROVISION") /\ (Succeeds \/ Fails)
      /\ UNCHANGED <<canisters, assets, store, origins, filed, before>>
  BY DEF ProvisionFails, Calling, At, FailsOr, Refused, Succeeds
<1>2. rec.kind = "provision" BY <1>1, KindOfPhase, PhasesAre
<1>3. /\ run.mem \in Record /\ CursorOK(run.mem) /\ run.mem.kind = "provision"
      /\ \A c \in Canister, f \in File : assets[c][f] # "newer"
  BY <1>1, <1>2, OfProvision
<1>4. "FAILED_PROVISION" \in Terminal BY DEF Terminal
<1>5. /\ RecordOK' /\ ExecutorOK' /\ rec' \in Record /\ rec'.status = "FAILED_PROVISION" /\ rec'.kind = "provision"
      /\ run' = None
  BY <1>1, <1>3, <1>4, SaveTypes
<1>6. TypesOK' BY <1>1, <1>5, CanistersStay, StepTypes
<1>7. rec' # None BY <1>5, NoneAssumption
<1>8. \A c \in Canister, f \in File : assets'[c][f] # "newer" BY <1>1, <1>3
<1> QED BY <1>4, <1>5, <1>6, <1>7, <1>8, ClosedProvision

\* Somebody changes the store.
LEMMA StoreChangesP ==
  ASSUME PhasesInv, NEW f \in File, StoreChanges(f)
  PROVE  PhasesInv'
<1>1. /\ \E v \in {"newer", "lost"} : store' = [store EXCEPT ![f] = v]
      /\ UNCHANGED <<canisters, assets, origins, filed, before, rec, run, budget>>
  BY DEF StoreChanges
<1>2. store' \in [File -> InStore] BY <1>1 DEF PhasesInv, TypesOK, ChainOK, InStore
<1>3. CanistersOK' BY <1>1, CanistersStay DEF PhasesInv
<1>4. TypesOK' BY <1>1, <1>2, <1>3 DEF PhasesInv, TypesOK, ChainOK, RecordOK, ExecutorOK, Open, budget
<1>5. UpgradesOK' BY <1>1 DEF PhasesInv, UpgradesOK, UpgradeOK, PhaseOK, StepOK, CleanOK, UndoOK, UpgradeEndsWhole,
       CompleteIsNew, EndsUniform, EndsRunning, Was, Upgrading, Open, Undoable, Clean, Installed, InstalledTo, Call, canisters,
       budget
<1>6. RestoresOK' BY <1>1 DEF PhasesInv, RestoresOK, RestoreOK, RestoringOK, RestoreUndoOK, RestoreStartOK, RestorePruneOK,
       RestoreOutcomeIsTrue, Was, Restoring, Open, Chosen, WayBack, Restored, canisters
<1>7. ProvisionsOK' BY <1>1 DEF PhasesInv, ProvisionsOK, ProvisionOK, BatchOK, Provisioning, Open, ShippedTo, Right, Shipped,
       Provisioned, ProvisionedAsApproved, Was
<1> QED BY <1>4, <1>5, <1>6, <1>7 DEF PhasesInv

\* A message is saved: the next batch, the next canister, or the end.
LEMMA BatchDoneP ==
  ASSUME TypesOK, ProvisionsOK, BatchDone
  PROVE  TypesOK' /\ ProvisionsOK' /\ rec' # None /\ rec'.kind = "provision"
<1>1. /\ run # None /\ run.at = "PROVISIONING" /\ run.todo = <<>>
      /\ UNCHANGED <<canisters, assets, store, origins, filed, before, budget>>
      /\ \/ run.mem.load < Len(Files) /\ Saves(run.mem)
         \/ /\ run.mem.load = Len(Files) /\ run.mem.index + 1 < Len(Canisters)
            /\ Saves([run.mem EXCEPT !.index = @ + 1, !.load = 0, !.listed = FALSE])
         \/ /\ run.mem.load = Len(Files) /\ run.mem.index + 1 = Len(Canisters)
            /\ Ends(run.mem, "COMPLETE")
  BY DEF BatchDone, Called, At
<1>2. rec.kind = "provision" BY <1>1, KindOfPhase, PhasesAre
<1>3. /\ Open /\ run.mem \in Record /\ CursorOK(run.mem) /\ run.mem.kind = "provision" /\ run.mem.index = rec.index
      /\ run.mem.status \in OpenStatus("provision") /\ rec.index \in Nat /\ run.mem.load \in Nat
      /\ ShippedTo(run.mem) /\ \A c \in Canister, f \in File : assets[c][f] # "newer"
      /\ \/ \E k \in run.mem.load..Len(Files), l \in 0..1 : BatchCalls(run.todo, run.mem, l, k)
         \/ /\ run.todo = <<>> /\ run.mem.load = Len(Files)
            /\ \A f \in File : Right(Provisioned(run.mem), f)
  BY <1>1, <1>2, OfProvision
<1>4. Len(Files) \in Nat \ {0} /\ Len(Canisters) \in Nat \ {0} BY Lists
\* With all files shipped and no call left, the extra ones were.
<1>5. run.mem.load = Len(Files) => \A f \in File : Right(Provisioned(run.mem), f)
  <2>1. ASSUME run.mem.load = Len(Files), NEW k \in run.mem.load..Len(Files), NEW l \in 0..1,
               BatchCalls(run.todo, run.mem, l, k)
        PROVE  FALSE
    <3>1. k = Len(Files) BY <1>4, <2>1
    <3>2. PICK ships \in Nat, n \in Nat : n = 1 /\ Len(run.todo) = l + ships + n BY <2>1, <3>1 DEF BatchCalls
    <3>3. Len(run.todo) = 0 BY <1>1
    <3> QED BY <3>2, <3>3
  <2> QED BY <1>3, <2>1
<1>6. \A i \in 1..rec.index, g \in File : Right(Canisters[i], g) BY <1>3 DEF ShippedTo
<1>7. assets' = assets BY <1>1
<1>8. CASE run.mem.load < Len(Files) /\ Saves(run.mem)
  <2>1. TypesOK' /\ rec' = run.mem /\ run' = None /\ rec' # None BY <1>1, <1>3, <1>8, SavedTypes
  <2>2. ShippedTo(rec)' BY <1>3, <1>7, <2>1 DEF ShippedTo, Right, Shipped, Provisioned
  <2>3. ProvisionOK' /\ BatchOK' BY <1>8, <2>1, <2>2 DEF ProvisionOK, BatchOK
  <2>4. rec'.status # "COMPLETE" BY <1>3, <2>1, PhasesAre
  <2> QED BY <1>3, <1>7, <2>1, <2>3, <2>4, OpenProvision
<1>9. CASE /\ run.mem.load = Len(Files) /\ run.mem.index + 1 < Len(Canisters)
           /\ Saves([run.mem EXCEPT !.index = @ + 1, !.load = 0, !.listed = FALSE])
  <2> DEFINE m == [run.mem EXCEPT !.index = @ + 1, !.load = 0, !.listed = FALSE]
  <2>1. m \in Record /\ m.kind = "provision" /\ m.status = run.mem.status /\ m.index = rec.index + 1 /\ m.load = 0
    <3>1. PICK x \in Nat : x = run.mem.index + 1 BY <1>3
    <3>2. PICK r \in Record : r = run.mem BY <1>3
    <3>3. m = [r EXCEPT !.index = x, !.load = 0, !.listed = FALSE] BY <3>1, <3>2
    <3> DEFINE a == [r EXCEPT !.index = x]
               b == [a EXCEPT !.load = 0]
               d == [b EXCEPT !.listed = FALSE]
    <3>4. a \in Record /\ a.kind = r.kind /\ a.status = r.status /\ a.index = x BY DEF Record
    <3> HIDE DEF a
    <3>5. b \in Record /\ b.kind = r.kind /\ b.status = r.status /\ b.index = x /\ b.load = 0 BY <3>4 DEF Record
    <3> HIDE DEF b
    <3>6. d \in Record /\ d.kind = r.kind /\ d.status = r.status /\ d.index = x /\ d.load = 0 BY <3>5 DEF Record
    <3> HIDE DEF d, m
    <3>7. m = d BY <3>3 DEF a, b, d
    <3> QED BY <1>3, <3>1, <3>2, <3>6, <3>7
  <2>2. Saves(m) BY <1>9
  <2> HIDE DEF m
  <2>3. CursorOK(m) BY <1>3, <1>4, <1>9, <2>1 DEF CursorOK
  <2>4. TypesOK' /\ rec' = m /\ run' = None /\ rec' # None BY <1>1, <1>3, <2>1, <2>2, <2>3, SavedTypes
  <2>5. \A i \in 1..(rec.index + 1), g \in File : Right(Canisters[i], g)
    <3>1. \A i \in 1..(rec.index + 1) : i \in 1..rec.index \/ i = rec.index + 1 BY <1>3
    <3>2. \A g \in File : Right(Canisters[rec.index + 1], g) BY <1>3, <1>5, <1>9 DEF Provisioned
    <3> QED BY <1>6, <3>1, <3>2
  <2>6. \A i \in 1..(rec.index + 1), g \in File : Right(Canisters[i], g)' BY <1>7, <2>5 DEF Right
  <2>7. ShippedTo(rec)' BY <2>1, <2>4, <2>6 DEF ShippedTo
  <2>8. ProvisionOK' /\ BatchOK' BY <1>4, <2>1, <2>4, <2>7 DEF ProvisionOK, BatchOK
  <2>9. rec'.status # "COMPLETE" BY <1>3, <2>1, <2>4, PhasesAre
  <2> QED BY <1>3, <1>7, <2>1, <2>4, <2>8, <2>9, OpenProvision
<1>10. CASE /\ run.mem.load = Len(Files) /\ run.mem.index + 1 = Len(Canisters)
            /\ Ends(run.mem, "COMPLETE")
  <2>1. "COMPLETE" \in Terminal BY DEF Terminal
  <2>2. /\ RecordOK' /\ ExecutorOK' /\ rec' \in Record /\ rec'.status = "COMPLETE" /\ rec'.kind = "provision"
        /\ run' = None
    BY <1>1, <1>3, <1>10, <2>1, SaveTypes
  <2>3. Succeeds BY <1>1 DEF Succeeds
  <2>4. TypesOK' /\ rec' # None BY <1>1, <2>2, <2>3, CanistersStay, StepTypes, NoneAssumption
  <2>5. ASSUME NEW c \in Canister, NEW g \in File PROVE Right(c, g)'
    <3>1. PICK i \in 1..Len(Canisters) : Canisters[i] = c BY Lists
    <3>2. i \in 1..rec.index \/ i = rec.index + 1 BY <1>3, <1>4, <1>10
    <3>3. \A h \in File : Right(Canisters[rec.index + 1], h) BY <1>3, <1>5, <1>10 DEF Provisioned
    <3>4. Right(c, g) BY <1>6, <3>1, <3>2, <3>3
    <3> QED BY <1>7, <3>4 DEF Right
  <2>6. \A c \in Canister, f \in File : assets'[c][f] # "newer" BY <1>3, <1>7
  <2> QED BY <2>1, <2>2, <2>4, <2>5, <2>6, ClosedProvision
<1> QED BY <1>1, <1>8, <1>9, <1>10
-----------------------------------------------------------------------------
(* All actions together *)

LEMMA InitInv ==
  ASSUME Init
  PROVE  PhasesInv
<1>1. /\ module = [c \in Canister |-> 0] /\ running = Canister
      /\ chunks = [c \in Canister |-> {}]
      /\ taken = [c \in Canister |-> <<>>] /\ kept = [c \in Canister |-> {}]
      /\ assets = [c \in Canister |-> [f \in File |-> "old"]]
      /\ store = [f \in File |-> "approved"]
      /\ filed = 0 /\ before = [module |-> module, running |-> running]
      /\ rec = None /\ run = None
      /\ failures = 0 /\ swallowed = 0 /\ losses = 0
  BY DEF Init
<1>2. 0 \in Version /\ 0 \in 0..MaxActions BY CallBoundsAssumption DEF Version
<1>3. CanistersOK
  <2>1. taken \in [Canister -> Seq(Snapshot)]
    <3>1. <<>> \in Seq(Snapshot) OBVIOUS
    <3> QED BY <1>1, <3>1
  <2>2. \A c \in Canister : kept[c] = {} BY <1>1
  <2>3. Cardinality({}) = 0 BY FS_EmptySet
  <2>4. \A c \in Canister : Cardinality(kept[c]) <= SnapshotLimit BY <2>2, <2>3, KeepAssumption
  <2>5. module \in [Canister -> Version] /\ running \subseteq Canister /\ chunks \in [Canister -> SUBSET (1..Pieces)]
    BY <1>1, <1>2
  <2>6. kept \in [Canister -> SUBSET Nat] /\ \A c \in Canister : kept[c] \subseteq 1..Len(taken[c]) BY <1>1
  <2> QED BY <2>1, <2>4, <2>5, <2>6 DEF CanistersOK
<1>4. assets \in [Canister -> [File -> Served]] /\ store \in [File -> InStore] BY <1>1 DEF Served, InStore
<1>5. before \in [module : [Canister -> Version], running : SUBSET Canister] BY <1>1, <1>3 DEF CanistersOK
<1>6. TypesOK BY <1>1, <1>2, <1>3, <1>4, <1>5 DEF TypesOK, ChainOK, RecordOK, ExecutorOK
<1>7. ~Open BY <1>1 DEF Open
<1>8. UpgradesOK
  BY <1>1, <1>7 DEF UpgradesOK, UpgradeOK, PhaseOK, StepOK, CleanOK, UndoOK, Upgrading, UpgradeEndsWhole, CompleteIsNew,
     EndsUniform, EndsRunning, Was
<1>9. RestoresOK
  BY <1>1, <1>7 DEF RestoresOK, RestoreOK, RestoringOK, RestoreUndoOK, RestoreStartOK, RestorePruneOK, Restoring,
     RestoreOutcomeIsTrue, Was
<1>10. \A c \in Canister, f \in File : assets[c][f] # "newer" BY <1>1
<1>11. ProvisionsOK
  BY <1>1, <1>7, <1>10 DEF ProvisionsOK, ProvisionOK, BatchOK, Provisioning, ProvisionedAsApproved, Was
<1> QED BY <1>6, <1>8, <1>9, <1>11 DEF PhasesInv

\* An upgrade's action is about an upgrade, and about no asset.
LEMMA KindKept ==
  ASSUME NEW r \in Record, NEW s, NEW i
  PROVE  /\ [r EXCEPT !.status = s].kind = r.kind /\ [r EXCEPT !.load = 0].kind = r.kind
         /\ [r EXCEPT !.index = i, !.load = 0].kind = r.kind
BY DEF Record

LEMMA OfUpgradeNext ==
  ASSUME TypesOK, UpgradeNext
  PROVE  (rec' # None => rec'.kind = "upgrade") /\ assets' = assets
<1>1. assets' = assets
  BY DEF UpgradeNext, BeginUpgradePhase, UpgradePhaseDone, PhaseDone, PhasePreFlight, PhaseStop, PhaseSnapshot,
     PhaseUpgradeStep, UpgradeStepDone, PhaseStart, PhaseVerify, KeepNewestSnapshots, UndoCall, UndoDone
<1>2. CASE BeginUpgradePhase
  <2>1. rec.kind = "upgrade" /\ rec # None /\ \E s : rec' = [rec EXCEPT !.status = s]
    BY <1>2 DEF BeginUpgradePhase, Open
  <2>2. rec \in Record BY <2>1 DEF TypesOK, RecordOK
  <2> QED BY <1>1, <2>1, <2>2, KindKept
<1>3. CASE UpgradeNext /\ ~BeginUpgradePhase
  <2>1. run # None /\ run.at \in PhasesOf("upgrade")
    BY <1>3, PhasesAre DEF UpgradeNext, UpgradePhaseDone, PhaseDone, PhasePreFlight, PhaseStop, PhaseSnapshot,
       PhaseUpgradeStep, UpgradeStepDone, PhaseStart, PhaseVerify, KeepNewestSnapshots, UndoCall, UndoDone, Calling, Called, At
  <2>2. rec.kind = "upgrade" /\ run.mem \in Record /\ run.mem.kind = "upgrade" BY <2>1, KindOfPhase, Executing
  <2>3. \/ rec' = rec
        \/ \E s : rec' = [run.mem EXCEPT !.status = s]
        \/ rec' = run.mem
        \/ rec' = [run.mem EXCEPT !.load = 0]
        \/ \E i : rec' = [run.mem EXCEPT !.index = i, !.load = 0]
    BY <1>3 DEF UpgradeNext, UpgradePhaseDone, PhaseDone, PhasePreFlight, PhaseStop, PhaseSnapshot,
       PhaseUpgradeStep, UpgradeStepDone, PhaseStart, PhaseVerify, KeepNewestSnapshots, UndoCall, UndoDone, UpgradeFailed,
       Ends, Saves
  <2>4. PICK m \in Record : m = run.mem /\ m.kind = "upgrade" BY <2>2
  <2>5. CASE rec' = rec \/ rec' = run.mem BY <1>1, <2>2, <2>5
  <2>6. CASE rec' = [m EXCEPT !.load = 0] BY <1>1, <2>4, <2>6, KindKept
  <2>7. CASE \E s : rec' = [m EXCEPT !.status = s]
    <3>1. PICK s : rec' = [m EXCEPT !.status = s] BY <2>7
    <3> QED BY <1>1, <2>4, <3>1, KindKept
  <2>8. CASE \E i : rec' = [m EXCEPT !.index = i, !.load = 0]
    <3>1. PICK i : rec' = [m EXCEPT !.index = i, !.load = 0] BY <2>8
    <3> QED BY <1>1, <2>4, <3>1, KindKept
  <2> QED BY <2>3, <2>4, <2>5, <2>6, <2>7, <2>8
<1> QED BY <1>2, <1>3

LEMMA UpgradeInv ==
  ASSUME PhasesInv, UpgradeNext
  PROVE  PhasesInv'
<1>1. TypesOK /\ UpgradesOK /\ ProvisionsOK BY DEF PhasesInv
<1>2. (rec' # None => rec'.kind = "upgrade") /\ assets' = assets BY <1>1, OfUpgradeNext
<1>3. TypesOK' /\ UpgradesOK'
  BY <1>1, BeginUpgradeU, PhaseDoneU, PreFlightU, StopU, SnapshotU, UpgradeStepU, StepDoneU, StartU, VerifyU, KeepU, UndoCallU,
     UndoDoneU DEF UpgradeNext
<1>4. rec' # None => rec'.kind # "restore" /\ rec'.kind # "provision" BY <1>2
<1> QED BY <1>1, <1>2, <1>3, <1>4, NotRestore, NotProvision DEF PhasesInv

LEMMA RestoreInv ==
  ASSUME PhasesInv, RestoreNext
  PROVE  PhasesInv'
<1>1. TypesOK /\ RestoresOK /\ ProvisionsOK BY DEF PhasesInv
<1>2. TypesOK' /\ RestoresOK' /\ rec' # None /\ rec'.kind = "restore"
  BY <1>1, BeginRestoreR, RestoreCallR, RestoreFailsR, RestoreLoadedR, RestoreUndoCallR, RestoreStartedR, RestorePruneR,
     RestoreDoneR DEF RestoreNext
<1>3. assets' = assets
  BY DEF RestoreNext, BeginRestore, RestoreCallSucceeds, RestoreCallFails, RestoreLoaded, RestoreUndoCall, RestoreStarted,
     RestorePrune, RestoreDone
<1>4. rec' # None => rec'.kind # "upgrade" /\ rec'.kind # "provision" BY <1>2
<1> QED BY <1>1, <1>2, <1>3, <1>4, NotUpgrade, NotProvision DEF PhasesInv

LEMMA ProvisionInv ==
  ASSUME PhasesInv, ProvisionNext
  PROVE  PhasesInv'
<1>1. CASE \E f \in File : StoreChanges(f) BY <1>1, StoreChangesP
<1>2. CASE BeginProvision \/ ListBundle \/ ShipFile \/ ShipExtra \/ ProvisionFails \/ BatchDone
  <2>1. TypesOK /\ ProvisionsOK BY DEF PhasesInv
  <2>2. TypesOK' /\ ProvisionsOK' /\ rec' # None /\ rec'.kind = "provision"
    BY <1>2, <2>1, BeginProvisionP, ListBundleP, ShipFileP, ShipExtraP, ProvisionFailsP, BatchDoneP
  <2>3. rec' # None => rec'.kind # "upgrade" /\ rec'.kind # "restore" BY <2>2
  <2> QED BY <2>2, <2>3, NotUpgrade, NotRestore DEF PhasesInv
<1> QED BY <1>1, <1>2 DEF ProvisionNext

LEMMA ProposalsInv ==
  ASSUME PhasesInv, ProposeManagedUpgrade \/ ProposeAssetProvision \/ ProposeSnapshotRestore
  PROVE  PhasesInv'
<1>1. TypesOK /\ ProvisionsOK /\ CanistersOK /\ filed \in 0..MaxActions /\ store \in [File -> InStore]
  BY DEF PhasesInv, TypesOK, ChainOK
<1>2. NoChoice \in [Canister -> Nat] BY DEF NoChoice
<1>3. CASE ProposeManagedUpgrade
  <2> DEFINE r == NewRecord("upgrade", NoChoice)
  <2>1. Approves(r) /\ store' = store /\ filed < MaxActions BY <1>3 DEF ProposeManagedUpgrade, Approves
  <2>2. /\ r \in Record /\ r.kind = "upgrade" /\ r.status = "APPROVED" /\ r.index = 0 /\ r.load = 0
        /\ r.refs = [c \in Canister |-> 0]
    BY <1>1, <1>2, <2>1, NewRecordIs
  <2> HIDE DEF r
  <2>3. \A c \in Canister : r.refs[c] = 0 BY <2>2
  <2>4. TypesOK' /\ UpgradesOK' BY <1>1, <2>1, <2>2, <2>3, ApprovesT, ApprovesU
  <2>5. rec' = r /\ assets' = assets BY <2>1 DEF Approves
  <2> QED BY <1>1, <2>2, <2>4, <2>5, NotRestore, NotProvision DEF PhasesInv
<1>4. CASE ProposeAssetProvision
  <2> DEFINE r == NewRecord("provision", NoChoice)
  <2>1. Approves(r) /\ store' = [f \in File |-> "approved"] /\ filed < MaxActions
    BY <1>4 DEF ProposeAssetProvision, Approves
  <2>2. /\ r \in Record /\ r.kind = "provision" /\ r.status = "APPROVED" /\ r.index = 0 /\ r.load = 0
    BY <1>1, <1>2, <2>1, NewRecordIs
  <2> HIDE DEF r
  <2>3. store' \in [File -> InStore] BY <2>1 DEF InStore
  <2>4. TypesOK' /\ ProvisionsOK' BY <1>1, <2>1, <2>2, <2>3, ApprovesT, ApprovesP
  <2>5. rec' = r BY <2>1 DEF Approves
  <2> QED BY <2>2, <2>4, <2>5, NotUpgrade, NotRestore DEF PhasesInv
<1>5. CASE ProposeSnapshotRestore
  <2>1. PICK choice \in RestoreChoices : Approves(NewRecord("restore", choice)) /\ store' = store
    BY <1>5 DEF ProposeSnapshotRestore
  <2>2. \A c \in Canister : choice[c] \in {0} \cup kept[c] BY DEF RestoreChoices
  <2>3. choice \in [Canister -> Nat] /\ \A c \in Canister : choice[c] # 0 => choice[c] \in 1..Len(taken[c])
    <3>1. \A c \in Canister : kept[c] \subseteq 1..Len(taken[c]) /\ Len(taken[c]) \in Nat
      BY <1>1, KeptFinite DEF CanistersOK
    <3>2. \A c \in Canister : choice[c] \in Nat BY <2>2, <3>1
    <3>3. DOMAIN choice = Canister /\ choice = [c \in Canister |-> choice[c]] BY DEF RestoreChoices
    <3> QED BY <2>2, <3>1, <3>2, <3>3
  <2> DEFINE r == NewRecord("restore", choice)
  <2>4. Approves(r) /\ filed < MaxActions BY <2>1 DEF Approves
  <2>5. /\ r \in Record /\ r.kind = "restore" /\ r.status = "APPROVED" /\ r.index = 0 /\ r.load = 0 /\ r.choice = choice
    BY <1>1, <2>3, <2>4, NewRecordIs
  <2> HIDE DEF r
  <2>6. TypesOK' /\ RestoresOK' BY <1>1, <2>1, <2>3, <2>4, <2>5, ApprovesT, ApprovesR
  <2>7. rec' = r /\ assets' = assets BY <2>4 DEF Approves
  <2> QED BY <1>1, <2>5, <2>6, <2>7, NotUpgrade, NotProvision DEF PhasesInv
<1> QED BY <1>3, <1>4, <1>5

LEMMA NextInv ==
  ASSUME PhasesInv, [Next]_vars
  PROVE  PhasesInv'
<1>1. CASE LoseExecutor
  <2>1. TypesOK /\ UpgradesOK /\ RestoresOK /\ ProvisionsOK BY DEF PhasesInv
  <2> QED BY <1>1, <2>1, LoseT, LoseU, LoseR, LoseP DEF PhasesInv
<1>2. CASE UNCHANGED vars
  <2>1. UNCHANGED <<canisters, assets, store, origins, filed, before, rec, run, budget>> BY <1>2 DEF vars
  <2>2. CanistersOK' BY <2>1, CanistersStay DEF PhasesInv
  <2>3. TypesOK' BY <2>1, <2>2 DEF PhasesInv, TypesOK, ChainOK, RecordOK, ExecutorOK, Open, budget
  <2>4. UpgradesOK' BY <2>1 DEF PhasesInv, UpgradesOK, UpgradeOK, PhaseOK, StepOK, CleanOK, UndoOK, UpgradeEndsWhole,
         CompleteIsNew, EndsUniform, EndsRunning, Was, Upgrading, Open, Undoable, Clean, Installed, InstalledTo, Call, canisters,
         budget
  <2>5. RestoresOK' BY <2>1 DEF PhasesInv, RestoresOK, RestoreOK, RestoringOK, RestoreUndoOK, RestoreStartOK, RestorePruneOK,
         RestoreOutcomeIsTrue, Was, Restoring, Open, Chosen, WayBack, Restored, canisters
  <2>6. ProvisionsOK' BY <2>1 DEF PhasesInv, ProvisionsOK, ProvisionOK, BatchOK, Provisioning, Open, ShippedTo, Right, Shipped,
         Provisioned, ProvisionedAsApproved, Was
  <2> QED BY <2>3, <2>4, <2>5, <2>6 DEF PhasesInv
<1> QED BY <1>1, <1>2, UpgradeInv, RestoreInv, ProvisionInv, ProposalsInv DEF Next

\* The invariant says what the runs check.
LEMMA InvMeans ==
  ASSUME PhasesInv
  PROVE  TypeOK /\ UpgradeEndsWhole /\ WayBackExists /\ RestoreOutcomeIsTrue /\ ProvisionedAsApproved
<1>1. TypesOK /\ CanistersOK BY DEF PhasesInv, TypesOK, ChainOK
<1>2. UpgradeEndsWhole /\ RestoreOutcomeIsTrue /\ ProvisionedAsApproved
  BY DEF PhasesInv, UpgradesOK, RestoresOK, ProvisionsOK
<1>3. WayBackExists BY DEF PhasesInv, UpgradesOK, UpgradeOK, Upgrading, Undoable, WayBackExists
<1>4. ASSUME rec # None PROVE rec \in Record /\ rec.index <= Len(Canisters) /\ rec.load <= Max({Pieces, Len(Files)})
  <2>1. rec \in Record /\ CursorOK(rec) /\ rec.kind \in {"upgrade", "restore", "provision"}
    BY <1>1, <1>4 DEF TypesOK, RecordOK, Record
  <2>2. Pieces \in Nat /\ Len(Files) \in Nat /\ Len(Canisters) \in Nat /\ rec.index \in Nat /\ rec.load \in Nat
    BY <2>1, Lists DEF Record
  <2>3. Pieces <= Max({Pieces, Len(Files)}) /\ Len(Files) <= Max({Pieces, Len(Files)}) /\ Max({Pieces, Len(Files)}) \in Nat
    <3>1. {Pieces, Len(Files)} \subseteq 0..(Pieces + Len(Files)) /\ Pieces + Len(Files) \in Nat BY <2>2
    <3>2. Max({Pieces, Len(Files)}) \in {Pieces, Len(Files)} /\ \A m \in {Pieces, Len(Files)} : m <= Max({Pieces, Len(Files)})
      BY <3>1, MaxOfBounded
    <3> QED BY <2>2, <3>2
  <2>4. rec.index <= Len(Canisters) /\ (rec.load <= Pieces \/ rec.load <= Len(Files)) BY <2>1, <2>2 DEF CursorOK
  <2>5. \A a, b, c \in Nat : a <= b /\ b <= c => a <= c OBVIOUS
  <2> QED BY <2>1, <2>2, <2>3, <2>4, <2>5
<1>5. ASSUME run # None PROVE Open /\ run \in Executor
  <2>1. /\ run \in [at : Phase, mem : Record, todo : Seq(Asked(run.at)), noted : SUBSET Canister,
                    problems : 0..2, end : Terminal \cup {None}]
        /\ Open
    BY <1>1, <1>5 DEF TypesOK, ExecutorOK
  <2>2. run.at \in Phase BY <2>1
  <2> QED BY <2>1, <2>2, IsExecutor
<1>6. \A c \in Canister : kept[c] \subseteq DOMAIN taken[c]
  <2>1. \A c \in Canister : DOMAIN taken[c] = 1..Len(taken[c]) BY <1>1, KeptFinite
  <2> QED BY <1>1, <2>1 DEF CanistersOK
<1>7. TypeOK BY <1>1, <1>4, <1>5, <1>6 DEF TypeOK, TypesOK, ChainOK, CanistersOK
<1> QED BY <1>2, <1>3, <1>7

\* The invariant holds: what an executor has left to call is what the state lacks.
THEOREM PhasesHold == Spec => []PhasesInv
<1> QED BY InitInv, NextInv, PTL DEF Spec

\* Records, executors and what is on the chain have the types the phases expect
\* of them, whatever is found, fails or is lost.
THEOREM PhasesTyped == Spec => []TypeOK
<1>1. PhasesInv => TypeOK BY InvMeans
<1> QED BY <1>1, PhasesHold, PTL

\* A managed upgrade that completes leaves the whole stand on the approved module, and
\* one that ends another way leaves it whole where it was, running, unless an error went
\* unnoticed or an executor was lost (pipeline.py's phases and their undo).
THEOREM UpgradesEndWhole == Spec => []UpgradeEndsWhole
<1>1. PhasesInv => UpgradeEndsWhole BY InvMeans
<1> QED BY <1>1, PhasesHold, PTL

\* Neither pruning nor a later call takes away a snapshot an open upgrade goes back to.
THEOREM WayBackStays == Spec => []WayBackExists
<1>1. PhasesInv => WayBackExists BY InvMeans
<1> QED BY <1>1, PhasesHold, PTL

\* A restore that says it is complete, or rolled back, is (restore_gen's outcomes).
THEOREM RestoresTellTheTruth == Spec => []RestoreOutcomeIsTrue
<1>1. PhasesInv => RestoreOutcomeIsTrue BY InvMeans
<1> QED BY <1>1, PhasesHold, PTL

\* Only approved content is served, however the store changes under the action, and a
\* complete provision serves all of it (asset_provision_step_gen).
THEOREM ProvisionsServeApproved == Spec => []ProvisionedAsApproved
<1>1. PhasesInv => ProvisionedAsApproved BY InvMeans
<1> QED BY <1>1, PhasesHold, PTL
=============================================================================
