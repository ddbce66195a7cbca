--------------------------- MODULE ContentDeploys ----------------------------
(***************************************************************************)
(* Deploying content to a frontend the conductor controls (src/content.py, *)
(* store.apply of src/store.py).  A bundle is a namespace of the store, and *)
(* people upload to it at any time.  A deploy compares the frontend's files *)
(* with the namespace's listing and writes MAX_FILES of them; while some   *)
(* are left the conductor's rounds do the same again, from the listing the *)
(* first one kept.                                                         *)
(*                                                                         *)
(* Nothing is atomic: each listing, read and write is a call, and two      *)
(* deploys may be under way together, for only the rounds' is recorded     *)
(* while it runs.  The record, the queue and the listings are in main      *)
(* memory.  The files a row gives the frontend itself and the properties   *)
(* of files are left out.                                                  *)
(***************************************************************************)
EXTENDS Naturals, FiniteSets, FiniteSetsExt

CONSTANTS
  Namespaces,   \* bundles
  Paths,        \* 1..n: the files, in their order
  Operators,    \* calls of content_deploy that may be under way
  TheRound,     \* the `content` job's round
  NoFile, Unlisted,
  MAX_FILES,    \* files one sync writes
  MaxUploads,   \* bound: files uploaded or deleted, and rows set
  MaxLosses     \* bound: calls that fail, rounds lost, upgrades

ASSUME ContentAssumption ==
  /\ IsFiniteSet(Paths) /\ Paths \subseteq Nat /\ MAX_FILES \in Nat \ {0}
  /\ TheRound \notin Operators /\ NoFile \notin Namespaces \X Nat /\ Namespaces # {}

VARIABLES
  store,      \* Namespaces -> its files
  served,     \* the frontend's files
  content,    \* the row's namespace
  deploy,     \* deploys: "none", "running", "done" or "failed"
  bundles,    \* Namespaces -> the listing kept, or Unlisted
  queued,     \* is the `content` job queued?
  sync,       \* Callers -> where it waits
  uploaded, lost,
  settled,    \* history: what a deploy that was alone recorded as done; Unlisted once another begins
  recent      \* history: the namespace's contents since the deploy was asked for, and
              \* the listing a round found when the row was given another one meanwhile

contentVars == <<store, served, content, deploy, bundles, queued, sync, uploaded, lost, settled, recent>>

Callers == Operators \cup {TheRound}
File == (Namespaces \X Nat) \cup {NoFile}  \* its bytes
Listing == [Paths -> File]
ASSUME UnlistedAssumption == Unlisted \notin Listing
Empty == [p \in Paths |-> NoFile]
Idle == [at |-> "idle", ns |-> CHOOSE n \in Namespaces : TRUE, want |-> Empty, puts |-> {}, data |-> Empty,
         deletes |-> {}, left |-> 0, alone |-> TRUE]
Busy == {t \in Callers : sync[t].at # "idle"}
Present(listing) == {p \in Paths : listing[p] # NoFile}

ContentInit ==
  /\ store = [n \in Namespaces |-> [p \in Paths |-> <<n, 0>>]] /\ served = Empty
  /\ content = Idle.ns /\ deploy = "none"  \* as good as any
  /\ bundles = [n \in Namespaces |-> Unlisted] /\ queued = FALSE
  /\ sync = [t \in Callers |-> Idle] /\ uploaded = 0 /\ lost = 0
  /\ settled = Unlisted /\ recent = {}
-----------------------------------------------------------------------------
(* The store and the row *)

Upload(n, p) ==
  /\ uploaded < MaxUploads /\ uploaded' = uploaded + 1
  /\ \E f \in {<<n, uploaded'>>, NoFile} : store' = [store EXCEPT ![n][p] = f]
  /\ recent' = IF \E t \in Busy : sync[t].ns = n THEN recent \cup {store'[n]} ELSE recent
  /\ UNCHANGED <<served, content, deploy, bundles, queued, sync, lost, settled>>

\* canister_set, and what follows a baton's release.
SetContent(n) ==
  /\ uploaded < MaxUploads /\ uploaded' = uploaded + 1
  /\ content # n /\ content' = n
  /\ UNCHANGED <<store, served, deploy, bundles, queued, sync, lost, settled, recent>>

ListingExpires(n) ==
  /\ bundles[n] # Unlisted /\ bundles' = [bundles EXCEPT ![n] = Unlisted]
  /\ UNCHANGED <<store, served, content, deploy, queued, sync, uploaded, lost, settled, recent>>
-----------------------------------------------------------------------------
(* Deploys *)

\* No deploy is alone any more once another begins beside it.
Began(t, n, at, want) ==
  sync' = [s \in Callers |->
    IF s = t THEN [Idle EXCEPT !.at = at, !.ns = n, !.want = want, !.alone = Busy = {}]
    ELSE [sync[s] EXCEPT !.alone = FALSE]]

\* Mutant: the listing an earlier deploy left behind is used again.
BeginDeployListed(t, n) ==
  /\ sync[t].at = "idle" /\ deploy # "running"
  /\ Began(t, n, IF bundles[n] = Unlisted THEN "list" ELSE "live", IF bundles[n] = Unlisted THEN Empty ELSE bundles[n])
  /\ settled' = Unlisted /\ recent' = {store[n]}
  /\ UNCHANGED <<store, served, content, deploy, bundles, queued, uploaded, lost>>

\* content_deploy. The record is read before the first call, and written after the last.
BeginDeploy(t, n) ==
  /\ sync[t].at = "idle" /\ deploy # "running"
  /\ bundles' = [bundles EXCEPT ![n] = Unlisted]
  /\ Began(t, n, "list", Empty)
  /\ settled' = Unlisted /\ recent' = {store[n]}
  /\ UNCHANGED <<store, served, content, deploy, queued, uploaded, lost>>

\* deploy_round, of the row's namespace.
BeginRound ==
  /\ queued /\ queued' = FALSE /\ sync[TheRound].at = "idle"
  /\ IF bundles[content] = Unlisted THEN Began(TheRound, content, "list", Empty)
     ELSE Began(TheRound, content, "live", bundles[content])
  /\ settled' = Unlisted
  /\ recent' = (recent \cup {store[content], bundles[content]}) \ {Unlisted}
  /\ UNCHANGED <<store, served, content, deploy, bundles, uploaded, lost>>

\* An exception: an operator is told, the job's `fail` records it.
SyncFails(t) ==
  /\ sync' = [sync EXCEPT ![t] = Idle]
  /\ deploy' = IF t = TheRound THEN "failed" ELSE deploy
  /\ UNCHANGED <<content, queued, settled>>

SyncEnds(t) ==
  LET s == sync[t]
      now == IF t \in Operators THEN s.ns ELSE content
  IN /\ content' = now
     /\ deploy' = IF s.left > 0 THEN "running" ELSE "done"
     /\ queued' = (queued \/ s.left > 0)
     /\ settled' = IF s.left = 0 /\ s.alone THEN s.want ELSE Unlisted
     /\ sync' = [sync EXCEPT ![t] = Idle]

\* sync drops the listing with the last file.
Ends(t) ==
  /\ SyncEnds(t)
  /\ bundles' = IF sync[t].left = 0 THEN [bundles EXCEPT ![sync[t].ns] = Unlisted] ELSE bundles

\* wanted: the listing, kept for the rounds.
Listed(t) ==
  /\ sync[t].at = "list"
  /\ \/ /\ Present(store[sync[t].ns]) = {} /\ SyncFails(t) /\ UNCHANGED bundles
     \/ /\ Present(store[sync[t].ns]) # {}
        /\ bundles' = [bundles EXCEPT ![sync[t].ns] = store[sync[t].ns]]
        /\ sync' = [sync EXCEPT ![t].at = "live", ![t].want = store[sync[t].ns]]
        /\ UNCHANGED <<deploy, content, queued, settled>>
  /\ UNCHANGED <<store, served, uploaded, lost, recent>>

Batch(writes) == {p \in writes : Cardinality({q \in writes : q <= p}) <= MAX_FILES}

\* sync: what differs, up to MAX_FILES, and what is to go once no more are left.
Compared(t) ==
  LET want == sync[t].want
      writes == {p \in Present(want) : served[p] # want[p]}
      puts == Batch(writes)
      left == Cardinality(writes \ puts)
      deletes == IF left = 0 THEN Present(served) \ Present(want) ELSE {}
  IN /\ sync[t].at = "live"
     /\ sync' = [sync EXCEPT ![t].at = IF puts # {} THEN "read" ELSE "apply",
                             ![t].puts = puts, ![t].deletes = deletes, ![t].left = left]
     /\ UNCHANGED <<store, served, content, deploy, bundles, queued, uploaded, lost, settled, recent>>

\* The files' bytes, as the store has them by now.
ReadFiles(t) ==
  /\ sync[t].at = "read"
  /\ \/ /\ \E p \in sync[t].puts : store[sync[t].ns][p] = NoFile
        /\ SyncFails(t)
     \/ /\ \A p \in sync[t].puts : store[sync[t].ns][p] # NoFile
        /\ sync' = [sync EXCEPT ![t].at = "apply", ![t].data = store[sync[t].ns]]
        /\ UNCHANGED <<deploy, content, queued, settled>>
  /\ UNCHANGED <<store, served, bundles, uploaded, lost, recent>>

\* apply: each file recreated, unless its bytes are not the listing's; the frontend
\* compares their hash, and the file is gone by then.
PutFile(t) ==
  LET p == Min(sync[t].puts)
  IN /\ sync[t].at = "apply" /\ sync[t].puts # {}
     /\ \/ /\ sync[t].data[p] = sync[t].want[p]
           /\ served' = [served EXCEPT ![p] = sync[t].want[p]]
           /\ sync' = [sync EXCEPT ![t].puts = @ \ {p}]
           /\ UNCHANGED <<deploy, content, queued, settled>>
        \/ /\ sync[t].data[p] # sync[t].want[p]
           /\ served' = [served EXCEPT ![p] = NoFile] /\ SyncFails(t)
     /\ UNCHANGED <<store, bundles, uploaded, lost, recent>>

DeleteFile(t) ==
  LET p == Min(sync[t].deletes)
  IN /\ sync[t].at = "apply" /\ sync[t].puts = {} /\ sync[t].deletes # {}
     /\ served' = [served EXCEPT ![p] = NoFile]
     /\ sync' = [sync EXCEPT ![t].deletes = @ \ {p}]
     /\ UNCHANGED <<store, content, deploy, bundles, queued, uploaded, lost, settled, recent>>

Applied(t) ==
  /\ sync[t].at = "apply" /\ sync[t].puts = {} /\ sync[t].deletes = {}
  /\ Ends(t)
  /\ UNCHANGED <<store, served, uploaded, lost, recent>>
-----------------------------------------------------------------------------
(* What goes wrong *)

Loss == lost < MaxLosses /\ lost' = lost + 1

\* A call fails; the one under way may have been done.
CallRefused(t) ==
  /\ t \in Busy /\ Loss
  /\ \/ UNCHANGED served
     \/ /\ sync[t].at = "apply" /\ sync[t].puts # {}
        /\ LET p == Min(sync[t].puts)
           IN \E f \in {NoFile} \cup ({sync[t].want[p]} \cap {sync[t].data[p]}) : served' = [served EXCEPT ![p] = f]
  /\ SyncFails(t)
  /\ UNCHANGED <<store, bundles, uploaded, recent>>

\* The conductor is upgraded: only rows are left.
UpgradeForgets ==
  /\ Loss /\ (queued \/ Busy # {})
  /\ deploy' = "none" /\ queued' = FALSE
  /\ bundles' = [n \in Namespaces |-> Unlisted] /\ sync' = [t \in Callers |-> Idle]
  /\ settled' = Unlisted /\ recent' = {}
  /\ UNCHANGED <<store, served, content, uploaded>>

ContentNext ==
  \/ \E n \in Namespaces : SetContent(n) \/ ListingExpires(n) \/ \E p \in Paths : Upload(n, p)
  \/ \E t \in Operators, n \in Namespaces : BeginDeploy(t, n)
  \/ BeginRound
  \/ \E t \in Callers : Listed(t) \/ Compared(t) \/ ReadFiles(t) \/ PutFile(t) \/ DeleteFile(t) \/ Applied(t) \/ CallRefused(t)
  \/ UpgradeForgets
-----------------------------------------------------------------------------
(* Properties *)

\* What a deploy records as done is a bundle as the store held it, whole, at some
\* moment since the deploy was asked for, however many rounds, uploads and failures
\* it took, unless another deploy was under way beside it.
DoneServesTheBundle == settled # Unlisted => deploy = "done" /\ served = settled /\ settled \in recent
=============================================================================
