----------------------------- MODULE Publishing ------------------------------
(***************************************************************************)
(* Filling the store (casals_cli/registry.py, wasm_store.py, bundle.diff). *)
(* `casals up' and `casals upgrade' publish what the sheet's registry      *)
(* names: the wasms, which are added to what the store has of them, and a  *)
(* bundle, whose namespace is to hold its files and nothing else.          *)
(*                                                                         *)
(* A publisher lists the store, uploads the files that differ, one batch   *)
(* each, and deletes what left the bundle.  A batch is committed as a      *)
(* whole; it makes the asset only when the key was not in the listing, and *)
(* fails when somebody else made or deleted it since.  A publisher may be  *)
(* killed at any time and run again, its last commit may be carried out    *)
(* when it is gone, and two may run together.                              *)
(***************************************************************************)
EXTENDS Naturals, Sequences, FiniteSets, SequencesExt

CONSTANTS
  Publishers,
  Files,        \* paths of a bundle, and family@version of the wasms
  Contents,     \* what a file may hold
  Absent,
  Registries,   \* what sheets name: Shelves -> Files -> Contents, or Absent
  MaxPublished, \* bound: times something is published
  MaxKilled     \* bound: publishers killed, or ended by a failing call

ASSUME FilesAssumption == IsFiniteSet(Files) /\ Absent \notin Contents
ASSUME PublishBoundsAssumption == MaxPublished \in Nat /\ MaxKilled \in Nat

Shelves == {"wasm", "frontend"}
Listings == [Files -> Contents \cup {Absent}]

ASSUME RegistriesAssumption == Registries \subseteq [Shelves -> Listings]

VARIABLES
  shelf,      \* Shelves -> Files -> what the store holds
  publisher,  \* Publishers -> what it publishes and where it is
  published, killed

publishVars == <<shelf, publisher, published, killed>>

NoPublisher == [at |-> "idle"]
PublisherGoes(p, r) == publisher' = [publisher EXCEPT ![p] = r]
PublisherAt(p, at) == publisher[p].at = at
Ns(p) == Head(publisher[p].left)

PublishInit ==
  /\ shelf = [n \in Shelves |-> [f \in Files |-> Absent]]
  /\ publisher = [p \in Publishers |-> NoPublisher]
  /\ published = 0 /\ killed = 0
-----------------------------------------------------------------------------
\* A wasm is read and its checksum compared before any wasm reaches the store; a bundle is
\* read when its turn comes.  alone (history): nobody else published since this one began.
BeginPublish(p) ==
  /\ publisher[p].at \in {"idle", "done"}
  /\ published < MaxPublished /\ published' = published + 1
  /\ \E registry \in Registries :
       publisher' = [o \in Publishers |->
         IF o = p THEN [at |-> "list", registry |-> registry, left |-> <<"wasm", "frontend">>,
                        alone |-> \A other \in Publishers \ {p} : publisher[other].at \in {"idle", "done"}]
         ELSE IF publisher[o].at = "idle" THEN publisher[o] ELSE [publisher[o] EXCEPT !.alone = FALSE]]
  /\ UNCHANGED <<shelf, killed>>

Wanted(p) == publisher[p].registry[Ns(p)]

\* Mutant: a file the store has is taken for the file of the bundle.
UploadsMissing(listed, wanted) == {f \in Files : wanted[f] # Absent /\ listed[f] = Absent}

\* bundle.diff
Uploads(listed, wanted) == {f \in Files : wanted[f] # Absent /\ wanted[f] # listed[f]}

\* Only a bundle has files to delete.
Deletes(n, listed, wanted) == IF n = "wasm" THEN {} ELSE {f \in Files : wanted[f] = Absent /\ listed[f] # Absent}

\* file_hashes, whose keys tell `upload' later what is there.
ListStore(p) ==
  LET n == Ns(p)
      ops(verb, S) == SetToSeq({[verb |-> verb, file |-> f] : f \in S})
      todo == ops("upload", Uploads(shelf[n], Wanted(p))) \o ops("delete", Deletes(n, shelf[n], Wanted(p)))
  IN /\ PublisherAt(p, "list")
     /\ PublisherGoes(p, [at |-> "send", registry |-> publisher[p].registry, left |-> publisher[p].left, alone |-> publisher[p].alone,
                          keys |-> {f \in Files : shelf[n][f] # Absent}, todo |-> todo])
     /\ UNCHANGED <<shelf, published, killed>>

\* create_batch and the chunks, which nobody sees yet.
SendChunks(p) ==
  /\ PublisherAt(p, "send") /\ publisher[p].todo # <<>>
  /\ PublisherGoes(p, [publisher[p] EXCEPT !.at = "commit"])
  /\ UNCHANGED <<shelf, published, killed>>

\* commit_batch; the store makes no asset that is there.
Commits(p, content) == shelf' = [shelf EXCEPT ![Ns(p)][Head(publisher[p].todo).file] = content]
Fits(p) == LET f == Head(publisher[p].todo).file IN (shelf[Ns(p)][f] # Absent) = (f \in publisher[p].keys)

CommitBatch(p) ==
  LET op == Head(publisher[p].todo)
      goesOn(keys) == PublisherGoes(p, [publisher[p] EXCEPT !.at = "send", !.todo = Tail(@), !.keys = keys])
      keys == publisher[p].keys
  IN /\ PublisherAt(p, "commit")
     /\ \/ op.verb = "upload" /\ Fits(p) /\ Commits(p, Wanted(p)[op.file]) /\ goesOn(keys \cup {op.file})
        \/ op.verb = "upload" /\ ~Fits(p) /\ PublisherGoes(p, NoPublisher) /\ UNCHANGED shelf
        \/ op.verb = "delete" /\ Commits(p, Absent) /\ goesOn(keys \ {op.file})
     /\ UNCHANGED <<published, killed>>

\* The next namespace, or the end.
Published(p) ==
  LET rest == Tail(publisher[p].left)
  IN /\ PublisherAt(p, "send") /\ publisher[p].todo = <<>>
     /\ PublisherGoes(p, [at |-> IF rest = <<>> THEN "done" ELSE "list",
                          registry |-> publisher[p].registry, left |-> rest, alone |-> publisher[p].alone])
     /\ UNCHANGED <<shelf, published, killed>>

Kill(p) ==
  /\ publisher[p].at \notin {"idle", "done"}
  /\ killed < MaxKilled /\ killed' = killed + 1
  /\ \/ PublisherGoes(p, NoPublisher)
     \/ PublisherAt(p, "commit") /\ PublisherGoes(p, [publisher[p] EXCEPT !.at = "late", !.alone = FALSE])
  /\ UNCHANGED <<shelf, published>>

\* The commit of a publisher that is gone is carried out after all, or never.
LateCommit(p) ==
  LET op == Head(publisher[p].todo)
  IN /\ PublisherAt(p, "late")
     /\ \/ op.verb = "upload" /\ Fits(p) /\ Commits(p, Wanted(p)[op.file])
        \/ op.verb = "delete" /\ Commits(p, Absent)
        \/ UNCHANGED shelf
     /\ PublisherGoes(p, NoPublisher)
     /\ UNCHANGED <<published, killed>>

PublishNext ==
  \E p \in Publishers :
    \/ BeginPublish(p) \/ ListStore(p) \/ SendChunks(p) \/ CommitBatch(p) \/ Published(p)
    \/ Kill(p) \/ LateCommit(p)
-----------------------------------------------------------------------------
(* Properties *)

\* What one publisher left half done, or two mixed, the next one that publishes alone (with
\* no commit of an earlier one under way either) puts right: the bundle's namespace then holds
\* exactly the bundle, and every wasm of the registry is the registry's.
PublishedExactly ==
  \A p \in Publishers : PublisherAt(p, "done") /\ publisher[p].alone =>
    /\ shelf["frontend"] = publisher[p].registry["frontend"]
    /\ \A f \in Files : publisher[p].registry["wasm"][f] \in {Absent, shelf["wasm"][f]}
=============================================================================
