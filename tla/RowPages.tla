------------------------------- MODULE RowPages -------------------------------
(***************************************************************************)
(* How rows are found (src/model.py, `reindex' of src/orchestra.py,        *)
(* `query_all' of casals_cli/ic.py).  Lists are read a page at a time, by  *)
(* the ids of the rows, and a command that reads a list whole sends one    *)
(* query after another.  Lookups go through an index of a field; a release *)
(* that adds one fills it in a batch of rows at a time, on the conductor's *)
(* rounds, and until then lookups look at every row.  Between two queries, *)
(* and between two batches, rows are written, added and deleted.           *)
(*                                                                         *)
(* It is about one kind of row and one field.  Rows from before the field  *)
(* have a value, derived from their other fields, and none stored.         *)
(***************************************************************************)
EXTENDS Naturals, Sequences, FiniteSets, FiniteSetsExt, SequencesExt, Ordered

CONSTANTS
  Values,    \* of the field
  Blank,     \* no value
  OldRows,   \* rows from before the field: ids 1..OldRows
  MaxRows,   \* bound: ids given
  MaxWrites, \* bound: rows written
  BATCH,     \* rows a batch goes over
  PAGE       \* rows a command asks for in one query

ASSUME BlankAssumption == Blank \notin Values
ASSUME PagesAssumption == OldRows \in Nat /\ MaxRows \in Nat /\ BATCH \in Nat \ {0} /\ PAGE \in Nat \ {0}

VARIABLES
  field,     \* id -> the row's value, or Blank when there is no row
  stored,    \* id -> what is stored in the field, or Blank
  entries,   \* the index: <<value, id>>
  index,     \* the backfill: whether it is over, and where it goes on
  last,      \* the last id given
  listing,   \* a command reading a list
  writes

rowVars == <<field, stored, entries, index, last, listing, writes>>

Id == 1..MaxRows
There == {i \in Id : field[i] # Blank}
NoListing == [at |-> "idle"]

RowsInit ==
  /\ field \in {f \in [Id -> Values \cup {Blank}] : \A i \in Id : f[i] # Blank <=> i <= OldRows}
  /\ stored = [i \in Id |-> Blank] /\ entries = {}
  /\ index = [complete |-> FALSE, from |-> 1] /\ last = OldRows
  /\ listing = NoListing /\ writes = 0
-----------------------------------------------------------------------------
(* Pages *)

\* page: at most count rows from an id on.
Page(start, count) ==
  LET rows == Ascending({i \in There : i >= start})
  IN SubSeq(rows, 1, Min({count, Len(rows)}))

\* Where the next page starts, 0 after the last.
NextFrom(got, count) == IF Len(got) = count THEN got[count] + 1 ELSE 0

\* Mutant: a page ends the list when the caller reads fewer of its rows than asked for.
PageReadEndsOnFiltered(start, count, readable) ==
  LET got == Ascending({i \in ToSet(Page(start, count)) : field[i] \in readable})
  IN [rows |-> got, next |-> NextFrom(got, count)]

\* Those of the page's rows the caller reads, and where the next page starts.
PageRead(start, count, readable) ==
  LET got == Page(start, count)
  IN [rows |-> Ascending({i \in ToSet(got) : field[i] \in readable}), next |-> NextFrom(got, count)]
-----------------------------------------------------------------------------
(* Lookups *)

\* matching: through the index once it is complete, else past every row.
Matching(v) ==
  IF index.complete THEN {i \in Id : <<v, i>> \in entries} ELSE {i \in Id : field[i] = v}

\* The value of a row that predates the field, stored.
Derived(rows) == [i \in Id |-> IF i \in rows THEN field[i] ELSE stored[i]]

\* reindex_batch, a round: where it goes on is stored, so an upgrade or a round that
\* traps loses nothing.
ReindexBatch ==
  LET got == Page(index.from, BATCH)
      rows == {got[i] : i \in DOMAIN got}
      nxt == NextFrom(got, BATCH)
  IN /\ ~index.complete
     /\ stored' = Derived(rows)
     /\ entries' = entries \cup {<<stored'[i], i>> : i \in {j \in rows : stored'[j] # Blank}}
     /\ index' = IF nxt = 0 THEN [complete |-> TRUE, from |-> 1] ELSE [index EXCEPT !.from = nxt]
     /\ UNCHANGED <<field, last, listing, writes>>
-----------------------------------------------------------------------------
(* Rows *)

\* A reader that is under way may miss a row that changes under it.
Changes(i, now) ==
  listing' = IF listing.at # "reading" THEN listing
             ELSE [listing EXCEPT !.throughout = IF now \in listing.readable THEN @ ELSE @ \ {i},
                                  !.ever = IF now \in listing.readable THEN @ \cup {i} ELSE @]
Writes(i, v) ==
  /\ field' = [field EXCEPT ![i] = v] /\ stored' = [stored EXCEPT ![i] = v]
  /\ entries' = {e \in entries : e[2] # i} \cup (IF v = Blank THEN {} ELSE {<<v, i>>})
  /\ Changes(i, v) /\ writes < MaxWrites /\ writes' = writes + 1
  /\ UNCHANGED index

\* Ids are given in order, and never again.
CreateRow ==
  /\ last < MaxRows /\ last' = last + 1
  /\ \E v \in Values : Writes(last', v)

\* set_build, a rescope, a hand-over: the field of a row is assigned.
WriteRow == UNCHANGED last /\ \E i \in There, v \in Values : Writes(i, v)
DeleteRow == UNCHANGED last /\ \E i \in There : Writes(i, Blank)
-----------------------------------------------------------------------------
(* query_all *)

ListBegins ==
  /\ listing.at # "reading"
  /\ \E readable \in (SUBSET Values) \ {{}} :
       LET mine == {i \in There : field[i] \in readable}
       IN listing' = [at |-> "reading", from |-> 1, count |-> PAGE, out |-> <<>>, readable |-> readable,
                      throughout |-> mine, ever |-> mine]
  /\ UNCHANGED <<field, stored, entries, index, last, writes>>

\* A page past the instruction limit is asked again at half.
PageHalved ==
  /\ listing.at = "reading" /\ listing.count > 1
  /\ listing' = [listing EXCEPT !.count = @ \div 2]
  /\ UNCHANGED <<field, stored, entries, index, last, writes>>

ListPage ==
  /\ listing.at = "reading"
  /\ LET got == PageRead(listing.from, listing.count, listing.readable)
     IN listing' = [listing EXCEPT !.out = @ \o got.rows, !.from = got.next,
                                   !.at = IF got.next = 0 THEN "read" ELSE "reading"]
  /\ UNCHANGED <<field, stored, entries, index, last, writes>>

RowsNext ==
  \/ ReindexBatch
  \/ CreateRow \/ WriteRow \/ DeleteRow
  \/ ListBegins \/ PageHalved \/ ListPage
-----------------------------------------------------------------------------
(* Properties *)

\* A lookup finds the rows with a value and no others, before, while and after the index
\* is filled in, whatever is written between its batches; and a list read whole has every
\* row its reader could read all along, none that it never could, and none twice,
\* whatever is added or deleted between its pages.
RowsAreFound ==
  /\ \A v \in Values : Matching(v) = {i \in Id : field[i] = v}
  /\ listing.at = "read" =>
       /\ IsInjective(listing.out)
       /\ listing.throughout \subseteq ToSet(listing.out) /\ ToSet(listing.out) \subseteq listing.ever
=============================================================================
