----------------------------- MODULE WasmUploads ------------------------------
(***************************************************************************)
(* Who may upload to the asset store (src/wasms.py, `permit' of            *)
(* src/store.py).  The conductor gives an uploader the store's permission  *)
(* to commit, and takes it back when the uploader says it is done, or      *)
(* when somebody begins or ends an hour later; `uploads', in memory only,  *)
(* says whose permission there is to take back.                            *)
(*                                                                         *)
(* What the conductor asks the store arrives in the order asked, so each   *)
(* grant and revocation counts when it is asked; the answer comes later,   *)
(* and others begin and end in between.                                    *)
(***************************************************************************)
EXTENDS Naturals

CONSTANTS
  Uploaders,
  Visits,       \* calls of wasm_upload_begin and _end under way at a time
  MaxVisits,    \* bound: calls made
  MaxMissteps   \* bound: calls of the store that fail

VARIABLES
  may,        \* the store: the uploaders with its Commit permission
  uploads,    \* Uploaders -> "live", "due" when the hour is over, or "none"
  visit,      \* Visits -> the call: where it waits, whose it is, what it is
  visits, missteps,
  slipped     \* history: uploaders about whom a call failed, or whose record an upgrade dropped

uploadVars == <<may, uploads, visit, visits, missteps, slipped>>

NoVisit == [at |-> "free"]
VisitAt(v, at) == visit[v].at = at
Who(v) == visit[v].who

UploadsInit ==
  /\ may = {} /\ uploads = [p \in Uploaders |-> "none"]
  /\ visit = [v \in Visits |-> NoVisit] /\ visits = 0
  /\ missteps = 0 /\ slipped = {}
-----------------------------------------------------------------------------
(* What a visit does next *)

Due == {p \in Uploaders : uploads[p] = "due"}
Visiting(v, r) == visit' = [visit EXCEPT ![v] = r]
Asking(v, who, does, due) == [at |-> "asked", who |-> who, does |-> does, due |-> due]

\* store.permit: done, and answered later; or it fails, done or not, and that ends the call.
Permit(v, p, now, next) ==
  \/ may' = now /\ Visiting(v, next) /\ UNCHANGED <<missteps, slipped>>
  \/ /\ missteps < MaxMissteps /\ missteps' = missteps + 1 /\ slipped' = slipped \cup {p}
     /\ may' \in {may, now} /\ Visiting(v, NoVisit)

\* expire: the record of the next one due goes, and then its permission; one whose record
\* another call has dropped meanwhile raises.  After the last, a begin gives its own
\* uploader the permission, and an end is over.
Expire(v, who, does, due) ==
  \/ /\ due = {}
     /\ \/ does = "begin" /\ Permit(v, who, may \cup {who}, [at |-> "granted", who |-> who])
        \/ does = "end" /\ Visiting(v, NoVisit) /\ UNCHANGED <<may, missteps, slipped>>
     /\ UNCHANGED uploads
  \/ \E p \in due :
       \/ /\ uploads[p] # "none" /\ uploads' = [uploads EXCEPT ![p] = "none"]
          /\ Permit(v, p, may \ {p}, Asking(v, who, does, due \ {p}))
       \/ uploads[p] = "none" /\ Visiting(v, NoVisit) /\ UNCHANGED <<may, uploads, missteps, slipped>>
-----------------------------------------------------------------------------
Visited(v) == VisitAt(v, "free") /\ visits < MaxVisits /\ visits' = visits + 1

\* wasm_upload_begin.
UploadBegin(v) == Visited(v) /\ \E p \in Uploaders : Expire(v, p, "begin", Due)

\* The permission is there, and so is its record, for an hour.
Granted(v) ==
  /\ VisitAt(v, "granted")
  /\ uploads' = [uploads EXCEPT ![Who(v)] = "live"] /\ Visiting(v, NoVisit)
  /\ UNCHANGED <<may, visits, missteps, slipped>>

\* wasm_upload_end: the uploader's own record and permission go first.
UploadEnd(v) ==
  /\ Visited(v)
  /\ \E p \in Uploaders :
       /\ uploads' = [uploads EXCEPT ![p] = "none"]
       /\ Permit(v, p, may \ {p}, [at |-> "ended", who |-> p])

\* Mutant: the record goes when the store has answered.
AnswerEndLate(v) ==
  /\ VisitAt(v, "ended") /\ uploads' = [uploads EXCEPT ![Who(v)] = "none"]
  /\ Visiting(v, NoVisit) /\ UNCHANGED <<may, visits, missteps, slipped>>

\* The answers: those due are looked up, or the next of them is taken.
AnswerEnd(v) == VisitAt(v, "ended") /\ Expire(v, Who(v), "end", Due) /\ UNCHANGED visits
Expired(v) ==
  /\ VisitAt(v, "asked") /\ Expire(v, Who(v), visit[v].does, visit[v].due)
  /\ UNCHANGED visits

HourPasses(p) ==
  /\ uploads[p] = "live" /\ uploads' = [uploads EXCEPT ![p] = "due"]
  /\ UNCHANGED <<may, visit, visits, missteps, slipped>>

\* The conductor is stopped, once its calls are answered, and upgraded: memory is empty.
UploadsForgotten ==
  /\ \A v \in Visits : VisitAt(v, "free")
  /\ \E p \in Uploaders : uploads[p] # "none"
  /\ slipped' = slipped \cup {p \in Uploaders : uploads[p] # "none"}
  /\ uploads' = [p \in Uploaders |-> "none"]
  /\ UNCHANGED <<may, visit, visits, missteps>>

UploadsNext ==
  \/ \E v \in Visits : UploadBegin(v) \/ Granted(v) \/ UploadEnd(v) \/ AnswerEnd(v) \/ Expired(v)
  \/ \E p \in Uploaders : HourPasses(p)
  \/ UploadsForgotten
-----------------------------------------------------------------------------
(* Properties *)

\* Nobody keeps the permission unnoticed: whoever has it is on record, so that a later
\* call takes it back, or is about to be, in whichever order calls of several uploaders
\* overlap; unless a call of the store failed or an upgrade dropped the record.
PermitsAreOnRecord ==
  \A p \in may \ slipped : uploads[p] # "none" \/ \E v \in Visits : VisitAt(v, "granted") /\ Who(v) = p
=============================================================================
