--------------------------------- MODULE Kyc ---------------------------------
(***************************************************************************)
(* KycService, StorageService and the guards in front of review and trade, *)
(* over the kyc row of one user.  Submissions, uploads and reviews read    *)
(* the row, await, and update some of its columns; no row is locked, so    *)
(* handlers interleave between any two statements.                         *)
(*                                                                         *)
(* What a submission says in a field, and the file of an upload, are known *)
(* by the request they came with.  The times and the reason of a rejection *)
(* are written together with the status and are left out.                  *)
(***************************************************************************)
EXTENDS Integers, FiniteSets

CONSTANTS
  Requests,     \* request ids
  Offered,      \* the requests clients may send
  Fields,       \* fullName, dateOfBirth, address, idType, idNumber
  NoRow,        \* null: the user has no kyc row
  NoData,       \* null: no text, no key
  Concurrency   \* bound: requests in progress at the same time

Documents == {"id", "proof_of_address"}

(* trade stands for POST /wallet/convert and /wallet/trade. *)
Kinds   == {"submit", "upload", "review", "trade"}
Request == [kind : Kinds,
            admin : BOOLEAN,                    \* the role of who asks
            gives : SUBSET Fields,              \* submit: the fields sent
            document : Documents,               \* upload: documentType
            verdict : {"verified", "rejected"}] \* review: status

Version == Requests \union {NoData}
Row     == [status : {"pending", "verified", "rejected"},
            data : [Fields -> Version], key : [Documents -> Version]]

ASSUME OfferedAssumption == Offered \subseteq Request
ASSUME NullAssumption    == NoData \notin Requests /\ NoRow \notin Row
ASSUME BoundAssumption   == Concurrency \in Nat

VARIABLES
  asked,    \* what each request asks for
  stage,    \* the statement each request issues next
  read,     \* the row as each handler has read it
  result,   \* how each request ended
  row,      \* kyc: the row of the user
  file,     \* the file each upload has written
  crossed,  \* history: pairs of kinds of which two requests have overlapped
  sent,     \* history: the last submission that gave each field
  placed,   \* history: the last upload that was entered in the row, by type
  judged    \* history: the data an administrator's last approval had found

handler == <<asked, stage, read, result, crossed>>
vars    == <<handler, row, file, sent, placed, judged>>

Stages   == {"idle", "update", "create", "open", "write", "pipe", "attach",
             "judge", "execute", "done"}
Statuses == {"none", "ok", "refused", "conflict", "failed"}
Unjudged == [f \in Fields |-> NoData]

InProgress == {r \in Requests : stage[r] \notin {"idle", "done"}}

TypeOK ==
  /\ asked \in [Requests -> Offered]
  /\ stage \in [Requests -> Stages]
  /\ read \in [Requests -> Row \union {NoRow}]
  /\ result \in [Requests -> Statuses]
  /\ row \in Row \union {NoRow}
  /\ file \in [Requests -> {"none", "partial", "complete"}]
  /\ crossed \subseteq SUBSET Kinds
  /\ sent \in [Fields -> Version]
  /\ placed \in [Documents -> Version]
  /\ judged \in [Fields -> Version]

Init ==
  /\ asked \in [Requests -> Offered]
  /\ stage = [r \in Requests |-> "idle"]
  /\ read = [r \in Requests |-> NoRow]
  /\ result = [r \in Requests |-> "none"]
  /\ row = NoRow
  /\ file = [r \in Requests |-> "none"]
  /\ crossed = {}
  /\ sent = Unjudged
  /\ placed = [d \in Documents |-> NoData]
  /\ judged = Unjudged

-----------------------------------------------------------------------------
(* The handler ends; what it had read is gone. *)
Finish(r, status) ==
  /\ stage' = [stage EXCEPT ![r] = "done"]
  /\ result' = [result EXCEPT ![r] = status]
  /\ read' = [read EXCEPT ![r] = NoRow]

(* It awaits the statement at s, having read the row as found. *)
Awaits(r, s, found) ==
  /\ stage' = [stage EXCEPT ![r] = s]
  /\ read' = [read EXCEPT ![r] = found]
  /\ UNCHANGED result

(* Request r of a kind arrives, among those in progress. *)
Begins(r, kind) ==
  /\ stage[r] = "idle"
  /\ asked[r].kind = kind
  /\ Cardinality(InProgress) < Concurrency
  /\ crossed' = crossed \union {{kind, asked[s].kind} : s \in InProgress}
  /\ UNCHANGED <<asked, row, file, sent, placed, judged>>

(* Request r takes its step at s. *)
At(r, s) == stage[r] = s /\ UNCHANGED <<asked, crossed>>

-----------------------------------------------------------------------------
(* POST /kyc/submit. *)

(* findByUserId. *)
Submit(r) ==
  /\ Begins(r, "submit")
  /\ Awaits(r, IF row = NoRow THEN "create" ELSE "update", row)

Given(r) == [f \in Fields |-> IF f \in asked[r].gives THEN r ELSE NoData]

(* Fault: a field that is not sent is emptied. *)
Overwritten(r) == Given(r)

(* data.fullName ?? existing.fullName, and so on. *)
Merged(r) == [f \in Fields |-> IF f \in asked[r].gives THEN r ELSE read[r].data[f]]

Sent(r) == sent' = [f \in Fields |-> IF f \in asked[r].gives THEN r ELSE sent[f]]

(* Fault: the entity is written back whole, as it was read. *)
SavedBy(r) == [read[r] EXCEPT !.status = "pending", !.data = Merged(r)]

(* The columns that a submission writes; the keys are not among them. *)
SubmittedBy(r) == [row EXCEPT !.status = "pending", !.data = Merged(r)]

UpdateRow(r) ==
  /\ At(r, "update")
  /\ row' = SubmittedBy(r)
  /\ Sent(r)
  /\ Finish(r, "ok")
  /\ UNCHANGED <<file, placed, judged>>

(* A new row; user_id is unique. *)
NewRow(data) ==
  [status |-> "pending", data |-> data, key |-> [d \in Documents |-> NoData]]

CreateRow(r) ==
  /\ At(r, "create")
  /\ IF row = NoRow
     THEN row' = NewRow(Given(r)) /\ Sent(r) /\ Finish(r, "ok")
     ELSE Finish(r, "conflict") /\ UNCHANGED <<row, sent>>
  /\ UNCHANGED <<file, placed, judged>>

-----------------------------------------------------------------------------
(* POST /kyc/documents: KycService.uploadDocument, StorageService.uploadFile. *)

(* findByUserId. *)
Upload(r) ==
  /\ Begins(r, "upload")
  /\ Awaits(r, IF row = NoRow THEN "open" ELSE "write", NoRow)

(* Fault: the row of a first document has no status. *)
EmptyRow(r) ==
  /\ At(r, "open")
  /\ IF row = NoRow
     THEN row' = [NewRow(Unjudged) EXCEPT !.status = "none"] /\ Awaits(r, "write", NoRow)
     ELSE Finish(r, "conflict") /\ UNCHANGED row
  /\ UNCHANGED <<file, sent, placed, judged>>

(* There is no row yet: one without data. *)
OpenRow(r) ==
  /\ At(r, "open")
  /\ IF row = NoRow
     THEN row' = NewRow(Unjudged) /\ Awaits(r, "write", NoRow)
     ELSE Finish(r, "conflict") /\ UNCHANGED row
  /\ UNCHANGED <<file, sent, placed, judged>>

(* createWriteStream, under a key of its own. *)
OpenFile(r) ==
  /\ At(r, "write")
  /\ file' = [file EXCEPT ![r] = "partial"]
  /\ Awaits(r, "pipe", NoRow)
  /\ UNCHANGED <<row, sent, placed, judged>>

(* The pipeline has ended. *)
Stored(r) ==
  /\ At(r, "pipe")
  /\ file' = [file EXCEPT ![r] = "complete"]
  /\ Awaits(r, "attach", NoRow)
  /\ UNCHANGED <<row, sent, placed, judged>>

(* It has failed: the file is removed, unless that fails as well. *)
StoreFails(r) ==
  /\ stage[r] \in {"write", "pipe"}
  /\ UNCHANGED <<asked, crossed>>
  /\ \E left \in {"none", file[r]} : file' = [file EXCEPT ![r] = left]
  /\ Finish(r, "refused")
  /\ UNCHANGED <<row, sent, placed, judged>>

(* One key is updated; neither the status nor the other columns. *)
Attach(r) ==
  /\ At(r, "attach")
  /\ row' = [row EXCEPT !.key[asked[r].document] = r]
  /\ placed' = [placed EXCEPT ![asked[r].document] = r]
  /\ Finish(r, "ok")
  /\ UNCHANGED <<file, sent, judged>>

-----------------------------------------------------------------------------
(* POST /kyc/admin/review. *)

(* Fault: the guard lets everybody through. *)
AnyRole(r) == TRUE

(* RolesGuard with ADMIN_ROLES; RequirePermissionsGuard grants the same.   *)
HasRole(r) == asked[r].admin

(* findById. *)
Review(r) ==
  /\ Begins(r, "review")
  /\ IF HasRole(r) /\ row # NoRow THEN Awaits(r, "judge", row)
                                  ELSE Finish(r, "refused")

(* The status is set whatever it is now. *)
Judge(r) ==
  /\ At(r, "judge")
  /\ row' = [row EXCEPT !.status = asked[r].verdict]
  /\ judged' = IF asked[r].admin /\ asked[r].verdict = "verified"
               THEN read[r].data ELSE judged
  /\ Finish(r, "ok")
  /\ UNCHANGED <<file, sent, placed>>

-----------------------------------------------------------------------------
(* POST /wallet/convert and /wallet/trade behind KycVerifiedGuard. *)

(* Fault: only those who were rejected are kept out. *)
NotRejected(found) == found # NoRow /\ found.status # "rejected"

IsVerified(found) == found # NoRow /\ found.status = "verified"

(* canActivate: administrators pass, others if isVerified. *)
EnterTrade(r) ==
  /\ Begins(r, "trade")
  /\ IF asked[r].admin \/ IsVerified(row) THEN Awaits(r, "execute", NoRow)
                                          ELSE Finish(r, "refused")

(* The wallet's handler, which asks for no status any more. *)
Execute(r) ==
  /\ At(r, "execute")
  /\ Finish(r, "ok")
  /\ UNCHANGED <<row, file, sent, placed, judged>>

-----------------------------------------------------------------------------
(* A statement fails or the server dies: what was written stays. *)
Fails(r) ==
  /\ r \in InProgress
  /\ Finish(r, "failed")
  /\ UNCHANGED <<asked, crossed, row, file, sent, placed, judged>>

Quiet == (\A r \in Requests : stage[r] = "done") /\ UNCHANGED vars

Submission(r) == Submit(r) \/ UpdateRow(r) \/ CreateRow(r)
Uploading(r)  == Upload(r) \/ OpenRow(r) \/ OpenFile(r) \/ Stored(r) \/ StoreFails(r)
                   \/ Attach(r)
Reviewing(r)  == Review(r) \/ Judge(r)
Trading(r)    == EnterTrade(r) \/ Execute(r)

Next ==
  \/ \E r \in Requests :
       Submission(r) \/ Uploading(r) \/ Reviewing(r) \/ Trading(r) \/ Fails(r)
  \/ Quiet

Spec == Init /\ [][Next]_vars

-----------------------------------------------------------------------------
(* Properties. *)

Overlap(kind, other) == {kind, other} \in crossed

Approved == row # NoRow /\ row.status = "verified"

(* "Wait for admin review" (README.md:18): unless a submission overlaps a  *)
(* review, the data of a verified row is what an administrator's approval  *)
(* has found in it, whatever uploads, failures and other reviews come in   *)
(* between.  A submission that overlaps is approved unread.                *)
VerifiedWasFound ==
  Approved /\ ~Overlap("submit", "review") => row.data = judged

(* "Trading stays blocked for non-admin users" (README.md:18): a user's    *)
(* trade executes on a verified row only, unless a submission or a review  *)
(* has changed the status between the guard and the execution.             *)
TradesNeedApproval ==
  [][\A r \in Requests :
       /\ stage[r] = "execute" /\ result'[r] = "ok" /\ ~asked[r].admin
       /\ ~Overlap("trade", "submit") /\ ~Overlap("trade", "review")
       => Approved]_vars

(* As long as no two submissions overlap, each field of the row is what    *)
(* was submitted for it last: no review, upload or refused submission,     *)
(* first or late, brings an older value back or takes one away.            *)
LatestDataKept ==
  row # NoRow /\ ~Overlap("submit", "submit") => row.data = sent

(* The keys in the row are those of the last uploads, and their files are  *)
(* complete: no submission or review that read the row before an upload    *)
(* takes its key out again, and no failed upload leaves one.               *)
DocumentsAreKept ==
  row # NoRow =>
    /\ row.key = placed
    /\ \A d \in Documents : row.key[d] # NoData => file[row.key[d]] = "complete"
=============================================================================
