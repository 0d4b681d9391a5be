----------------------------- MODULE KycProofs -----------------------------
(* Theorems about Kyc, for every number of requests and of fields.         *)
EXTENDS Kyc, TLAPS

(* Types, what a handler has read, and that the row is never deleted. *)
StagesFit ==
  \A r \in Requests :
    /\ stage[r] \in {"update", "create"} => asked[r].kind = "submit"
    /\ stage[r] \in {"open", "write", "pipe", "attach"} => asked[r].kind = "upload"
    /\ stage[r] = "judge" => asked[r].kind = "review" /\ asked[r].admin
    /\ stage[r] = "execute" => asked[r].kind = "trade"

ReadsFit ==
  \A r \in Requests :
    /\ stage[r] \in {"update", "judge"} => read[r] \in Row
    /\ stage[r] \in {"update", "judge", "write", "pipe", "attach"} => row \in Row

TypeInv == TypeOK /\ StagesFit /\ ReadsFit

LEMMA AskedTyped ==
  ASSUME TypeOK, NEW r \in Requests
  PROVE  /\ asked[r].kind \in Kinds /\ asked[r].admin \in BOOLEAN
         /\ asked[r].gives \in SUBSET Fields
         /\ asked[r].document \in Documents
         /\ asked[r].verdict \in {"verified", "rejected"}
  BY OfferedAssumption DEF TypeOK, Request

(* The rows that the statements write. *)
LEMMA GivenTyped ==
  ASSUME TypeOK, NEW r \in Requests
  PROVE  Given(r) \in [Fields -> Version]
  BY DEF Given, Version

LEMMA MergedTyped ==
  ASSUME TypeOK, NEW r \in Requests, read[r] \in Row
  PROVE  Merged(r) \in [Fields -> Version]
<1>1. read[r].data \in [Fields -> Version]
  BY DEF Row
<1>2. QED
  BY <1>1 DEF Merged, Version

LEMMA NewRowTyped ==
  ASSUME NEW data \in [Fields -> Version]
  PROVE  /\ NewRow(data) \in Row
         /\ NewRow(data).status = "pending" /\ NewRow(data).data = data
         /\ NewRow(data).key = [d \in Documents |-> NoData]
  BY DEF NewRow, Row, Version

LEMMA SubmittedTyped ==
  ASSUME TypeOK, NEW r \in Requests, read[r] \in Row, row \in Row
  PROVE  /\ SubmittedBy(r) \in Row
         /\ SubmittedBy(r).status = "pending" /\ SubmittedBy(r).data = Merged(r)
         /\ SubmittedBy(r).key = row.key
  BY MergedTyped DEF SubmittedBy, Row

LEMMA AttachedTyped ==
  ASSUME TypeOK, NEW r \in Requests, row \in Row, NEW d \in Documents
  PROVE  LET new == [row EXCEPT !.key[d] = r]
         IN  /\ new \in Row
             /\ new.status = row.status /\ new.data = row.data
             /\ new.key = [row.key EXCEPT ![d] = r]
<1>1. row.key \in [Documents -> Version]
  BY DEF Row
<1>2. [row.key EXCEPT ![d] = r] \in [Documents -> Version]
  BY <1>1 DEF Version
<1>3. QED
  BY <1>2 DEF Row

LEMMA JudgedTyped ==
  ASSUME row \in Row, NEW verdict \in {"verified", "rejected"}
  PROVE  LET new == [row EXCEPT !.status = verdict]
         IN  /\ new \in Row
             /\ new.status = verdict /\ new.data = row.data /\ new.key = row.key
  BY DEF Row

-----------------------------------------------------------------------------
(* Type correctness. *)

LEMMA TypeInit == Init => TypeInv
  BY DEF Init, TypeInv, TypeOK, StagesFit, ReadsFit, Stages, Statuses, Unjudged, Version,
         Row

LEMMA NullRow == NoRow \notin Row /\ NoData \notin Requests
  BY NullAssumption

LEMMA OverlapTyped ==
  ASSUME TypeOK, NEW r \in Requests, NEW kind \in Kinds, Begins(r, kind)
  PROVE  crossed' \subseteq SUBSET Kinds
<1>1. \A s \in InProgress : {kind, asked[s].kind} \in SUBSET Kinds
  BY AskedTyped DEF InProgress
<1>2. QED
  BY <1>1 DEF Begins, TypeOK

(* Every request that begins awaits the row as it has read it, or ends.    *)
LEMMA TypeBegins ==
  ASSUME TypeInv, NEW r \in Requests,
         Submit(r) \/ Upload(r) \/ Review(r) \/ EnterTrade(r)
  PROVE  TypeInv'
<1> USE DEF TypeInv
<1>0. \E kind \in Kinds : Begins(r, kind)
  BY DEF Submit, Upload, Review, EnterTrade, Kinds
<1>1. crossed' \in SUBSET SUBSET Kinds
  BY <1>0, OverlapTyped
<1>2. row # NoRow => row \in Row
  BY DEF TypeOK
<1>3. TypeOK'
  <2>1. stage' \in [Requests -> Stages] /\ result' \in [Requests -> Statuses]
    BY DEF TypeOK, Submit, Upload, Review, EnterTrade, Awaits, Finish, Stages, Statuses
  <2>2. read' \in [Requests -> Row \union {NoRow}]
    BY DEF TypeOK, Submit, Upload, Review, EnterTrade, Awaits, Finish
  <2>3. QED
    BY <1>0, <1>1, <2>1, <2>2 DEF TypeOK, Begins
<1>4. ASSUME NEW s \in Stages \ {"create", "open"}, Awaits(r, s, row) \/ Awaits(r, s, NoRow),
             s \in {"update", "judge"} => Awaits(r, s, row),
             s # "execute" => row # NoRow, UNCHANGED <<row, asked>>
      PROVE  ReadsFit'
  BY <1>2, <1>4 DEF TypeOK, ReadsFit, Awaits
<1>5. CASE Submit(r)
  BY <1>2, <1>3, <1>5 DEF TypeOK, StagesFit, ReadsFit, Submit, Begins, Awaits
<1>6. CASE Upload(r)
  BY <1>2, <1>3, <1>6 DEF TypeOK, StagesFit, ReadsFit, Upload, Begins, Awaits
<1>7. CASE Review(r) \/ EnterTrade(r)
  <2>1. UNCHANGED <<row, asked>>
    BY <1>7 DEF Review, EnterTrade, Begins
  <2>2. CASE stage' = [stage EXCEPT ![r] = "done"]
    BY <1>3, <1>7, <2>1, <2>2 DEF TypeOK, StagesFit, ReadsFit, Review, EnterTrade, Finish, Awaits
  <2>3. CASE Review(r) /\ Awaits(r, "judge", row) /\ row # NoRow /\ HasRole(r)
    <3>1. ReadsFit'
      BY <1>4, <2>1, <2>3 DEF Stages
    <3>2. StagesFit'
      BY <2>1, <2>3 DEF TypeOK, StagesFit, Review, Begins, Awaits, HasRole
    <3>3. QED
      BY <1>3, <3>1, <3>2
  <2>4. CASE EnterTrade(r) /\ Awaits(r, "execute", NoRow)
    <3>1. ReadsFit'
      BY <1>4, <2>1, <2>4 DEF Stages
    <3>2. StagesFit'
      BY <2>1, <2>4 DEF TypeOK, StagesFit, EnterTrade, Begins, Awaits
    <3>3. QED
      BY <1>3, <3>1, <3>2
  <2>5. QED
    BY <1>7, <2>2, <2>3, <2>4 DEF Review, EnterTrade, Finish
<1>8. QED
  BY <1>5, <1>6, <1>7

(* The statements that follow.  Whatever they do to the row, it is typed.  *)
LEMMA TypeAt ==
  ASSUME TypeInv, NEW r \in Requests, UNCHANGED <<asked, crossed>>,
         row' \in Row \union {NoRow}, row # NoRow => row' # NoRow,
         sent' \in [Fields -> Version], placed' \in [Documents -> Version],
         judged' \in [Fields -> Version],
         file' \in [Requests -> {"none", "partial", "complete"}],
         \/ \E status \in Statuses : Finish(r, status)
         \/ /\ \E s \in {"write", "pipe", "attach"} : Awaits(r, s, NoRow)
            /\ asked[r].kind = "upload"
            /\ row' # NoRow
  PROVE  TypeInv'
<1> USE DEF TypeInv
<1>1. TypeOK'
  BY DEF TypeOK, Finish, Awaits, Stages
<1>2. \A q \in Requests : q # r => stage'[q] = stage[q] /\ read'[q] = read[q]
  BY DEF Finish, Awaits, TypeOK
<1>3. \/ stage'[r] = "done"
      \/ stage'[r] \in {"write", "pipe", "attach"} /\ asked[r].kind = "upload"
  BY DEF Finish, Awaits, TypeOK
<1>4. StagesFit'
  BY <1>2, <1>3 DEF StagesFit
<1>5. ReadsFit'
  <2>1. row \in Row => row' \in Row
    BY NullRow
  <2>2. stage'[r] \in {"write", "pipe", "attach"} => row' \in Row
    BY DEF Finish, Awaits, TypeOK
  <2>3. QED
    BY <1>2, <1>3, <2>1, <2>2 DEF ReadsFit
<1>6. QED
  BY <1>1, <1>4, <1>5

LEMMA SentTyped ==
  ASSUME TypeOK, NEW r \in Requests, Sent(r)
  PROVE  sent' \in [Fields -> Version]
  BY DEF TypeOK, Sent, Version

LEMMA TypeStatements ==
  ASSUME TypeInv, NEW r \in Requests,
         \/ UpdateRow(r) \/ CreateRow(r) \/ OpenRow(r) \/ OpenFile(r) \/ Stored(r)
         \/ StoreFails(r) \/ Attach(r) \/ Judge(r) \/ Execute(r) \/ Fails(r)
  PROVE  TypeInv'
<1>0. TypeOK
  BY DEF TypeInv
<1>1. CASE UpdateRow(r)
  <2>1. read[r] \in Row /\ row \in Row
    BY <1>1 DEF UpdateRow, At, TypeInv, ReadsFit
  <2>2. row' \in Row /\ sent' \in [Fields -> Version]
    BY <1>0, <1>1, <2>1, SubmittedTyped, SentTyped DEF UpdateRow
  <2>3. QED
    BY <1>0, <1>1, <2>2, NullRow, TypeAt DEF UpdateRow, At, TypeOK, Statuses
<1>2. CASE CreateRow(r)
  <2>1. CASE row = NoRow
    <3>1. NewRow(Given(r)) \in Row
      BY <1>0, GivenTyped, NewRowTyped
    <3>2. row' \in Row /\ sent' \in [Fields -> Version]
      BY <1>0, <1>2, <2>1, <3>1, SentTyped DEF CreateRow
    <3>3. QED
      BY <1>0, <1>2, <2>1, <3>2, TypeAt DEF CreateRow, At, TypeOK, Statuses
  <2>2. CASE row # NoRow
    BY <1>0, <1>2, <2>2, TypeAt DEF CreateRow, At, TypeOK, Statuses
  <2>3. QED
    BY <2>1, <2>2
<1>3. CASE OpenRow(r)
  <2>1. asked[r].kind = "upload"
    BY <1>3 DEF OpenRow, At, TypeInv, StagesFit
  <2>2. CASE row = NoRow
    <3>1. NewRow(Unjudged) \in Row
      BY NewRowTyped DEF Unjudged, Version
    <3>2. row' \in Row /\ row' # NoRow
      BY <1>3, <2>2, <3>1, NullRow DEF OpenRow
    <3>3. QED
      BY <1>0, <1>3, <2>1, <2>2, <3>2, TypeAt DEF OpenRow, At, TypeOK
  <2>3. CASE row # NoRow
    BY <1>0, <1>3, <2>3, TypeAt DEF OpenRow, At, TypeOK, Statuses
  <2>4. QED
    BY <2>2, <2>3
<1>4. CASE OpenFile(r) \/ Stored(r)
  <2>1. asked[r].kind = "upload" /\ row \in Row
    BY <1>4 DEF OpenFile, Stored, At, TypeInv, StagesFit, ReadsFit
  <2>2. file' \in [Requests -> {"none", "partial", "complete"}]
    BY <1>0, <1>4 DEF OpenFile, Stored, TypeOK
  <2>3. \E s \in {"write", "pipe", "attach"} : Awaits(r, s, NoRow)
    BY <1>4 DEF OpenFile, Stored
  <2>4. QED
    BY <1>0, <1>4, <2>1, <2>2, <2>3, NullRow, TypeAt DEF OpenFile, Stored, At, TypeOK
<1>5. CASE StoreFails(r)
  <2>1. file' \in [Requests -> {"none", "partial", "complete"}]
    BY <1>0, <1>5 DEF StoreFails, TypeOK
  <2>2. QED
    BY <1>0, <1>5, <2>1, TypeAt DEF StoreFails, TypeOK, Statuses
<1>6. CASE Attach(r)
  <2>1. row \in Row /\ asked[r].document \in Documents
    BY <1>0, <1>6, AskedTyped DEF Attach, At, TypeInv, ReadsFit
  <2>2. row' \in Row
    BY <1>0, <1>6, <2>1, AttachedTyped DEF Attach
  <2>3. placed' \in [Documents -> Version]
    BY <1>0, <1>6 DEF Attach, TypeOK, Version
  <2>4. QED
    BY <1>0, <1>6, <2>2, <2>3, NullRow, TypeAt DEF Attach, At, TypeOK, Statuses
<1>7. CASE Judge(r)
  <2>1. row \in Row /\ read[r] \in Row
    BY <1>7 DEF Judge, At, TypeInv, ReadsFit
  <2>2. row' \in Row
    BY <1>0, <1>7, <2>1, AskedTyped, JudgedTyped DEF Judge
  <2>3. judged' \in [Fields -> Version]
    BY <1>0, <1>7, <2>1 DEF Judge, TypeOK, Row
  <2>4. QED
    BY <1>0, <1>7, <2>2, <2>3, NullRow, TypeAt DEF Judge, At, TypeOK, Statuses
<1>8. CASE Execute(r) \/ Fails(r)
  BY <1>0, <1>8, TypeAt DEF Execute, Fails, At, TypeOK, Statuses
<1>9. QED
  BY <1>1, <1>2, <1>3, <1>4, <1>5, <1>6, <1>7, <1>8

LEMMA TypeStep ==
  ASSUME TypeInv, [Next]_vars
  PROVE  TypeInv'
<1>1. CASE UNCHANGED vars
  BY <1>1 DEF vars, handler, TypeInv, TypeOK, StagesFit, ReadsFit
<1>2. ASSUME NEW r \in Requests,
             Submission(r) \/ Uploading(r) \/ Reviewing(r) \/ Trading(r) \/ Fails(r)
      PROVE  TypeInv'
  BY <1>2, TypeBegins, TypeStatements DEF Submission, Uploading, Reviewing, Trading
<1>3. QED
  BY <1>1, <1>2 DEF Next, Quiet

LEMMA TypeInvariant == Spec => []TypeInv
  BY TypeInit, TypeStep, PTL DEF Spec

(* The variables of Kyc keep their types: no update leaves the row with a  *)
(* status or a column it cannot have.                                      *)
THEOREM TypeCorrect == Spec => []TypeOK
  BY TypeInvariant, PTL DEF TypeInv

-----------------------------------------------------------------------------
(* Two requests in progress have overlapped. *)

OverlapsNoted ==
  \A r, s \in InProgress : r # s => {asked[r].kind, asked[s].kind} \in crossed

LEMMA OverlapsStep ==
  ASSUME TypeInv, OverlapsNoted, [Next]_vars
  PROVE  /\ OverlapsNoted'
         /\ asked' = asked /\ crossed \subseteq crossed'
<1>0. TypeOK
  BY DEF TypeInv
<1>1. ASSUME UNCHANGED <<asked, crossed>>, InProgress' \subseteq InProgress
      PROVE  OverlapsNoted' /\ asked' = asked /\ crossed \subseteq crossed'
  BY <1>1 DEF OverlapsNoted
<1>2. CASE UNCHANGED vars
  BY <1>1, <1>2 DEF vars, handler, InProgress
<1>3. ASSUME NEW r \in Requests, NEW kind \in Kinds, Begins(r, kind),
             \A q \in Requests : q # r => stage'[q] = stage[q]
      PROVE  OverlapsNoted' /\ asked' = asked /\ crossed \subseteq crossed'
  <2>1. InProgress' \subseteq InProgress \union {r}
    BY <1>3 DEF InProgress
  <2>2. asked' = asked /\ asked[r].kind = kind
    BY <1>3 DEF Begins
  <2>3. \A s \in InProgress : {asked[r].kind, asked[s].kind} \in crossed'
    BY <1>3 DEF Begins
  <2>4. crossed \subseteq crossed'
    BY <1>3 DEF Begins
  <2>5. ASSUME NEW q \in InProgress', NEW s \in InProgress', q # s
        PROVE  {asked[q].kind, asked[s].kind} \in crossed'
    <3>1. CASE q = r
      BY <2>1, <2>3, <2>5, <3>1
    <3>2. CASE s = r
      <4>1. {asked[r].kind, asked[q].kind} \in crossed'
        BY <2>1, <2>3, <2>5, <3>2
      <4>2. {asked[r].kind, asked[q].kind} = {asked[q].kind, asked[s].kind}
        BY <3>2
      <4>3. QED
        BY <4>1, <4>2
    <3>3. CASE q # r /\ s # r
      BY <2>1, <2>4, <2>5, <3>3 DEF OverlapsNoted
    <3>4. QED
      BY <3>1, <3>2, <3>3
  <2>6. QED
    BY <2>2, <2>4, <2>5 DEF OverlapsNoted
<1>4. ASSUME NEW r \in Requests,
             Submit(r) \/ Upload(r) \/ Review(r) \/ EnterTrade(r)
      PROVE  OverlapsNoted' /\ asked' = asked /\ crossed \subseteq crossed'
  <2>1. \E kind \in Kinds : Begins(r, kind)
    BY <1>4 DEF Submit, Upload, Review, EnterTrade, Kinds
  <2>2. \A q \in Requests : q # r => stage'[q] = stage[q]
    BY <1>0, <1>4 DEF Submit, Upload, Review, EnterTrade, Awaits, Finish, TypeOK
  <2>3. QED
    BY <1>3, <2>1, <2>2
<1>5. ASSUME NEW r \in Requests,
             \/ UpdateRow(r) \/ CreateRow(r) \/ OpenRow(r) \/ OpenFile(r) \/ Stored(r)
             \/ StoreFails(r) \/ Attach(r) \/ Judge(r) \/ Execute(r) \/ Fails(r)
      PROVE  OverlapsNoted' /\ asked' = asked /\ crossed \subseteq crossed'
  <2>1. UNCHANGED <<asked, crossed>>
    BY <1>5 DEF UpdateRow, CreateRow, OpenRow, OpenFile, Stored, StoreFails, Attach, Judge,
                Execute, Fails, At
  <2>2. r \in InProgress
    BY <1>5 DEF UpdateRow, CreateRow, OpenRow, OpenFile, Stored, StoreFails, Attach, Judge,
                Execute, Fails, At, InProgress
  <2>3. \A q \in Requests : q # r => stage'[q] = stage[q]
    BY <1>0, <1>5 DEF UpdateRow, CreateRow, OpenRow, OpenFile, Stored, StoreFails, Attach,
                      Judge, Execute, Fails, Awaits, Finish, TypeOK
  <2>4. QED
    BY <1>1, <2>1, <2>2, <2>3 DEF InProgress
<1>6. QED
  BY <1>2, <1>4, <1>5
  DEF Next, Quiet, Submission, Uploading, Reviewing, Trading

-----------------------------------------------------------------------------
(* What a step does to the row. *)

(* Handlers begin, read, store files or end, and the row stays as it is.   *)
Calm ==
  /\ UNCHANGED <<row, sent, placed, judged>>
  /\ \A r \in Requests :
       \/ stage'[r] = stage[r] /\ read'[r] = read[r]
       \/ stage'[r] \notin {"update", "judge", "execute"}
       \/ stage'[r] \in {"update", "judge"} /\ read'[r] = row /\ row \in Row
       \/ stage'[r] = "execute" /\ (asked[r].admin \/ Approved)

(* Request r goes on behind a statement; the others stay where they are.   *)
Leaves(r) ==
  /\ r \in InProgress
  /\ stage'[r] \in {"done", "write"}
  /\ \A s \in Requests : s # r => stage'[s] = stage[s] /\ read'[s] = read[s]

Writes(r) ==
  /\ Leaves(r)
  /\ UpdateRow(r) \/ (CreateRow(r) /\ row = NoRow) \/ (OpenRow(r) /\ row = NoRow)
       \/ Attach(r) \/ Judge(r)

LEMMA StepCases ==
  ASSUME TypeInv, [Next]_vars
  PROVE  Calm \/ \E r \in Requests : Writes(r)
<1>0. TypeOK
  BY DEF TypeInv
<1>1. CASE UNCHANGED vars
  BY <1>1 DEF vars, handler, Calm
<1>2. ASSUME NEW r \in Requests, Submit(r) \/ Review(r)
      PROVE  Calm
  BY <1>0, <1>2 DEF Submit, Review, Begins, Awaits, Finish, Calm, TypeOK
<1>3. ASSUME NEW r \in Requests, Upload(r)
      PROVE  Calm
  BY <1>0, <1>3 DEF Upload, Begins, Awaits, Finish, Calm, TypeOK
<1>4. ASSUME NEW r \in Requests, EnterTrade(r)
      PROVE  Calm
  BY <1>0, <1>4 DEF EnterTrade, Begins, Awaits, Finish, Calm, TypeOK, IsVerified, Approved
<1>5. ASSUME NEW r \in Requests,
             OpenFile(r) \/ Stored(r) \/ StoreFails(r) \/ Execute(r) \/ Fails(r)
      PROVE  Calm
  BY <1>0, <1>5 DEF OpenFile, Stored, StoreFails, Execute, Fails, Awaits, Finish, Calm, TypeOK
<1>6. ASSUME NEW r \in Requests, CreateRow(r) \/ OpenRow(r), row # NoRow
      PROVE  Calm
  BY <1>0, <1>6 DEF CreateRow, OpenRow, Finish, Calm, TypeOK
<1>7. ASSUME NEW r \in Requests,
             UpdateRow(r) \/ CreateRow(r) \/ OpenRow(r) \/ Attach(r) \/ Judge(r)
      PROVE  Leaves(r) \/ row # NoRow
  BY <1>0, <1>7 DEF UpdateRow, CreateRow, OpenRow, Attach, Judge, At, Awaits, Finish, Leaves,
                    InProgress, TypeOK
<1>8. ASSUME NEW r \in Requests, UpdateRow(r) \/ Attach(r) \/ Judge(r)
      PROVE  Leaves(r)
  BY <1>0, <1>8 DEF UpdateRow, Attach, Judge, At, Finish, Leaves, InProgress, TypeOK
<1>9. QED
  BY <1>1, <1>2, <1>3, <1>4, <1>5, <1>6, <1>7, <1>8
  DEF Next, Quiet, Submission, Uploading, Reviewing, Trading, Writes

(* While a request other than r is at s, r has overlapped it. *)
LEMMA Meets ==
  ASSUME TypeInv, OverlapsNoted, NEW r \in InProgress, NEW q \in InProgress, q # r
  PROVE  Overlap(asked[r].kind, asked[q].kind)
  BY DEF OverlapsNoted, Overlap

LEMMA OverlapStays ==
  ASSUME NEW kind, NEW other, crossed \subseteq crossed'
  PROVE  Overlap(kind, other) => Overlap(kind, other)'
  BY DEF Overlap

LEMMA OverlapSwap ==
  ASSUME NEW kind, NEW other
  PROVE  Overlap(kind, other) <=> Overlap(other, kind)
<1>1. {kind, other} = {other, kind}
  OBVIOUS
<1>2. QED
  BY <1>1 DEF Overlap

(* What the five writes do. *)
LEMMA WriteKinds ==
  ASSUME TypeInv, NEW r \in Requests, Writes(r)
  PROVE  /\ UpdateRow(r) \/ CreateRow(r) => asked[r].kind = "submit"
         /\ OpenRow(r) \/ Attach(r) => asked[r].kind = "upload"
         /\ Judge(r) => asked[r].kind = "review" /\ asked[r].admin
  BY DEF TypeInv, StagesFit, UpdateRow, CreateRow, OpenRow, Attach, Judge, At

LEMMA UpdateEffect ==
  ASSUME TypeInv, NEW r \in Requests, UpdateRow(r)
  PROVE  /\ row \in Row /\ read[r] \in Row
         /\ row'.status = "pending" /\ row'.data = Merged(r) /\ row'.key = row.key
         /\ row' # NoRow /\ Sent(r)
         /\ UNCHANGED <<placed, judged, file>>
<1>1. row \in Row /\ read[r] \in Row
  BY DEF UpdateRow, At, TypeInv, ReadsFit
<1>2. QED
  BY <1>1, SubmittedTyped, NullRow DEF UpdateRow, TypeInv

LEMMA CreateEffect ==
  ASSUME TypeInv, NEW r \in Requests, CreateRow(r), row = NoRow
  PROVE  /\ row'.status = "pending" /\ row'.data = Given(r)
         /\ row'.key = [d \in Documents |-> NoData]
         /\ row' # NoRow /\ Sent(r)
         /\ UNCHANGED <<placed, judged, file>>
  BY GivenTyped, NewRowTyped, NullRow DEF CreateRow, TypeInv

LEMMA OpenEffect ==
  ASSUME TypeInv, NEW r \in Requests, OpenRow(r), row = NoRow
  PROVE  /\ row'.status = "pending" /\ row'.data = Unjudged
         /\ row'.key = [d \in Documents |-> NoData]
         /\ row' # NoRow
         /\ UNCHANGED <<sent, placed, judged, file>>
<1>1. Unjudged \in [Fields -> Version]
  BY DEF Unjudged, Version
<1>2. QED
  BY <1>1, NewRowTyped, NullRow DEF OpenRow, TypeInv

LEMMA AttachEffect ==
  ASSUME TypeInv, NEW r \in Requests, Attach(r)
  PROVE  /\ row'.status = row.status /\ row'.data = row.data
         /\ row'.key = [row.key EXCEPT ![asked[r].document] = r]
         /\ placed' = [placed EXCEPT ![asked[r].document] = r]
         /\ row # NoRow /\ row' # NoRow
         /\ UNCHANGED <<sent, judged, file>>
<1>1. row \in Row /\ asked[r].document \in Documents
  BY AskedTyped DEF Attach, At, TypeInv, ReadsFit
<1>2. QED
  BY <1>1, AttachedTyped, NullRow DEF Attach, TypeInv

LEMMA JudgeEffect ==
  ASSUME TypeInv, NEW r \in Requests, Judge(r)
  PROVE  /\ row'.status = asked[r].verdict /\ row'.data = row.data /\ row'.key = row.key
         /\ row # NoRow /\ row' # NoRow
         /\ UNCHANGED <<sent, placed, file>>
         /\ asked[r].verdict = "verified" => judged' = read[r].data
<1>1. row \in Row /\ asked[r].admin
  BY DEF Judge, At, TypeInv, ReadsFit, StagesFit
<1>2. asked[r].verdict \in {"verified", "rejected"}
  BY AskedTyped DEF TypeInv
<1>3. row' \in Row /\ row'.status = asked[r].verdict /\ row'.data = row.data
      /\ row'.key = row.key
  BY <1>1, <1>2, JudgedTyped DEF Judge
<1>4. QED
  BY <1>1, <1>3, NullRow DEF Judge

-----------------------------------------------------------------------------
(* A review that no submission overlaps approves what it has found. *)

ReviewsAreCurrent ==
  \A r \in Requests :
    stage[r] = "judge" /\ ~Overlap("submit", "review") => read[r].data = row.data

ReviewInv == TypeInv /\ OverlapsNoted /\ ReviewsAreCurrent /\ VerifiedWasFound

LEMMA ReviewStep ==
  ASSUME ReviewInv, [Next]_vars
  PROVE  ReviewInv'
<1> USE DEF ReviewInv
<1>1. TypeInv' /\ OverlapsNoted' /\ asked' = asked /\ crossed \subseteq crossed'
  BY TypeStep, OverlapsStep
<1>2. SUFFICES ASSUME ~Overlap("submit", "review")'
               PROVE  ReviewsAreCurrent' /\ VerifiedWasFound'
  BY <1>1 DEF ReviewsAreCurrent, VerifiedWasFound
<1>3. ~Overlap("submit", "review")
  BY <1>1, <1>2, OverlapStays
<1>4. CASE Calm
  BY <1>2, <1>3, <1>4 DEF Calm, ReviewsAreCurrent, VerifiedWasFound, Approved
<1>5. ASSUME NEW r \in Requests, Writes(r)
      PROVE  ReviewsAreCurrent' /\ VerifiedWasFound'
  <2>1. \A q \in Requests :
          stage'[q] = "judge" => q # r /\ stage[q] = "judge" /\ read'[q] = read[q]
    BY <1>5 DEF Writes, Leaves
  <2>2. CASE UpdateRow(r) \/ (CreateRow(r) /\ row = NoRow)
    <3>1. asked[r].kind = "submit" /\ r \in InProgress
      BY <1>5, <2>2, WriteKinds DEF Writes, Leaves
    <3>2. \A q \in Requests : stage'[q] # "judge"
      <4>1. SUFFICES ASSUME NEW q \in Requests, stage'[q] = "judge" PROVE FALSE
        OBVIOUS
      <4>2. q \in InProgress /\ q # r /\ asked[q].kind = "review"
        BY <2>1, <4>1 DEF InProgress, TypeInv, StagesFit
      <4>3. Overlap(asked[r].kind, asked[q].kind)
        BY <3>1, <4>2, Meets
      <4>4. QED
        BY <1>3, <3>1, <4>2, <4>3
    <3>3. row'.status = "pending"
      BY <2>2, UpdateEffect, CreateEffect
    <3>4. QED
      BY <3>2, <3>3 DEF ReviewsAreCurrent, VerifiedWasFound, Approved
  <2>3. CASE OpenRow(r) /\ row = NoRow
    <3>1. \A q \in Requests : stage'[q] # "judge"
      BY <2>1, <2>3, NullRow DEF TypeInv, ReadsFit
    <3>2. row'.status = "pending"
      BY <2>3, OpenEffect
    <3>3. QED
      BY <3>1, <3>2 DEF ReviewsAreCurrent, VerifiedWasFound, Approved
  <2>4. CASE Attach(r)
    BY <1>3, <2>1, <2>4, AttachEffect DEF ReviewsAreCurrent, VerifiedWasFound, Approved
  <2>5. CASE Judge(r)
    <3>1. stage[r] = "judge"
      BY <2>5 DEF Judge, At
    <3>2. read[r].data = row.data
      BY <1>3, <3>1 DEF ReviewsAreCurrent
    <3>3. ReviewsAreCurrent'
      BY <1>3, <2>1, <2>5, JudgeEffect DEF ReviewsAreCurrent
    <3>4. VerifiedWasFound'
      BY <2>5, <3>2, JudgeEffect DEF VerifiedWasFound, Approved
    <3>5. QED
      BY <3>3, <3>4
  <2>6. QED
    BY <1>5, <2>2, <2>3, <2>4, <2>5 DEF Writes
<1>6. QED
  BY <1>4, <1>5, StepCases

LEMMA ReviewInit == Init => ReviewInv
<1>1. Init => OverlapsNoted /\ ReviewsAreCurrent /\ VerifiedWasFound
  BY DEF Init, OverlapsNoted, ReviewsAreCurrent, VerifiedWasFound, InProgress, Approved
<1>2. QED
  BY <1>1, TypeInit DEF ReviewInv

LEMMA ReviewInvariant == Spec => []ReviewInv
  BY ReviewInit, ReviewStep, PTL DEF Spec

(* The data of a verified row is what an administrator's approval found,   *)
(* for any number of submissions, uploads and reviews, unless a submission *)
(* overlaps a review.                                                      *)
THEOREM ApprovalsAreInformed == Spec => []VerifiedWasFound
  BY ReviewInvariant, PTL DEF ReviewInv

-----------------------------------------------------------------------------
(* Between the guard and the trade, only a submission or a review changes  *)
(* the status.                                                             *)

Undisturbed == ~Overlap("trade", "submit") /\ ~Overlap("trade", "review")

TradesAreApproved ==
  \A r \in Requests :
    stage[r] = "execute" /\ ~asked[r].admin /\ Undisturbed => Approved

TradeInv == TypeInv /\ OverlapsNoted /\ TradesAreApproved

LEMMA TradeStep ==
  ASSUME TradeInv, [Next]_vars
  PROVE  TradeInv'
<1> USE DEF TradeInv
<1>1. TypeInv' /\ OverlapsNoted' /\ asked' = asked /\ crossed \subseteq crossed'
  BY TypeStep, OverlapsStep
<1>2. SUFFICES ASSUME NEW q \in Requests, stage'[q] = "execute", ~asked[q].admin, Undisturbed'
               PROVE  Approved'
  BY <1>1 DEF TradesAreApproved
<1>3. Undisturbed
  BY <1>1, <1>2, OverlapStays DEF Undisturbed
<1>4. CASE Calm
  <2>1. Approved' = Approved
    BY <1>4 DEF Calm, Approved
  <2>2. CASE stage[q] = "execute"
    BY <1>2, <1>3, <2>1, <2>2 DEF TradesAreApproved
  <2>3. CASE stage[q] # "execute"
    BY <1>2, <1>4, <2>1, <2>3 DEF Calm
  <2>4. QED
    BY <2>2, <2>3
<1>5. ASSUME NEW r \in Requests, Writes(r)
      PROVE  Approved'
  <2>1. q # r /\ stage[q] = "execute" /\ asked[q].kind = "trade" /\ r \in InProgress
    BY <1>2, <1>5 DEF Writes, Leaves, TypeInv, StagesFit
  <2>2. Approved
    BY <1>2, <1>3, <2>1 DEF TradesAreApproved
  <2>3. Overlap("trade", asked[r].kind)
    <3>1. q \in InProgress
      BY <2>1 DEF InProgress
    <3>2. Overlap(asked[q].kind, asked[r].kind)
      BY <2>1, <3>1, Meets
    <3>3. QED
      BY <2>1, <3>2
  <2>4. CASE UpdateRow(r) \/ CreateRow(r) \/ Judge(r)
    BY <1>3, <1>5, <2>3, <2>4, WriteKinds DEF Undisturbed
  <2>5. CASE OpenRow(r) /\ row = NoRow
    BY <2>2, <2>5 DEF Approved
  <2>6. CASE Attach(r)
    BY <2>2, <2>6, AttachEffect DEF Approved
  <2>7. QED
    BY <1>5, <2>4, <2>5, <2>6 DEF Writes
<1>6. QED
  BY <1>4, <1>5, StepCases

LEMMA TradeInit == Init => TradeInv
<1>1. Init => OverlapsNoted /\ TradesAreApproved
  BY DEF Init, OverlapsNoted, TradesAreApproved, InProgress
<1>2. QED
  BY <1>1, TypeInit DEF TradeInv

(* A user who is no administrator trades on a verified row only, however   *)
(* many requests run, unless a submission or a review overlaps the trade.  *)
THEOREM TradesAreGuarded == Spec => TradesNeedApproval
<1>1. TradeInv /\ [Next]_vars => TradeInv'
  BY TradeStep
<1>2. TradeInv => [\A r \in Requests :
         /\ stage[r] = "execute" /\ result'[r] = "ok" /\ ~asked[r].admin
         /\ ~Overlap("trade", "submit") /\ ~Overlap("trade", "review")
         => Approved]_vars
  BY DEF TradeInv, TradesAreApproved, Undisturbed
<1>3. QED
  BY TradeInit, <1>1, <1>2, PTL DEF Spec, TradesNeedApproval

-----------------------------------------------------------------------------
(* As long as submissions do not overlap, nothing that was read before an  *)
(* older one is written after it.                                          *)

SubmissionsAreCurrent ==
  /\ row = NoRow => sent = Unjudged
  /\ \A r \in Requests :
       stage[r] = "update" /\ ~Overlap("submit", "submit") => read[r].data = row.data

DataInv == TypeInv /\ OverlapsNoted /\ SubmissionsAreCurrent /\ LatestDataKept

LEMMA GivenIsSent ==
  ASSUME TypeOK, NEW r \in Requests, Sent(r), sent = Unjudged
  PROVE  Given(r) = sent'
  BY DEF Given, Sent, Unjudged

LEMMA MergedIsSent ==
  ASSUME TypeOK, NEW r \in Requests, Sent(r), read[r].data = sent
  PROVE  Merged(r) = sent'
  BY DEF Merged, Sent

LEMMA DataStep ==
  ASSUME DataInv, [Next]_vars
  PROVE  DataInv'
<1> USE DEF DataInv
<1>0. TypeOK
  BY DEF TypeInv
<1>1. TypeInv' /\ OverlapsNoted' /\ asked' = asked /\ crossed \subseteq crossed'
  BY TypeStep, OverlapsStep
<1>2. ~Overlap("submit", "submit")' => ~Overlap("submit", "submit")
  BY <1>1, OverlapStays
<1>3. CASE Calm
  BY <1>1, <1>2, <1>3 DEF Calm, SubmissionsAreCurrent, LatestDataKept
<1>4. ASSUME NEW r \in Requests, Writes(r)
      PROVE  SubmissionsAreCurrent' /\ LatestDataKept'
  <2>1. \A q \in Requests :
          stage'[q] = "update" => q # r /\ stage[q] = "update" /\ read'[q] = read[q]
    BY <1>4 DEF Writes, Leaves
  <2>2. CASE UpdateRow(r) \/ (CreateRow(r) /\ row = NoRow)
    <3>1. asked[r].kind = "submit" /\ r \in InProgress
      BY <1>4, <2>2, WriteKinds DEF Writes, Leaves
    <3>2. ASSUME ~Overlap("submit", "submit"), NEW q \in Requests, stage'[q] = "update"
          PROVE  FALSE
      <4>1. q \in InProgress /\ q # r /\ asked[q].kind = "submit"
        BY <2>1, <3>2 DEF InProgress, TypeInv, StagesFit
      <4>2. Overlap(asked[r].kind, asked[q].kind)
        BY <3>1, <4>1, Meets
      <4>3. QED
        BY <3>1, <3>2, <4>1, <4>2
    <3>3. row' # NoRow
      BY <2>2, UpdateEffect, CreateEffect
    <3>4. SubmissionsAreCurrent'
      BY <1>2, <3>2, <3>3 DEF SubmissionsAreCurrent
    <3>5. CASE UpdateRow(r)
      <4>1. stage[r] = "update" /\ row # NoRow
        BY <3>5, UpdateEffect, NullRow DEF UpdateRow, At
      <4>2. ~Overlap("submit", "submit") => read[r].data = sent
        BY <4>1 DEF SubmissionsAreCurrent, LatestDataKept
      <4>3. QED
        BY <1>0, <1>2, <3>4, <3>5, <4>2, UpdateEffect, MergedIsSent DEF LatestDataKept
    <3>6. CASE CreateRow(r) /\ row = NoRow
      BY <1>0, <3>4, <3>6, CreateEffect, GivenIsSent
      DEF LatestDataKept, SubmissionsAreCurrent
    <3>7. QED
      BY <2>2, <3>5, <3>6
  <2>3. CASE OpenRow(r) /\ row = NoRow
    <3>1. \A q \in Requests : stage'[q] # "update"
      BY <2>1, <2>3, NullRow DEF TypeInv, ReadsFit
    <3>2. QED
      BY <2>3, <3>1, OpenEffect DEF SubmissionsAreCurrent, LatestDataKept
  <2>4. CASE Attach(r)
    BY <1>2, <2>1, <2>4, AttachEffect DEF SubmissionsAreCurrent, LatestDataKept
  <2>5. CASE Judge(r)
    BY <1>2, <2>1, <2>5, JudgeEffect DEF SubmissionsAreCurrent, LatestDataKept
  <2>6. QED
    BY <1>4, <2>2, <2>3, <2>4, <2>5 DEF Writes
<1>5. QED
  BY <1>1, <1>3, <1>4, StepCases

LEMMA DataInit == Init => DataInv
<1>1. Init => OverlapsNoted /\ SubmissionsAreCurrent /\ LatestDataKept
  BY DEF Init, OverlapsNoted, SubmissionsAreCurrent, LatestDataKept, InProgress
<1>2. QED
  BY <1>1, TypeInit DEF DataInv

LEMMA DataInvariant == Spec => []DataInv
  BY DataInit, DataStep, PTL DEF Spec

(* Each field of the row is what was submitted for it last, whatever else  *)
(* happens, as long as no two submissions overlap.                         *)
THEOREM NoDataIsLost == Spec => []LatestDataKept
  BY DataInvariant, PTL DEF DataInv

-----------------------------------------------------------------------------
(* A key is entered once its file is complete, and a file whose upload has *)
(* ended is not written any more.                                          *)

FilesAreComplete ==
  /\ row = NoRow => placed = [d \in Documents |-> NoData]
  /\ \A r \in Requests : stage[r] = "attach" => file[r] = "complete"
  /\ \A d \in Documents : placed[d] # NoData =>
       stage[placed[d]] = "done" /\ file[placed[d]] = "complete"

KeysFit == row # NoRow => row.key = placed

FileInv == TypeInv /\ FilesAreComplete /\ KeysFit

LEMMA FileKept ==
  ASSUME TypeInv, FilesAreComplete, [Next]_vars
  PROVE  /\ \A r \in Requests : stage'[r] = "attach" => file'[r] = "complete"
         /\ \A r \in Requests : stage[r] = "done" => stage'[r] = "done" /\ file'[r] = file[r]
<1>0. TypeOK
  BY DEF TypeInv
<1>1. CASE UNCHANGED vars
  BY <1>1 DEF vars, handler, FilesAreComplete
<1>2. ASSUME NEW r \in Requests, Submit(r) \/ Upload(r) \/ Review(r) \/ EnterTrade(r)
      PROVE  /\ stage'[r] # "attach" /\ stage[r] # "done" /\ UNCHANGED file
             /\ \A q \in Requests : q # r => stage'[q] = stage[q]
  BY <1>0, <1>2 DEF Submit, Upload, Review, EnterTrade, Begins, Awaits, Finish, TypeOK
<1>3. ASSUME NEW r \in Requests,
             \/ UpdateRow(r) \/ CreateRow(r) \/ OpenRow(r) \/ Attach(r) \/ Judge(r)
             \/ Execute(r) \/ Fails(r)
      PROVE  /\ stage'[r] # "attach" /\ stage[r] # "done" /\ UNCHANGED file
             /\ \A q \in Requests : q # r => stage'[q] = stage[q]
  BY <1>0, <1>3 DEF UpdateRow, CreateRow, OpenRow, Attach, Judge, Execute, Fails, At, Awaits,
                    Finish, TypeOK, InProgress
<1>4. ASSUME NEW r \in Requests, OpenFile(r) \/ Stored(r) \/ StoreFails(r)
      PROVE  /\ stage'[r] = "attach" => file'[r] = "complete"
             /\ stage[r] # "done"
             /\ \A q \in Requests : q # r => stage'[q] = stage[q] /\ file'[q] = file[q]
  BY <1>0, <1>4 DEF OpenFile, Stored, StoreFails, At, Awaits, Finish, TypeOK
<1>5. ASSUME NEW r \in Requests,
             Submission(r) \/ Uploading(r) \/ Reviewing(r) \/ Trading(r) \/ Fails(r)
      PROVE  /\ stage'[r] = "attach" => file'[r] = "complete"
             /\ stage[r] # "done"
             /\ \A q \in Requests : q # r => stage'[q] = stage[q] /\ file'[q] = file[q]
  BY <1>2, <1>3, <1>4, <1>5 DEF Submission, Uploading, Reviewing, Trading
<1>6. QED
  BY <1>1, <1>5 DEF Next, Quiet, FilesAreComplete

LEMMA FileStep ==
  ASSUME FileInv, [Next]_vars
  PROVE  FileInv'
<1> USE DEF FileInv
<1>0. TypeOK
  BY DEF TypeInv
<1>1. TypeInv'
  BY TypeStep
<1>2. \A d \in Documents : placed[d] \in Requests \union {NoData}
  BY <1>0 DEF TypeOK, Version
<1>3. CASE UNCHANGED placed /\ (row' = NoRow => row = NoRow) /\ KeysFit'
  BY <1>1, <1>2, <1>3, FileKept DEF FilesAreComplete
<1>4. CASE Calm
  <2>1. UNCHANGED placed /\ (row' = NoRow => row = NoRow) /\ KeysFit'
    BY <1>4 DEF Calm, KeysFit
  <2>2. QED
    BY <1>3, <2>1
<1>5. ASSUME NEW r \in Requests, Writes(r)
      PROVE  FileInv'
  <2>1. CASE UpdateRow(r)
    <3>1. UNCHANGED placed /\ row' # NoRow /\ KeysFit'
      BY <2>1, UpdateEffect, NullRow DEF KeysFit
    <3>2. QED
      BY <1>3, <3>1
  <2>2. CASE (CreateRow(r) \/ OpenRow(r)) /\ row = NoRow
    <3>1. UNCHANGED placed /\ row' # NoRow /\ KeysFit'
      BY <2>2, CreateEffect, OpenEffect DEF KeysFit, FilesAreComplete
    <3>2. QED
      BY <1>3, <3>1, <2>2
  <2>3. CASE Judge(r)
    <3>1. UNCHANGED placed /\ row' # NoRow /\ KeysFit'
      BY <2>3, JudgeEffect DEF KeysFit
    <3>2. QED
      BY <1>3, <3>1
  <2>4. CASE Attach(r)
    <3>1. KeysFit' /\ row' # NoRow
      BY <2>4, AttachEffect DEF KeysFit
    <3>2. stage'[r] = "done" /\ file'[r] = "complete" /\ UNCHANGED file
      BY <1>0, <2>4 DEF Attach, At, Finish, TypeOK, FilesAreComplete
    <3>3. asked[r].document \in Documents /\ placed \in [Documents -> Version]
      BY <1>0, AskedTyped DEF TypeOK
    <3>4. ASSUME NEW d \in Documents, placed'[d] # NoData
          PROVE  stage'[placed'[d]] = "done" /\ file'[placed'[d]] = "complete"
      <4>1. CASE d = asked[r].document
        BY <2>4, <3>2, <3>3, <4>1, AttachEffect
      <4>2. CASE d # asked[r].document
        <5>1. placed'[d] = placed[d] /\ placed[d] \in Requests
          BY <1>2, <2>4, <3>3, <3>4, <4>2, AttachEffect
        <5>2. stage[placed[d]] = "done" /\ file[placed[d]] = "complete"
          BY <3>4, <5>1 DEF FilesAreComplete
        <5>3. QED
          BY <5>1, <5>2, FileKept
      <4>3. QED
        BY <4>1, <4>2
    <3>5. QED
      BY <1>1, <3>1, <3>4, FileKept DEF FilesAreComplete
  <2>5. QED
    BY <1>5, <2>1, <2>2, <2>3, <2>4 DEF Writes
<1>6. QED
  BY <1>4, <1>5, StepCases

LEMMA FileInit == Init => FileInv
<1>1. Init => FilesAreComplete /\ KeysFit
  BY DEF Init, FilesAreComplete, KeysFit
<1>2. QED
  BY <1>1, TypeInit DEF FileInv

LEMMA FileImplies == FileInv => DocumentsAreKept
  BY DEF FileInv, FilesAreComplete, KeysFit, DocumentsAreKept

(* The row names the files of the last uploads, all of them complete,      *)
(* however submissions, reviews, failing and other uploads interleave.     *)
THEOREM UploadsAreKept == Spec => []DocumentsAreKept
<1>1. FileInv /\ [Next]_vars => FileInv'
  BY FileStep
<1>2. QED
  BY FileInit, <1>1, FileImplies, PTL DEF Spec
=============================================================================
