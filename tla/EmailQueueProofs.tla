-------------------------- MODULE EmailQueueProofs --------------------------
(* Theorems about EmailQueue, for any number of requests, jobs, servers,   *)
(* attempts, retries, stalls and crashes.                                  *)
EXTENDS EmailQueue, TLAPS

(* The acceptance that is noted now, and the calls of this attempt.        *)
Noted(j) == IF state[j] \in {"sent", "completed"} THEN 1 ELSE 0
Spent(j) == IF state[j] = "sending" THEN tries[j]
            ELSE IF state[j] \in {"sent", "refused", "lost", "completed"} THEN MaxSends
            ELSE 0

JobInv(j) ==
  /\ state[j] # "failed" => made[j] < Attempts /\ stalled[j] <= MaxStalls
  /\ made[j] + stalled[j] <= Attempts + MaxStalls
  /\ state[j] = "sent" \/ (state[j] = "completed" /\ Complete(j)) => delivered[j]
  /\ copies[j] <= Noted(j)
  /\ calls[j] <= MaxSends * (made[j] + stalled[j]) + Spent(j)

RequestInv(r) ==
  /\ r \in adding => home[r] \in Servers /\ added[r] < asked[r].size
  /\ home[r] = NoServer => added[r] = 0 /\ answer[r] = "none"
  /\ asked[r].awaited =>
       /\ r \in adding => answer[r] = "none"
       /\ answer[r] = "ok" => added[r] = asked[r].size
  /\ \A i \in 1..MaxSize :
       /\ i <= added[r] => state[<<r, i>>] # "none"
       /\ i > added[r] /\ (r \in adding \/ home[r] = NoServer) => state[<<r, i>>] = "none"

Inv ==
  /\ TypeOK
  /\ \A j \in Jobs : JobInv(j)
  /\ \A r \in Requests : RequestInv(r)

LEMMA AskedTyped ==
  ASSUME TypeOK, NEW r \in Requests
  PROVE  /\ asked[r].size \in 1..MaxSize
         /\ asked[r].awaited \in BOOLEAN /\ asked[r].complete \in BOOLEAN
  BY OfferedAssumption DEF TypeOK, Request

LEMMA JobTyped ==
  ASSUME TypeOK, NEW j \in Jobs
  PROVE  /\ state[j] \in States /\ made[j] \in 0..Attempts
         /\ stalled[j] \in 0..MaxStalls + 1 /\ tries[j] \in 0..MaxSends - 1
         /\ calls[j] \in Nat /\ delivered[j] \in BOOLEAN /\ copies[j] \in Int
         /\ worker[j] \in Servers \union {NoServer}
  BY DEF TypeOK

(* Arithmetic of products. *)
LEMMA Once ==
  ASSUME NEW m \in Nat, NEW n \in Nat
  PROVE  m * (n + 1) = m * n + m /\ m * n \in Nat
  OBVIOUS

LEMMA Monotone ==
  ASSUME NEW m \in Nat, NEW n \in Nat, NEW k \in Nat, n <= k
  PROVE  m * n <= m * k
<1>1. k - n \in Nat /\ m * k = m * n + m * (k - n)
  OBVIOUS
<1>2. m * (k - n) >= 0
  BY <1>1
<1>3. QED
  BY <1>1, <1>2

LEMMA InitInv == Init => Inv
<1> SUFFICES ASSUME Init PROVE Inv
  OBVIOUS
<1>1. TypeOK
  BY NumberAssumption DEF Init, TypeOK, States, Active, Ended
<1>2. ASSUME NEW j \in Jobs PROVE JobInv(j)
  <2>1. MaxSends * (0 + 0) = 0
    BY NumberAssumption
  <2>2. QED
    BY <2>1, NumberAssumption DEF Init, JobInv, Noted, Spent
<1>3. ASSUME NEW r \in Requests PROVE RequestInv(r)
  BY <1>1, NullAssumption DEF Init, RequestInv, Jobs
<1>4. QED
  BY <1>1, <1>2, <1>3 DEF Inv

-----------------------------------------------------------------------------
(* Jobs that a step leaves alone. *)

Same(j) ==
  /\ state'[j] = state[j] /\ made'[j] = made[j] /\ stalled'[j] = stalled[j]
  /\ tries'[j] = tries[j] /\ calls'[j] = calls[j] /\ delivered'[j] = delivered[j]
  /\ copies'[j] = copies[j]

LEMMA SameInv ==
  ASSUME NEW j \in Jobs, JobInv(j), Same(j), asked' = asked
  PROVE  JobInv(j)'
  BY DEF Same, JobInv, Noted, Spent, Complete

(* A step that adds nothing keeps what is said of the requests.            *)
LEMMA RequestsKept ==
  ASSUME Inv, UNCHANGED request,
         \A j \in Jobs : state'[j] = "none" <=> state[j] = "none"
  PROVE  \A r \in Requests : RequestInv(r)'
<1>1. ASSUME NEW r \in Requests PROVE RequestInv(r)'
  <2>1. \A i \in 1..MaxSize : <<r, i>> \in Jobs
    BY DEF Jobs
  <2>2. QED
    BY <2>1 DEF Inv, RequestInv, request
<1>2. QED
  BY <1>1

-----------------------------------------------------------------------------
(* Adding jobs. *)

LEMMA AskStep ==
  ASSUME Inv, NEW r \in Requests, Ask(r)
  PROVE  Inv'
<1>0. TypeOK
  BY DEF Inv
<1>1. TypeOK'
  BY <1>0 DEF Ask, Answer, TypeOK, job, history
<1>2. \A j \in Jobs : JobInv(j)'
  BY SameInv DEF Inv, Ask, job, history, Same
<1>3. ASSUME NEW q \in Requests PROVE RequestInv(q)'
  <2>1. CASE q = r
    <3>1. added[r] = 0 /\ answer[r] = "none" /\ home[r] = NoServer
      BY DEF Inv, RequestInv, Ask
    <3>2. home'[r] \in Servers /\ home'[r] # NoServer
      BY <1>0, NullAssumption DEF Ask, TypeOK
    <3>3. asked[r].awaited => answer'[r] = "none"
      BY <3>1 DEF Ask
    <3>4. \A i \in 1..MaxSize : i > 0 => state[<<r, i>>] = "none"
      BY <3>1 DEF Inv, RequestInv
    <3>5. 0 < asked[r].size
      BY <1>0, AskedTyped, NumberAssumption
    <3>6. QED
      BY <2>1, <3>1, <3>2, <3>3, <3>4, <3>5 DEF Ask, job, RequestInv
  <2>2. CASE q # r
    <3>1. home'[q] = home[q] /\ answer'[q] = answer[q] /\ (q \in adding' <=> q \in adding)
      BY <1>0, <2>2 DEF Ask, Answer, TypeOK
    <3>2. added' = added /\ asked' = asked /\ state' = state
      BY DEF Ask, job
    <3>3. RequestInv(q)
      BY DEF Inv
    <3>4. QED
      BY <3>1, <3>2, <3>3 DEF RequestInv
  <2>3. QED
    BY <2>1, <2>2
<1>4. QED
  BY <1>1, <1>2, <1>3 DEF Inv

(* The job at hand is one that nobody has seen. *)
LEMMA NextIsNew ==
  ASSUME Inv, NEW r \in Requests, r \in adding
  PROVE  /\ NextJob(r) \in Jobs /\ state[NextJob(r)] = "none"
         /\ added[r] + 1 \in 1..asked[r].size /\ added[r] \in Nat
         /\ asked[r].size \in 1..MaxSize
         /\ home[r] \in Servers
<1>0. TypeOK
  BY DEF Inv
<1>1. added[r] < asked[r].size /\ asked[r].size \in 1..MaxSize /\ added[r] \in 0..MaxSize
  BY <1>0, AskedTyped DEF Inv, RequestInv, TypeOK
<1>2. added[r] + 1 \in 1..MaxSize /\ added[r] + 1 \in 1..asked[r].size
  BY <1>1, NumberAssumption
<1>3. QED
  BY <1>1, <1>2 DEF Inv, RequestInv, NextJob, Jobs

LEMMA EnqueueInv ==
  ASSUME Inv, NEW n \in Jobs, state[n] = "none", Enqueue(n), asked' = asked,
         UNCHANGED <<made, stalled, tries, history>>
  PROVE  /\ state' \in [Jobs -> States]
         /\ \A j \in Jobs : JobInv(j)'
<1>0. TypeOK
  BY DEF Inv
<1>1. state' \in [Jobs -> States]
  BY <1>0 DEF Enqueue, TypeOK, States
<1>2. ASSUME NEW j \in Jobs PROVE JobInv(j)'
  <2>1. CASE j # n
    BY <1>0, <2>1, SameInv DEF Inv, Enqueue, Same, history, TypeOK
  <2>2. CASE j = n
    <3>1. state'[n] = "delayed" /\ JobInv(n)
      BY <1>0 DEF Inv, Enqueue, TypeOK
    <3>2. Noted(n)' = Noted(n) /\ Spent(n)' = Spent(n)
      BY <3>1 DEF Noted, Spent
    <3>3. QED
      BY <2>2, <3>1, <3>2 DEF JobInv, history
  <2>3. QED
    BY <2>1, <2>2
<1>3. QED
  BY <1>1, <1>2

LEMMA AddStep ==
  ASSUME Inv, NEW r \in Requests, Add(r)
  PROVE  Inv'
<1>0. TypeOK
  BY DEF Inv
<1>1. /\ NextJob(r) \in Jobs /\ state[NextJob(r)] = "none"
      /\ added[r] + 1 \in 1..asked[r].size /\ added[r] \in Nat
      /\ asked[r].size \in 1..MaxSize
      /\ home[r] \in Servers
  BY NextIsNew DEF Add
<1>2. state' \in [Jobs -> States] /\ \A j \in Jobs : JobInv(j)'
  BY <1>1, EnqueueInv DEF Add
<1>3. added' = [added EXCEPT ![r] = added[r] + 1] /\ added[r] + 1 \in 0..MaxSize
  BY <1>1, NumberAssumption DEF Add
<1>4. TypeOK'
  <2>1. added' \in [Requests -> 0..MaxSize]
    BY <1>0, <1>3 DEF TypeOK
  <2>2. adding' \subseteq Requests /\ answer' \in [Requests -> {"none", "ok", "failed"}]
    BY <1>0 DEF Add, Answer, TypeOK
  <2>3. QED
    BY <1>0, <1>2, <2>1, <2>2 DEF Add, TypeOK, history
<1>5. ASSUME NEW q \in Requests PROVE RequestInv(q)'
  <2>0. \A i \in 1..MaxSize : <<q, i>> \in Jobs
    BY DEF Jobs
  <2>1. CASE q # r
    <3>1. /\ added'[q] = added[q] /\ answer'[q] = answer[q]
          /\ (q \in adding' <=> q \in adding)
      BY <1>0, <1>3, <2>1 DEF Add, Answer, TypeOK
    <3>2. \A i \in 1..MaxSize : state'[<<q, i>>] = state[<<q, i>>]
      BY <1>0, <2>0, <2>1 DEF Add, Enqueue, NextJob, TypeOK
    <3>3. RequestInv(q) /\ asked' = asked /\ home' = home
      BY DEF Inv, Add
    <3>4. QED
      BY <3>1, <3>2, <3>3 DEF RequestInv
  <2>2. CASE q = r
    <3>1. added'[r] = added[r] + 1
      BY <1>0, <1>3 DEF TypeOK
    <3>2. \A i \in 1..MaxSize :
            state'[<<r, i>>] = IF i = added[r] + 1 THEN "delayed" ELSE state[<<r, i>>]
      BY <1>0, <2>0, <2>2 DEF Add, Enqueue, NextJob, TypeOK
    <3>3. RequestInv(r) /\ r \in adding /\ asked' = asked /\ home' = home
      BY DEF Inv, Add
    <3>4. home[r] # NoServer
      BY <1>1, NullAssumption
    <3>5. \A i \in 1..MaxSize :
            /\ i <= added'[r] => state'[<<r, i>>] # "none"
            /\ i > added'[r] => state'[<<r, i>>] = "none"
      BY <1>1, <3>1, <3>2, <3>3 DEF RequestInv
    <3>6. CASE added'[r] = asked[r].size
      <4>1. r \notin adding'
        BY <3>6 DEF Add
      <4>2. QED
        BY <2>2, <3>3, <3>4, <3>5, <3>6, <4>1 DEF RequestInv
    <3>7. CASE added'[r] # asked[r].size
      <4>1. adding' = adding /\ answer' = answer
        BY <3>7 DEF Add
      <4>2. added'[r] < asked[r].size
        BY <1>1, <3>1, <3>7
      <4>3. asked[r].awaited => answer[r] = "none"
        BY <3>3 DEF RequestInv
      <4>4. QED
        BY <1>1, <2>2, <3>3, <3>4, <3>5, <4>1, <4>2, <4>3 DEF RequestInv
    <3>8. QED
      BY <3>6, <3>7
  <2>3. QED
    BY <2>1, <2>2
<1>6. QED
  BY <1>2, <1>4, <1>5 DEF Inv

LEMMA AddFailsStep ==
  ASSUME Inv, NEW r \in Requests, AddFails(r)
  PROVE  Inv'
<1>0. TypeOK
  BY DEF Inv
<1>1. NextJob(r) \in Jobs /\ state[NextJob(r)] = "none" /\ home[r] \in Servers
  BY NextIsNew DEF AddFails
<1>2. state' \in [Jobs -> States] /\ \A j \in Jobs : JobInv(j)'
  <2>1. CASE Enqueue(NextJob(r))
    BY <1>1, <2>1, EnqueueInv DEF AddFails
  <2>2. CASE UNCHANGED state
    BY <1>0, <2>2, SameInv DEF AddFails, Inv, TypeOK, Same, history
  <2>3. QED
    BY <2>1, <2>2 DEF AddFails
<1>3. TypeOK'
  <2>1. adding' \subseteq Requests /\ answer' \in [Requests -> {"none", "ok", "failed"}]
    BY <1>0 DEF AddFails, Answer, TypeOK
  <2>2. QED
    BY <1>0, <1>2, <2>1 DEF AddFails, TypeOK, history
<1>4. ASSUME NEW q \in Requests PROVE RequestInv(q)'
  <2>0. \A i \in 1..MaxSize : <<q, i>> \in Jobs
    BY DEF Jobs
  <2>1. RequestInv(q) /\ asked' = asked /\ home' = home /\ added' = added
    BY DEF Inv, AddFails
  <2>2. \A i \in 1..MaxSize : state[<<q, i>>] # "none" => state'[<<q, i>>] # "none"
    BY <1>0, <2>0 DEF AddFails, Enqueue, TypeOK
  <2>3. CASE q # r
    <3>1. answer'[q] = answer[q] /\ (q \in adding' <=> q \in adding)
      BY <1>0, <2>3 DEF AddFails, Answer, TypeOK
    <3>2. \A i \in 1..MaxSize : state'[<<q, i>>] = state[<<q, i>>]
      BY <1>0, <2>0, <2>3 DEF AddFails, Enqueue, NextJob, TypeOK
    <3>3. QED
      BY <2>1, <3>1, <3>2 DEF RequestInv
  <2>4. CASE q = r
    <3>1. r \notin adding' /\ home[r] # NoServer
      BY <1>1, NullAssumption DEF AddFails
    <3>2. asked[r].awaited => answer'[r] = "failed"
      BY <1>0 DEF AddFails, Answer, TypeOK
    <3>3. QED
      BY <2>1, <2>2, <2>4, <3>1, <3>2 DEF RequestInv
  <2>5. QED
    BY <2>3, <2>4
<1>5. QED
  BY <1>2, <1>3, <1>4 DEF Inv

-----------------------------------------------------------------------------
(* Working on jobs. *)

LEMMA OneJob ==
  ASSUME Inv, NEW j \in Jobs, UNCHANGED request, TypeOK', JobInv(j)',
         state[j] # "none", state'[j] # "none",
         \A k \in Jobs : k # j => Same(k)
  PROVE  Inv'
<1>1. \A k \in Jobs : JobInv(k)'
  BY SameInv DEF Inv, request
<1>2. \A r \in Requests : RequestInv(r)'
  BY RequestsKept DEF Same
<1>3. QED
  BY <1>1, <1>2 DEF Inv

LEMMA PromoteStep ==
  ASSUME Inv, NEW j \in Jobs, Promote(j)
  PROVE  Inv'
<1>0. TypeOK /\ JobInv(j)
  BY DEF Inv
<1>1. TypeOK' /\ state'[j] = "waiting" /\ state[j] = "delayed"
  BY <1>0 DEF Promote, Move, TypeOK, States, history, request
<1>2. \A k \in Jobs : k # j => Same(k)
  BY <1>0 DEF Promote, Move, Same, TypeOK, history
<1>3. JobInv(j)'
  <2>1. Noted(j)' = Noted(j) /\ Spent(j)' = Spent(j)
    BY <1>1 DEF Noted, Spent
  <2>2. QED
    BY <1>0, <1>1, <2>1 DEF Promote, JobInv, history
<1>4. QED
  BY <1>1, <1>2, <1>3, OneJob DEF Promote

LEMMA TakeStep ==
  ASSUME Inv, NEW s \in Servers, NEW j \in Jobs, Take(s, j)
  PROVE  Inv'
<1>0. TypeOK /\ JobInv(j)
  BY DEF Inv
<1>1. TypeOK' /\ state'[j] = "sending" /\ state[j] = "waiting" /\ tries'[j] = 0
  BY <1>0, NumberAssumption DEF Take, Move, TypeOK, States, Active, history, request
<1>2. \A k \in Jobs : k # j => Same(k)
  BY <1>0 DEF Take, Move, Same, TypeOK, history
<1>3. JobInv(j)'
  <2>1. Noted(j)' = Noted(j) /\ Spent(j)' = Spent(j)
    BY <1>1 DEF Noted, Spent
  <2>2. QED
    BY <1>0, <1>1, <2>1 DEF Take, JobInv, history
<1>4. QED
  BY <1>1, <1>2, <1>3, OneJob DEF Take

LEMMA SkipStep ==
  ASSUME Inv, NEW j \in Jobs, Skip(j)
  PROVE  Inv'
<1>0. TypeOK /\ JobInv(j)
  BY DEF Inv
<1>1. TypeOK' /\ state'[j] = "completed" /\ state[j] = "sending"
  BY <1>0 DEF Skip, Move, TypeOK, States, Ended, history, request
<1>2. \A k \in Jobs : k # j => Same(k)
  BY <1>0 DEF Skip, Move, Same, TypeOK, history
<1>3. JobInv(j)'
  <2>1. copies[j] <= 0 /\ Noted(j)' = 1 /\ copies[j] \in Int
    BY <1>0, <1>1, JobTyped DEF JobInv, Noted
  <2>2. Spent(j) <= Spent(j)' /\ Spent(j) \in Nat /\ Spent(j)' \in Nat
    BY <1>0, <1>1, JobTyped, NumberAssumption DEF Spent
  <2>3. ~Complete(j)' /\ UNCHANGED <<made, stalled, calls, copies>>
    BY DEF Skip, Complete, request, history
  <2>4. MaxSends * (made[j] + stalled[j]) \in Nat
    BY <1>0, JobTyped, NumberAssumption, Once
  <2>5. calls'[j] <= MaxSends * (made[j] + stalled[j]) + Spent(j)'
    BY <1>0, <2>2, <2>3, <2>4, JobTyped DEF JobInv
  <2>6. QED
    BY <1>0, <1>1, <2>1, <2>3, <2>5 DEF JobInv
<1>4. QED
  BY <1>1, <1>2, <1>3, OneJob DEF Skip

LEMMA ProductTyped ==
  ASSUME TypeOK, NEW j \in Jobs
  PROVE  MaxSends * (made[j] + stalled[j]) \in Nat /\ made[j] + stalled[j] \in Nat
<1>1. made[j] + stalled[j] \in Nat /\ MaxSends \in Nat
  BY JobTyped, NumberAssumption
<1>2. QED
  BY <1>1, Once

(* A call of sendMail, from the loop of send. *)
LEMMA SendStep ==
  ASSUME Inv, NEW j \in Jobs, SendSucceeds(j) \/ SendFails(j)
  PROVE  Inv'
<1>0. TypeOK /\ JobInv(j)
  BY DEF Inv
<1>1. state[j] = "sending" /\ Complete(j) /\ calls' = [calls EXCEPT ![j] = @ + 1]
      /\ UNCHANGED <<request, made, stalled, worker, server, stops>>
  BY DEF SendSucceeds, SendFails, Sending
<1>2. /\ tries[j] \in 0..MaxSends - 1 /\ MaxSends \in Nat \ {0}
      /\ calls[j] \in Nat /\ copies[j] \in Int
  BY <1>0, JobTyped, NumberAssumption
<1>3. calls'[j] = calls[j] + 1 /\ calls' \in [Jobs -> Nat]
  BY <1>0, <1>1, <1>2 DEF TypeOK
<1>4. /\ calls[j] <= MaxSends * (made[j] + stalled[j]) + tries[j]
      /\ copies[j] <= 0
      /\ made[j] < Attempts /\ stalled[j] <= MaxStalls
      /\ made[j] + stalled[j] <= Attempts + MaxStalls
  BY <1>0, <1>1 DEF JobInv, Spent, Noted
<1>5. MaxSends * (made[j] + stalled[j]) \in Nat
  BY <1>0, ProductTyped
<1>6. calls'[j] <= MaxSends * (made[j] + stalled[j]) + tries[j] + 1
  BY <1>2, <1>3, <1>4, <1>5
<1>7. calls'[j] <= MaxSends * (made[j] + stalled[j]) + MaxSends
  BY <1>2, <1>3, <1>5, <1>6
<1>8. CASE SendSucceeds(j)
  <2>1. /\ delivered' = [delivered EXCEPT ![j] = TRUE]
        /\ copies' = [copies EXCEPT ![j] = @ + 1]
        /\ state' = [state EXCEPT ![j] = "sent"] /\ UNCHANGED tries
    BY <1>8 DEF SendSucceeds, Move
  <2>2. /\ delivered'[j] = TRUE /\ copies'[j] = copies[j] + 1 /\ state'[j] = "sent"
        /\ delivered' \in [Jobs -> BOOLEAN] /\ copies' \in [Jobs -> Int]
        /\ state' \in [Jobs -> States]
    BY <1>0, <2>1 DEF TypeOK, States, Active
  <2>3. TypeOK'
    BY <1>0, <1>1, <1>3, <2>1, <2>2 DEF TypeOK, request
  <2>4. \A k \in Jobs : k # j => Same(k)
    BY <1>0, <1>1, <2>1 DEF Same, TypeOK
  <2>5. Noted(j)' = 1 /\ Spent(j)' = MaxSends
    BY <2>2 DEF Noted, Spent
  <2>6. copies'[j] <= 1
    BY <1>2, <1>4, <2>2
  <2>7. JobInv(j)'
    BY <1>1, <1>4, <1>7, <2>2, <2>5, <2>6 DEF JobInv
  <2>8. QED
    BY <1>1, <2>2, <2>3, <2>4, <2>7, OneJob
<1>9. CASE SendFails(j)
  <2>1. PICK taken \in BOOLEAN : delivered' = [delivered EXCEPT ![j] = @ \/ taken]
    BY <1>9 DEF SendFails
  <2>2. UNCHANGED copies /\ delivered' \in [Jobs -> BOOLEAN]
    BY <1>0, <1>9, <2>1 DEF SendFails, TypeOK
  <2>3. CASE TriesLeft(tries[j] + 1)
    <3>1. tries' = [tries EXCEPT ![j] = @ + 1] /\ UNCHANGED state
      BY <1>9, <2>3 DEF SendFails
    <3>2. tries'[j] = tries[j] + 1 /\ tries' \in [Jobs -> 0..MaxSends - 1]
      BY <1>0, <1>2, <2>3, <3>1 DEF TypeOK, TriesLeft
    <3>3. TypeOK'
      BY <1>0, <1>1, <1>3, <2>2, <3>1, <3>2 DEF TypeOK, request
    <3>4. \A k \in Jobs : k # j => Same(k)
      BY <1>0, <1>1, <2>1, <2>2, <3>1 DEF Same, TypeOK
    <3>5. Noted(j)' = 0 /\ Spent(j)' = tries[j] + 1
      BY <1>1, <3>1, <3>2 DEF Noted, Spent
    <3>6. calls'[j] <= MaxSends * (made'[j] + stalled'[j]) + Spent(j)'
      BY <1>1, <1>2, <1>5, <1>6, <3>5
    <3>7. JobInv(j)'
      BY <1>1, <1>4, <2>2, <3>1, <3>5, <3>6 DEF JobInv
    <3>8. QED
      BY <1>1, <3>1, <3>3, <3>4, <3>7, OneJob
  <2>4. CASE ~TriesLeft(tries[j] + 1)
    <3>1. state' = [state EXCEPT ![j] = "refused"] /\ UNCHANGED tries
      BY <1>9, <2>4 DEF SendFails, Move
    <3>2. state'[j] = "refused" /\ state' \in [Jobs -> States]
      BY <1>0, <3>1 DEF TypeOK, States, Active
    <3>3. TypeOK'
      BY <1>0, <1>1, <1>3, <2>2, <3>1, <3>2 DEF TypeOK, request
    <3>4. \A k \in Jobs : k # j => Same(k)
      BY <1>0, <1>1, <2>1, <2>2, <3>1 DEF Same, TypeOK
    <3>5. Noted(j)' = 0 /\ Spent(j)' = MaxSends
      BY <3>2 DEF Noted, Spent
    <3>6. JobInv(j)'
      BY <1>1, <1>4, <1>7, <2>2, <3>2, <3>5 DEF JobInv
    <3>7. QED
      BY <1>1, <3>2, <3>3, <3>4, <3>6, OneJob
  <2>5. QED
    BY <2>3, <2>4
<1>10. QED
  BY <1>8, <1>9

LEMMA DoneStep ==
  ASSUME Inv, NEW j \in Jobs, Done(j)
  PROVE  Inv'
<1>0. TypeOK /\ JobInv(j)
  BY DEF Inv
<1>1. TypeOK' /\ state'[j] = "completed" /\ state[j] = "sent"
  BY <1>0 DEF Done, Move, TypeOK, States, Ended, history, request
<1>2. \A k \in Jobs : k # j => Same(k)
  BY <1>0 DEF Done, Move, Same, TypeOK, history
<1>3. JobInv(j)'
  <2>1. Noted(j)' = Noted(j) /\ Spent(j)' = Spent(j)
    BY <1>1 DEF Noted, Spent
  <2>2. UNCHANGED <<made, stalled, calls, copies, delivered>>
    BY DEF Done, history
  <2>3. QED
    BY <1>0, <1>1, <2>1, <2>2 DEF JobInv
<1>4. QED
  BY <1>1, <1>2, <1>3, OneJob DEF Done

(* The attempt is over: what it has spent is covered by one more of them.  *)
LEMMA OneMore ==
  ASSUME Inv, NEW j \in Jobs, state[j] \in {"refused", "lost"}
  PROVE  /\ calls[j] <= MaxSends * (made[j] + stalled[j] + 1)
         /\ made[j] + stalled[j] + 1 <= Attempts + MaxStalls
         /\ made[j] < Attempts /\ stalled[j] <= MaxStalls
         /\ copies[j] <= 0
<1>0. TypeOK /\ JobInv(j)
  BY DEF Inv
<1>1. /\ made[j] \in Nat /\ stalled[j] \in Nat /\ MaxSends \in Nat
      /\ Attempts \in Nat /\ MaxStalls \in Nat
  BY <1>0, JobTyped, NumberAssumption
<1>2. /\ made[j] < Attempts /\ stalled[j] <= MaxStalls /\ copies[j] <= 0
      /\ calls[j] <= MaxSends * (made[j] + stalled[j]) + MaxSends
  BY <1>0 DEF JobInv, Noted, Spent
<1>3. MaxSends * (made[j] + stalled[j] + 1) = MaxSends * (made[j] + stalled[j]) + MaxSends
  BY <1>1, Once
<1>4. QED
  BY <1>1, <1>2, <1>3

LEMMA DoneErrorStep ==
  ASSUME Inv, NEW j \in Jobs, DoneError(j)
  PROVE  Inv'
<1>0. TypeOK /\ JobInv(j) /\ state[j] = "refused"
  BY DEF Inv, DoneError
<1>1. /\ calls[j] <= MaxSends * (made[j] + stalled[j] + 1)
      /\ made[j] + stalled[j] + 1 <= Attempts + MaxStalls
      /\ made[j] < Attempts /\ stalled[j] <= MaxStalls /\ copies[j] <= 0
  BY <1>0, OneMore
<1>2. made[j] \in Nat /\ stalled[j] \in Nat /\ Attempts \in Nat
  BY <1>0, JobTyped, NumberAssumption
<1>3. made'[j] = made[j] + 1 /\ made' \in [Jobs -> 0..Attempts]
  BY <1>0, <1>1, <1>2 DEF DoneError, TypeOK
<1>4. /\ state' = [state EXCEPT ![j] = IF made'[j] < Attempts THEN "delayed" ELSE "failed"]
      /\ UNCHANGED <<request, stalled, tries, server, stops, calls, delivered, copies>>
      /\ made' = [made EXCEPT ![j] = @ + 1]
  BY DEF DoneError, Move, history
<1>5. /\ state'[j] = IF made'[j] < Attempts THEN "delayed" ELSE "failed"
      /\ state' \in [Jobs -> States]
  BY <1>0, <1>4 DEF TypeOK, States, Ended
<1>6. TypeOK'
  BY <1>0, <1>3, <1>4, <1>5 DEF DoneError, TypeOK, request
<1>7. \A k \in Jobs : k # j => Same(k)
  BY <1>0, <1>4 DEF Same, TypeOK
<1>8. Noted(j)' = 0 /\ Spent(j)' = 0
  BY <1>5 DEF Noted, Spent
<1>9. made[j] + stalled[j] + 1 = made'[j] + stalled'[j]
  BY <1>2, <1>3, <1>4
<1>10. MaxSends * (made'[j] + stalled'[j]) \in Nat
  <2>1. made'[j] + stalled'[j] \in Nat
    BY <1>2, <1>9
  <2>2. QED
    BY <2>1, NumberAssumption, Once
<1>11. calls'[j] <= MaxSends * (made'[j] + stalled'[j]) + 0
  BY <1>1, <1>4, <1>9, <1>10
<1>12. JobInv(j)'
  BY <1>1, <1>4, <1>5, <1>8, <1>9, <1>11 DEF JobInv
<1>13. QED
  BY <1>0, <1>4, <1>5, <1>6, <1>7, <1>12, OneJob

LEMMA StallStep ==
  ASSUME Inv, NEW j \in Jobs, Stall(j)
  PROVE  Inv'
<1>0. TypeOK /\ JobInv(j) /\ state[j] = "lost"
  BY DEF Inv, Stall
<1>1. /\ calls[j] <= MaxSends * (made[j] + stalled[j] + 1)
      /\ made[j] + stalled[j] + 1 <= Attempts + MaxStalls
      /\ made[j] < Attempts /\ stalled[j] <= MaxStalls /\ copies[j] <= 0
  BY <1>0, OneMore
<1>2. made[j] \in Nat /\ stalled[j] \in Nat /\ MaxStalls \in Nat
  BY <1>0, JobTyped, NumberAssumption
<1>3. stalled'[j] = stalled[j] + 1 /\ stalled' \in [Jobs -> 0..MaxStalls + 1]
  BY <1>0, <1>1, <1>2 DEF Stall, TypeOK
<1>4. /\ state' = [state EXCEPT ![j] = IF stalled'[j] > MaxStalls THEN "failed" ELSE "waiting"]
      /\ UNCHANGED <<request, made, worker, tries, server, stops, calls, delivered, copies>>
      /\ stalled' = [stalled EXCEPT ![j] = @ + 1]
  BY DEF Stall, Move, history
<1>5. /\ state'[j] = IF stalled'[j] > MaxStalls THEN "failed" ELSE "waiting"
      /\ state' \in [Jobs -> States]
  BY <1>0, <1>4 DEF TypeOK, States, Ended
<1>6. TypeOK'
  BY <1>0, <1>3, <1>4, <1>5 DEF TypeOK, request
<1>7. \A k \in Jobs : k # j => Same(k)
  BY <1>0, <1>4 DEF Same, TypeOK
<1>8. Noted(j)' = 0 /\ Spent(j)' = 0
  BY <1>5 DEF Noted, Spent
<1>9. made[j] + stalled[j] + 1 = made'[j] + stalled'[j]
  BY <1>2, <1>3, <1>4
<1>10. MaxSends * (made'[j] + stalled'[j]) \in Nat
  <2>1. made'[j] + stalled'[j] \in Nat
    BY <1>2, <1>9
  <2>2. QED
    BY <2>1, NumberAssumption, Once
<1>11. calls'[j] <= MaxSends * (made'[j] + stalled'[j]) + 0
  BY <1>1, <1>4, <1>9, <1>10
<1>12. state'[j] # "failed" => stalled'[j] <= MaxStalls
  BY <1>2, <1>3, <1>5
<1>13. JobInv(j)'
  BY <1>1, <1>4, <1>5, <1>8, <1>9, <1>11, <1>12 DEF JobInv
<1>14. QED
  BY <1>0, <1>4, <1>5, <1>6, <1>7, <1>13, OneJob

-----------------------------------------------------------------------------
(* Lost workers and the servers. *)

LEMMA LoseStep ==
  ASSUME Inv, NEW Gone \in SUBSET Jobs,
         \A j \in Gone : state[j] \in Active, Lose(Gone),
         UNCHANGED <<request, made, stalled, tries, calls, delivered>>,
         server' \in [Servers -> {"up", "closing", "down"}], stops' \in 0..MaxStops
  PROVE  Inv'
<1>0. TypeOK
  BY DEF Inv
<1>1. \A j \in Jobs :
        /\ state'[j] = IF j \in Gone THEN "lost" ELSE state[j]
        /\ copies'[j] = IF j \in Gone /\ state[j] = "sent" THEN copies[j] - 1 ELSE copies[j]
  BY DEF Lose
<1>2. TypeOK'
  <2>1. state' \in [Jobs -> States] /\ worker' \in [Jobs -> Servers \union {NoServer}]
    BY <1>0 DEF Lose, TypeOK, States
  <2>2. \A j \in Jobs : copies'[j] \in Int
    BY <1>0, <1>1, JobTyped
  <2>3. copies' \in [Jobs -> Int]
    BY <2>2 DEF Lose
  <2>4. QED
    BY <1>0, <2>1, <2>3 DEF TypeOK, request
<1>3. ASSUME NEW j \in Jobs PROVE JobInv(j)'
  <2>1. CASE j \notin Gone
    BY <1>1, <2>1, SameInv DEF Inv, Same, request
  <2>2. CASE j \in Gone
    <3>1. state[j] \in Active /\ state'[j] = "lost" /\ JobInv(j)
      BY <1>1, <2>2 DEF Inv
    <3>2. copies'[j] <= 0
      BY <1>0, <1>1, <2>2, <3>1, JobTyped DEF JobInv, Noted, Active
    <3>3. Spent(j) <= MaxSends /\ Spent(j) \in Nat /\ MaxSends \in Nat
      BY <1>0, <3>1, JobTyped, NumberAssumption DEF Spent, Active
    <3>4. Noted(j)' = 0 /\ Spent(j)' = MaxSends
      BY <3>1 DEF Noted, Spent
    <3>5. calls'[j] <= MaxSends * (made'[j] + stalled'[j]) + Spent(j)'
      <4>1. calls[j] <= MaxSends * (made[j] + stalled[j]) + Spent(j)
        BY <3>1 DEF JobInv
      <4>2. MaxSends * (made[j] + stalled[j]) \in Nat /\ calls[j] \in Nat
        BY <1>0, ProductTyped, JobTyped
      <4>3. calls[j] <= MaxSends * (made[j] + stalled[j]) + MaxSends
        BY <3>3, <4>1, <4>2
      <4>4. QED
        BY <3>4, <4>3
    <3>6. QED
      BY <3>1, <3>2, <3>4, <3>5 DEF JobInv, Active
  <2>3. QED
    BY <2>1, <2>2
<1>4. \A j \in Jobs : state'[j] = "none" <=> state[j] = "none"
  BY <1>1 DEF Active
<1>5. QED
  BY <1>2, <1>3, <1>4, RequestsKept DEF Inv

(* A job that has a worker is active. *)
WorkersFit == \A j \in Jobs : worker[j] # NoServer => state[j] \in Active

LEMMA WorkersStep ==
  ASSUME Inv, WorkersFit, [Next]_vars
  PROVE  WorkersFit'
<1>0. TypeOK
  BY DEF Inv
<1>1. CASE UNCHANGED vars
  BY <1>1 DEF vars, job, WorkersFit
<1>2. ASSUME NEW r \in Requests, Ask(r)
      PROVE  WorkersFit'
  BY <1>2 DEF Ask, job, WorkersFit
<1>3. ASSUME NEW r \in Requests, Add(r) \/ AddFails(r)
      PROVE  WorkersFit'
  <2>1. NextJob(r) \in Jobs /\ state[NextJob(r)] = "none" /\ UNCHANGED worker
    BY <1>3, NextIsNew DEF Add, AddFails
  <2>2. \A j \in Jobs : j # NextJob(r) => state'[j] = state[j]
    BY <1>0, <1>3 DEF Add, AddFails, Enqueue, TypeOK
  <2>3. QED
    BY <2>1, <2>2 DEF WorkersFit, Active
<1>4. ASSUME NEW j \in Jobs, Promote(j) \/ Stall(j)
      PROVE  WorkersFit'
  BY <1>0, <1>4 DEF Promote, Stall, Move, WorkersFit, Active, TypeOK
<1>5. ASSUME NEW j \in Jobs, Skip(j) \/ Done(j) \/ DoneError(j)
      PROVE  WorkersFit'
  BY <1>0, <1>5 DEF Skip, Done, DoneError, Move, WorkersFit, TypeOK
<1>6. ASSUME NEW j \in Jobs, SendSucceeds(j) \/ SendFails(j)
      PROVE  WorkersFit'
  BY <1>0, <1>6 DEF SendSucceeds, SendFails, Move, WorkersFit, Active, TypeOK
<1>7. ASSUME NEW s \in Servers, NEW j \in Jobs, Take(s, j)
      PROVE  WorkersFit'
  BY <1>0, <1>7 DEF Take, Move, WorkersFit, Active, TypeOK
<1>8. ASSUME NEW Gone \in SUBSET Jobs, Lose(Gone)
      PROVE  WorkersFit'
  BY <1>8 DEF Lose, WorkersFit
<1>9. ASSUME NEW j \in Jobs, DoneFails(j)
      PROVE  WorkersFit'
  BY <1>8, <1>9 DEF DoneFails
<1>10. ASSUME NEW s \in Servers, Serving(s)
       PROVE  WorkersFit'
  <2>1. CASE Start(s) \/ Shutdown(s) \/ Closed(s)
    BY <2>1 DEF Start, Shutdown, Closed, job, WorkersFit
  <2>2. CASE Crash(s)
    BY <1>8, <2>2 DEF Crash
  <2>3. QED
    BY <1>10, <2>1, <2>2 DEF Serving
<1>11. QED
  BY <1>1, <1>2, <1>3, <1>4, <1>5, <1>6, <1>7, <1>9, <1>10
  DEF Next, Quiet, Adding, Working

LEMMA ServingStep ==
  ASSUME Inv, WorkersFit, NEW s \in Servers, Serving(s)
  PROVE  Inv'
<1>0. TypeOK
  BY DEF Inv
<1>1. server' \in [Servers -> {"up", "closing", "down"}] /\ stops' \in 0..MaxStops
  BY <1>0, NumberAssumption DEF Serving, Start, Shutdown, Closed, Crash, Turn, TypeOK
<1>2. CASE Start(s) \/ Shutdown(s) \/ Closed(s)
  <2>1. UNCHANGED <<request, job, history>>
    BY <1>2 DEF Start, Shutdown, Closed
  <2>2. TypeOK'
    BY <1>0, <1>1, <2>1 DEF TypeOK, request, job, history
  <2>3. \A j \in Jobs : JobInv(j)'
    BY <2>1, SameInv DEF Inv, Same, request, job, history
  <2>4. QED
    BY <2>1, <2>2, <2>3, RequestsKept DEF Inv, job
<1>3. CASE Crash(s)
  <2>1. s # NoServer
    BY NullAssumption
  <2>2. \A j \in {k \in Jobs : worker[k] = s} : state[j] \in Active
    BY <2>1 DEF WorkersFit
  <2>3. QED
    BY <1>1, <1>3, <2>2, LoseStep DEF Crash
<1>4. QED
  BY <1>2, <1>3 DEF Serving

LEMMA DoneFailsStep ==
  ASSUME Inv, NEW j \in Jobs, DoneFails(j)
  PROVE  Inv'
<1>1. server' = server /\ stops' = stops /\ TypeOK
  BY DEF DoneFails, Inv
<1>2. server' \in [Servers -> {"up", "closing", "down"}] /\ stops' \in 0..MaxStops
  BY <1>1 DEF TypeOK
<1>3. state[j] \in Active
  BY DEF DoneFails, Active
<1>4. QED
  BY <1>2, <1>3, LoseStep DEF DoneFails

-----------------------------------------------------------------------------
(* The invariant of every step, and what follows from it. *)

FullInv == Inv /\ WorkersFit

LEMMA FullStep ==
  ASSUME FullInv, [Next]_vars
  PROVE  FullInv'
<1> USE DEF FullInv
<1>1. CASE UNCHANGED vars
  <2>1. UNCHANGED <<request, job, server, stops, history>>
    BY <1>1 DEF vars
  <2>2. TypeOK' /\ \A j \in Jobs : JobInv(j)'
    BY <2>1, SameInv DEF Inv, TypeOK, Same, request, job, history
  <2>3. QED
    BY <1>1, <2>1, <2>2, RequestsKept, WorkersStep DEF Inv, job
<1>2. ASSUME NEW r \in Requests, Adding(r)
      PROVE  Inv'
  BY <1>2, AskStep, AddStep, AddFailsStep DEF Adding
<1>3. ASSUME NEW j \in Jobs, Working(j)
      PROVE  Inv'
  BY <1>3, SkipStep, SendStep, DoneStep, DoneErrorStep, DoneFailsStep DEF Working
<1>4. QED
  BY <1>1, <1>2, <1>3, PromoteStep, StallStep, TakeStep, ServingStep, WorkersStep
  DEF Next, Quiet

LEMMA FullInit == Init => FullInv
<1>1. Init => WorkersFit
  BY DEF Init, WorkersFit
<1>2. QED
  BY <1>1, InitInv DEF FullInv

LEMMA FullInvariant == Spec => []FullInv
  BY FullInit, FullStep, PTL DEF Spec

LEMMA BoundFollows == Inv => SendsAreBounded
<1> SUFFICES ASSUME Inv, NEW j \in Jobs
             PROVE  calls[j] <= MaxSends * (Attempts + MaxStalls)
  BY DEF SendsAreBounded
<1>0. TypeOK /\ JobInv(j)
  BY DEF Inv
<1> DEFINE n == made[j] + stalled[j]
           all == Attempts + MaxStalls
<1>1. /\ n \in Nat /\ all \in Nat /\ MaxSends \in Nat /\ calls[j] \in Nat
      /\ made[j] \in Nat /\ stalled[j] \in Nat /\ tries[j] \in Nat /\ tries[j] <= MaxSends
  BY <1>0, JobTyped, NumberAssumption
<1>2. calls[j] <= MaxSends * n + Spent(j) /\ n <= all
  BY <1>0 DEF JobInv
<1>3. MaxSends * n \in Nat /\ MaxSends * n <= MaxSends * all
  <2> HIDE DEF n, all
  <2>1. QED
    BY <1>1, <1>2, Once, Monotone
<1>4. CASE state[j] = "failed"
  <2>1. Spent(j) = 0
    BY <1>4 DEF Spent
  <2>2. MaxSends * all \in Nat
    <3> HIDE DEF all
    <3>1. QED
      BY <1>1, Once
  <2> HIDE DEF n, all
  <2>3. calls[j] <= MaxSends * all
    BY <1>1, <1>2, <1>3, <2>1, <2>2
  <2>4. QED
    BY <2>3 DEF all
<1>5. CASE state[j] # "failed"
  <2>1. n + 1 <= all
    <3>1. made[j] < Attempts /\ stalled[j] <= MaxStalls
      BY <1>0, <1>5 DEF JobInv
    <3>2. QED
      BY <1>1, <3>1, NumberAssumption
  <2>2. Spent(j) <= MaxSends /\ Spent(j) \in Nat
    BY <1>1 DEF Spent
  <2> HIDE DEF n, all
  <2>3. MaxSends * (n + 1) = MaxSends * n + MaxSends
    BY <1>1, Once
  <2>4. MaxSends * (n + 1) <= MaxSends * all /\ MaxSends * all \in Nat
    BY <1>1, <2>1, Once, Monotone
  <2>5. calls[j] <= MaxSends * n + MaxSends
    BY <1>1, <1>2, <1>3, <2>2
  <2>6. calls[j] <= MaxSends * all
    BY <1>1, <1>3, <2>3, <2>4, <2>5
  <2>7. QED
    BY <2>6 DEF all
<1>6. QED
  BY <1>4, <1>5

LEMMA NotedFollows == Inv => NotedOnce
<1> SUFFICES ASSUME Inv, NEW j \in Jobs PROVE copies[j] <= 1
  BY DEF NotedOnce
<1>1. copies[j] <= Noted(j) /\ copies[j] \in Int
  BY JobTyped DEF Inv, JobInv
<1>2. QED
  BY <1>1 DEF Noted

LEMMA QueuedFollows == Inv => AcknowledgedIsQueued
<1> SUFFICES ASSUME Inv, NEW r \in Requests, answer[r] = "ok", asked[r].awaited,
                    NEW i \in 1..asked[r].size
             PROVE  state[<<r, i>>] # "none"
  BY DEF AcknowledgedIsQueued
<1>1. asked[r].size \in 1..MaxSize
  BY AskedTyped DEF Inv
<1>2. i \in 1..MaxSize /\ i <= asked[r].size
  BY <1>1, NumberAssumption
<1>3. added[r] = asked[r].size
  BY DEF Inv, RequestInv
<1>4. QED
  BY <1>2, <1>3 DEF Inv, RequestInv

(* The variables of the queue keep their types: no attempt beyond the      *)
(* last, no job of another state, no retry beyond MAX_SEND_RETRIES.        *)
THEOREM TypeCorrect == Spec => []TypeOK
  BY FullInvariant, PTL DEF FullInv, Inv

(* A job ends as completed only after the SMTP server has its mail, for    *)
(* any number of attempts, servers and crashes.                            *)
THEOREM CompletionIsDelivery == Spec => []CompletedWasSent
<1>1. FullInv => CompletedWasSent
  BY DEF FullInv, Inv, JobInv, CompletedWasSent
<1>2. QED
  BY FullInvariant, <1>1, PTL

(* A mail whose acceptance was noted is not sent again. *)
THEOREM NoSecondNote == Spec => []NotedOnce
  BY FullInvariant, NotedFollows, PTL DEF FullInv

(* The retries of the loop, of the queue and of stalled jobs multiply to   *)
(* MaxSends * (Attempts + MaxStalls) calls of sendMail and no more.        *)
THEOREM RetriesAreBounded == Spec => []SendsAreBounded
  BY FullInvariant, BoundFollows, PTL DEF FullInv

(* An answer without an error means that all jobs of the batch are queued. *)
THEOREM AnswersAreHonest == Spec => []AcknowledgedIsQueued
  BY FullInvariant, QueuedFollows, PTL DEF FullInv
-----------------------------------------------------------------------------
(* The promise.  A caller who does not wait has been answered before the   *)
(* first job is added.                                                     *)
QuickInv == \A r \in adding : ~asked[r].awaited => answer[r] = "ok"

(* The acceptance that was noted is that of a job whose worker goes on to  *)
(* report it.                                                              *)
NoteInv ==
  \A j \in Jobs : state[j] # "completed" => copies[j] = IF state[j] = "sent" THEN 1 ELSE 0

LEMMA NoteStep ==
  ASSUME Inv, NoteInv, WorkersFit, [Next]_vars
  PROVE  NoteInv'
<1>0. TypeOK
  BY DEF Inv
<1>1. ASSUME UNCHANGED <<state, copies>>
      PROVE  NoteInv'
  BY <1>1 DEF NoteInv
<1>2. ASSUME NEW r \in Requests, Add(r) \/ AddFails(r)
      PROVE  NoteInv'
  <2>1. NextJob(r) \in Jobs /\ state[NextJob(r)] = "none" /\ copies' = copies
    BY <1>2, NextIsNew DEF Add, AddFails, history
  <2>2. \A j \in Jobs :
          state'[j] = state[j] \/ (j = NextJob(r) /\ state'[j] = "delayed")
    BY <1>0, <1>2 DEF Add, AddFails, Enqueue, TypeOK
  <2>3. QED
    BY <2>1, <2>2 DEF NoteInv
<1>3. ASSUME NEW j \in Jobs, Promote(j) \/ Stall(j) \/ Skip(j) \/ Done(j) \/ DoneError(j)
      PROVE  NoteInv'
  <2>1. PICK s \in States \ {"sent"} : Move(j, s) /\ (s # "completed" => state[j] # "sent")
    BY <1>3 DEF Promote, Stall, Skip, Done, DoneError, States, Active, Ended
  <2>2. copies' = copies /\ state[j] # "completed"
    BY <1>3 DEF Promote, Stall, Skip, Done, DoneError, history
  <2>3. \A k \in Jobs : state'[k] = IF k = j THEN s ELSE state[k]
    BY <1>0, <2>1 DEF Move, TypeOK
  <2>4. QED
    BY <2>1, <2>2, <2>3 DEF NoteInv
<1>4. ASSUME NEW s \in Servers, NEW j \in Jobs, Take(s, j)
      PROVE  NoteInv'
  BY <1>0, <1>4 DEF Take, Move, NoteInv, TypeOK, history
<1>5. ASSUME NEW j \in Jobs, SendSucceeds(j)
      PROVE  NoteInv'
  BY <1>0, <1>5 DEF SendSucceeds, Sending, Move, NoteInv, TypeOK
<1>6. ASSUME NEW j \in Jobs, SendFails(j)
      PROVE  NoteInv'
  BY <1>0, <1>6 DEF SendFails, Sending, Move, NoteInv, TypeOK
<1>7. ASSUME NEW Gone \in SUBSET Jobs, \A j \in Gone : state[j] \in Active, Lose(Gone)
      PROVE  NoteInv'
  BY <1>7 DEF Lose, NoteInv, Active
<1>8. ASSUME NEW j \in Jobs, DoneFails(j)
      PROVE  NoteInv'
  BY <1>7, <1>8 DEF DoneFails, Active
<1>9. ASSUME NEW s \in Servers, Crash(s)
      PROVE  NoteInv'
  BY <1>7, <1>9, NullAssumption DEF Crash, WorkersFit
<1>10. QED
  BY <1>1, <1>2, <1>3, <1>4, <1>5, <1>6, <1>8, <1>9
  DEF Next, Adding, Ask, Working, Serving, Start, Shutdown, Closed, Quiet, vars, job, history

LEMMA NoteInvariant == Spec => []NoteInv
<1>1. Init => NoteInv
  BY DEF Init, NoteInv
<1>2. FullInv /\ NoteInv /\ [Next]_vars => NoteInv'
  BY NoteStep DEF FullInv
<1>3. QED
  BY <1>1, <1>2, FullInvariant, PTL DEF Spec

KnownIsSent == knownSent = {j \in Jobs : state[j] = "sent"}

LEMMA KnownInvariant == Spec => []KnownIsSent
<1>1. NoteInv => KnownIsSent
  BY DEF NoteInv, KnownIsSent, knownSent, Ended
<1>2. QED
  BY <1>1, NoteInvariant, PTL

LEMMA QuickStep ==
  ASSUME Inv, QuickInv, [Next]_vars
  PROVE  QuickInv'
<1>0. TypeOK
  BY DEF Inv
<1>1. ASSUME NEW r \in Requests, Adding(r)
      PROVE  QuickInv'
  BY <1>0, <1>1 DEF Adding, Ask, Add, AddFails, Answer, QuickInv, TypeOK
<1>2. CASE UNCHANGED request
  BY <1>2 DEF request, QuickInv
<1>3. UNCHANGED request \/ \E r \in Requests : Adding(r)
  BY DEF Next, Working, Serving, Promote, Stall, Take, Skip, SendSucceeds, SendFails, Done,
         DoneError, DoneFails, Start, Shutdown, Closed, Crash, Quiet, vars
<1>4. QED
  BY <1>1, <1>2, <1>3

LEMMA QuickInvariant == Spec => []QuickInv
<1>1. Init => QuickInv
  BY DEF Init, QuickInv
<1>2. FullInv /\ QuickInv /\ [Next]_vars => QuickInv'
  BY QuickStep DEF FullInv
<1>3. QED
  BY <1>1, <1>2, FullInvariant, PTL DEF Spec

(* What the promise sees of one job's change of state.                     *)
Seen(j, s) ==
  /\ inQueue' = inQueue
  /\ knownSent' = IF s = "sent" THEN knownSent \union {j} ELSE knownSent \ {j}
  /\ endedAs' = [endedAs EXCEPT ![j] = IF s \in Ended THEN s ELSE "none"]

LEMMA MoveSeen ==
  ASSUME TypeOK, NEW j \in Jobs, NEW s, Move(j, s), state[j] # "none", s # "none",
         KnownIsSent, KnownIsSent'
  PROVE  Seen(j, s)
<1>1. \A k \in Jobs : state'[k] = IF k = j THEN s ELSE state[k]
  BY DEF Move, TypeOK
<1>2. inQueue' = inQueue
  BY <1>1 DEF inQueue
<1>3. knownSent' = IF s = "sent" THEN knownSent \union {j} ELSE knownSent \ {j}
  BY <1>1 DEF KnownIsSent
<1>4. endedAs' = [endedAs EXCEPT ![j] = IF s \in Ended THEN s ELSE "none"]
  BY <1>1 DEF endedAs
<1>5. QED
  BY <1>2, <1>3, <1>4 DEF Seen

(* A change between states that look the same from outside.                *)
LEMMA MoveUnseen ==
  ASSUME TypeOK, NEW j \in Jobs, NEW s, Move(j, s), state[j] # "none", s # "none",
         {state[j], s} \intersect (Ended \union {"sent"}) = {},
         UNCHANGED <<asked, answer, history>>,
         KnownIsSent, KnownIsSent'
  PROVE  UNCHANGED Promise!vars
<1>1. \A k \in Jobs : state'[k] = IF k = j THEN s ELSE state[k]
  BY DEF Move, TypeOK
<1>2. inQueue' = inQueue /\ knownSent' = knownSent
  BY <1>1 DEF inQueue, KnownIsSent
<1>3. endedAs' = endedAs
  BY <1>1 DEF endedAs
<1>4. QED
  BY <1>2, <1>3 DEF Promise!vars, Promise!mail, history

(* A job in the queue that has not ended.                                  *)
LEMMA IsOpen ==
  ASSUME NEW j \in Jobs, state[j] \notin Ended \union {"none"}
  PROVE  Promise!Open(j)
  BY DEF Promise!Open, inQueue, endedAs

-----------------------------------------------------------------------------
(* Adding jobs serves the caller.                                          *)

LEMMA AskServes ==
  ASSUME Inv, NEW r \in Requests, Ask(r),
         KnownIsSent, KnownIsSent'
  PROVE  Promise!Serve(r)
<1>1. answer[r] = "none"
  BY DEF Ask, Inv, RequestInv
<1>2. UNCHANGED <<asked, inQueue, knownSent, endedAs, calls, delivered>>
  BY DEF Ask, job, history, inQueue, KnownIsSent, endedAs
<1>3. Promise!Answer(r) \/ UNCHANGED answer
  <2>1. CASE asked[r].awaited
    BY <2>1 DEF Ask
  <2>2. CASE ~asked[r].awaited
    BY <1>1, <2>2 DEF Ask, Answer, Promise!Answer
  <2>3. QED
    BY <2>1, <2>2
<1>4. QED
  BY <1>2, <1>3 DEF Promise!Serve, Promise!mail

(* The next job of the batch joins the queue.                              *)
LEMMA EnqueueJoins ==
  ASSUME Inv, NEW r \in Requests, r \in adding, Enqueue(NextJob(r)), asked' = asked,
         KnownIsSent, KnownIsSent'
  PROVE  /\ Promise!Join(r)
         /\ inQueue' = inQueue \union {NextJob(r)}
         /\ {r} \X (1..added[r]) \subseteq inQueue
         /\ UNCHANGED <<knownSent, endedAs>>
<1> DEFINE j == NextJob(r)
<1>1. /\ j \in Jobs /\ state[j] = "none" /\ added[r] \in Nat
      /\ added[r] + 1 \in 1..asked[r].size /\ asked[r].size \in 1..MaxSize
  BY NextIsNew
<1>2. \A k \in Jobs : state'[k] = IF k = j THEN "delayed" ELSE state[k]
  BY DEF Enqueue, Inv, TypeOK
<1>3. /\ inQueue' = inQueue \union {j} /\ j \notin inQueue
      /\ UNCHANGED <<knownSent, endedAs>>
  <2> HIDE DEF j
  <2>1. inQueue' = inQueue \union {j} /\ j \notin inQueue
    BY <1>1, <1>2 DEF inQueue
  <2>2. knownSent' = knownSent
    BY <1>1, <1>2 DEF KnownIsSent
  <2>3. endedAs' = endedAs
    BY <1>1, <1>2 DEF endedAs, Ended
  <2>4. QED
    BY <2>1, <2>2, <2>3
<1>4. ASSUME NEW i \in 1..added[r]
      PROVE  <<r, i>> \in inQueue
  <2>1. i \in 1..MaxSize /\ i <= added[r]
    BY <1>1, NumberAssumption
  <2>2. QED
    BY <2>1 DEF Inv, RequestInv, inQueue, Jobs
<1>5. {r} \X (1..added[r]) \subseteq inQueue
  BY <1>4
<1>6. (added[r] + 1) - 1 = added[r]
  BY <1>1
<1>7. Promise!Join(r)
  BY <1>1, <1>3, <1>5, <1>6 DEF Promise!Join, NextJob
<1>8. QED
  BY <1>3, <1>5, <1>7

LEMMA AddServes ==
  ASSUME Inv, QuickInv, NEW r \in Requests, Add(r),
         KnownIsSent, KnownIsSent'
  PROVE  Promise!Serve(r)
<1>0. TypeOK
  BY DEF Inv
<1>1. /\ Promise!Join(r) /\ inQueue' = inQueue \union {NextJob(r)}
      /\ {r} \X (1..added[r]) \subseteq inQueue
      /\ UNCHANGED <<asked, knownSent, endedAs, calls, delivered>>
  BY EnqueueJoins DEF Add, history
<1>2. Promise!Answer(r) \/ UNCHANGED answer
  <2>1. CASE UNCHANGED answer
    BY <2>1
  <2>2. CASE Answer(r, "ok") /\ added'[r] = asked[r].size /\ asked[r].awaited
    <3>1. answer[r] = "none"
      BY <2>2 DEF Inv, RequestInv, Add
    <3>2. asked[r].size = added[r] + 1 /\ added[r] \in Nat
      BY <1>0, <2>2, NextIsNew DEF Add, TypeOK
    <3>3. ASSUME NEW i \in 1..asked[r].size
          PROVE  <<r, i>> \in inQueue'
      <4>1. i \in 1..added[r] \/ i = added[r] + 1
        BY <3>2
      <4>2. QED
        BY <1>1, <4>1 DEF NextJob
    <3>4. Promise!Batch(r) \subseteq inQueue'
      BY <3>3 DEF Promise!Batch
    <3>5. QED
      BY <2>2, <3>1, <3>4 DEF Answer, Promise!Answer
  <2>3. CASE Answer(r, "ok") /\ ~asked[r].awaited
    <3>1. answer[r] = "ok"
      BY <2>3 DEF QuickInv, Add
    <3>2. answer' = answer
      BY <1>0, <2>3, <3>1 DEF Answer, TypeOK
    <3>3. QED
      BY <3>2
  <2>4. QED
    BY <2>1, <2>2, <2>3 DEF Add
<1>3. QED
  BY <1>1, <1>2 DEF Promise!Serve, Promise!mail

LEMMA AddFailsServes ==
  ASSUME Inv, NEW r \in Requests, AddFails(r),
         KnownIsSent, KnownIsSent'
  PROVE  Promise!Serve(r)
<1>1. /\ Promise!Join(r) \/ UNCHANGED inQueue
      /\ UNCHANGED <<asked, knownSent, endedAs, calls, delivered>>
  <2>1. CASE Enqueue(NextJob(r))
    BY <2>1, EnqueueJoins DEF AddFails, history
  <2>2. CASE UNCHANGED state
    BY <2>2 DEF AddFails, history, inQueue, KnownIsSent, endedAs
  <2>3. QED
    BY <2>1, <2>2 DEF AddFails
<1>2. Promise!Answer(r) \/ UNCHANGED answer
  <2>1. CASE asked[r].awaited
    <3>1. answer[r] = "none"
      BY <2>1 DEF Inv, RequestInv, AddFails
    <3>2. QED
      BY <2>1, <3>1 DEF AddFails, Answer, Promise!Answer
  <2>2. CASE ~asked[r].awaited
    BY <2>2 DEF AddFails
  <2>3. QED
    BY <2>1, <2>2
<1>3. QED
  BY <1>1, <1>2 DEF Promise!Serve, Promise!mail

-----------------------------------------------------------------------------
(* Working on a job sends its mail, ends it, or is not seen.               *)

LEMMA SendSends ==
  ASSUME Inv, SendsAreBounded', NEW j \in Jobs, SendSucceeds(j) \/ SendFails(j),
         KnownIsSent, KnownIsSent'
  PROVE  Promise!Send(j)
<1>0. TypeOK
  BY DEF Inv
<1>1. /\ state[j] = "sending" /\ Complete(j) /\ calls' = [calls EXCEPT ![j] = @ + 1]
      /\ UNCHANGED <<asked, answer>>
  BY DEF SendSucceeds, SendFails, Sending, request
<1>2. calls[j] < MaxSends * (Attempts + MaxStalls)
  <2>1. calls'[j] <= MaxSends * (Attempts + MaxStalls)
    BY DEF SendsAreBounded
  <2>2. calls'[j] = calls[j] + 1 /\ calls[j] \in Nat
    BY <1>0, <1>1 DEF TypeOK
  <2>3. MaxSends * (Attempts + MaxStalls) \in Nat
    BY NumberAssumption
  <2>4. QED
    BY <2>1, <2>2, <2>3
<1>3. Promise!Open(j) /\ Promise!Complete(j) /\ j \notin knownSent
  BY <1>1, IsOpen DEF Ended, Promise!Complete, Complete, KnownIsSent
<1>4. endedAs[j] = "none"
  BY <1>1 DEF endedAs, Ended
<1>5. \A s : Seen(j, s) /\ s \notin Ended => endedAs' = endedAs /\ inQueue' = inQueue
  BY <1>4 DEF Seen, endedAs
<1>6. CASE SendSucceeds(j)
  <2>1. Move(j, "sent") /\ delivered' = [delivered EXCEPT ![j] = TRUE]
    BY <1>6 DEF SendSucceeds
  <2>2. Seen(j, "sent")
    BY <1>0, <1>1, <2>1, MoveSeen
  <2>3. knownSent' = knownSent \union {j} /\ UNCHANGED <<endedAs, inQueue>>
    BY <1>5, <2>2 DEF Seen, Ended
  <2>4. QED
    BY <1>1, <1>2, <1>3, <2>1, <2>3 DEF Promise!Send
<1>7. CASE SendFails(j)
  <2>1. \E taken \in BOOLEAN : delivered' = [delivered EXCEPT ![j] = @ \/ taken]
    BY <1>7 DEF SendFails
  <2>2. UNCHANGED <<knownSent, endedAs, inQueue>>
    <3>1. CASE UNCHANGED state
      BY <3>1 DEF KnownIsSent, endedAs, inQueue
    <3>2. CASE Move(j, "refused")
      <4>1. Seen(j, "refused")
        BY <1>0, <1>1, <3>2, MoveSeen
      <4>2. QED
        BY <1>3, <1>5, <4>1 DEF Seen, Ended
    <3>3. QED
      BY <1>7, <3>1, <3>2 DEF SendFails
  <2>3. QED
    BY <1>1, <1>2, <1>3, <2>1, <2>2 DEF Promise!Send
<1>8. QED
  BY <1>6, <1>7

LEMMA EndEnds ==
  ASSUME TypeOK, NEW j \in Jobs, NEW s \in Ended, Move(j, s),
         state[j] \notin Ended \union {"none"},
         s = "completed" => state[j] = "sent" \/ ~Complete(j),
         s = "failed" => state[j] # "sent",
         UNCHANGED <<asked, answer, history>>,
         KnownIsSent, KnownIsSent'
  PROVE  Promise!End(j)
<1>1. Seen(j, s) /\ s # "sent"
  BY MoveSeen DEF Ended
<1>2. Promise!Open(j)
  BY IsOpen
<1>3. j \in knownSent <=> state[j] = "sent"
  BY DEF KnownIsSent
<1>4. QED
  BY <1>1, <1>2, <1>3 DEF Promise!End, Promise!Complete, Complete, Seen, Ended, history

LEMMA LoseForgets ==
  ASSUME TypeOK, NEW Gone \in SUBSET Jobs, \A j \in Gone : state[j] \in Active,
         Lose(Gone), UNCHANGED <<asked, answer, calls, delivered>>,
         KnownIsSent, KnownIsSent'
  PROVE  Promise!Forget
<1>1. \A j \in Jobs : state'[j] = IF j \in Gone THEN "lost" ELSE state[j]
  BY DEF Lose
<1>2. inQueue' = inQueue
  BY <1>1 DEF inQueue, Active
<1>3. knownSent' \in SUBSET knownSent
  BY <1>1 DEF KnownIsSent
<1>4. endedAs' = endedAs
  <2>1. \A j \in Jobs : endedAs'[j] = endedAs[j]
    BY <1>1 DEF endedAs, Active, Ended
  <2>2. QED
    BY <2>1 DEF endedAs
<1>5. QED
  BY <1>2, <1>3, <1>4 DEF Promise!Forget

LEMMA WorkIsPromised ==
  ASSUME FullInv, SendsAreBounded', NEW j \in Jobs, Working(j) \/ Promote(j) \/ Stall(j),
         KnownIsSent, KnownIsSent'
  PROVE  Promise!Send(j) \/ Promise!End(j) \/ Promise!Forget \/ UNCHANGED Promise!vars
<1>0. Inv /\ TypeOK
  BY DEF FullInv, Inv
<1>1. CASE SendSucceeds(j) \/ SendFails(j)
  BY <1>0, <1>1, SendSends
<1>2. CASE Skip(j) \/ Done(j)
  <2>1. /\ Move(j, "completed")
        /\ state[j] = "sent" \/ (state[j] = "sending" /\ ~Complete(j))
        /\ UNCHANGED <<asked, answer, history>>
    BY <1>2 DEF Skip, Done, request
  <2>2. PICK s \in Ended : s = "completed"
    BY DEF Ended
  <2>3. QED
    BY <1>0, <2>1, <2>2, EndEnds DEF Ended
<1>3. CASE DoneError(j) \/ Stall(j)
  <2>1. PICK s \in {"delayed", "waiting", "failed"} : Move(j, s)
    BY <1>3 DEF DoneError, Stall
  <2>2. state[j] \in {"refused", "lost"} /\ UNCHANGED <<asked, answer, history>>
    BY <1>3 DEF DoneError, Stall, request
  <2>3. CASE s = "failed"
    BY <1>0, <2>1, <2>2, <2>3, EndEnds DEF Ended
  <2>4. CASE s # "failed"
    BY <1>0, <2>1, <2>2, <2>4, MoveUnseen DEF Ended
  <2>5. QED
    BY <2>3, <2>4
<1>4. CASE Promote(j)
  <2>1. Move(j, "waiting") /\ state[j] = "delayed" /\ UNCHANGED <<asked, answer, history>>
    BY <1>4 DEF Promote, request
  <2>2. QED
    BY <1>0, <2>1, MoveUnseen DEF Ended
<1>5. CASE DoneFails(j)
  <2>1. /\ {j} \in SUBSET Jobs /\ state[j] \in Active /\ Lose({j})
        /\ UNCHANGED <<asked, answer, calls, delivered>>
    BY <1>5 DEF DoneFails, Active, request
  <2>2. QED
    BY <1>0, <2>1, LoseForgets
<1>6. QED
  BY <1>1, <1>2, <1>3, <1>4, <1>5 DEF Working

-----------------------------------------------------------------------------
LEMMA PromiseInit == Init => Promise!Init
<1> SUFFICES ASSUME Init PROVE Promise!Init
  OBVIOUS
<1>1. inQueue = {} /\ knownSent = {}
  BY DEF Init, inQueue, knownSent
<1>2. endedAs = [j \in Jobs |-> "none"]
  BY DEF Init, endedAs, Ended
<1>3. QED
  BY <1>1, <1>2 DEF Init, Promise!Init, Promise!Jobs, Jobs

LEMMA PromiseStep ==
  ASSUME FullInv, QuickInv, KnownIsSent, KnownIsSent', SendsAreBounded', [Next]_vars
  PROVE  [Promise!Next]_Promise!vars
<1>0. Inv /\ TypeOK
  BY DEF FullInv, Inv
<1>1. ASSUME NEW r \in Requests, Adding(r)
      PROVE  Promise!Next
  BY <1>0, <1>1, AskServes, AddServes, AddFailsServes DEF Adding, Promise!Next
<1>2. ASSUME NEW j \in Jobs, Working(j) \/ Promote(j) \/ Stall(j)
      PROVE  Promise!Next \/ UNCHANGED Promise!vars
  <2>1. j \in Promise!Jobs
    BY DEF Jobs, Promise!Jobs
  <2>2. QED
    BY <1>0, <1>2, <2>1, WorkIsPromised DEF Promise!Next
<1>3. ASSUME NEW s \in Servers, NEW j \in Jobs, Take(s, j)
      PROVE  UNCHANGED Promise!vars
  <2>1. Move(j, "sending") /\ state[j] = "waiting" /\ UNCHANGED <<asked, answer, history>>
    BY <1>3 DEF Take, request
  <2>2. QED
    BY <1>0, <2>1, MoveUnseen DEF Ended
<1>4. ASSUME UNCHANGED <<asked, answer, state, history>>
      PROVE  UNCHANGED Promise!vars
  BY <1>4 DEF Promise!vars, Promise!mail, inQueue, knownSent, endedAs, history
<1>5. ASSUME NEW s \in Servers, Serving(s)
      PROVE  Promise!Next \/ UNCHANGED Promise!vars
  <2>1. CASE Start(s) \/ Shutdown(s) \/ Closed(s)
    BY <1>4, <2>1 DEF Start, Shutdown, Closed, request, job
  <2>2. CASE Crash(s)
    <3>1. \A j \in {k \in Jobs : worker[k] = s} : state[j] \in Active
      BY NullAssumption DEF FullInv, WorkersFit
    <3>2. QED
      BY <1>0, <2>2, <3>1, LoseForgets DEF Crash, request, Promise!Next
  <2>3. QED
    BY <1>5, <2>1, <2>2 DEF Serving
<1>6. CASE UNCHANGED vars
  BY <1>4, <1>6 DEF vars, request, job
<1>7. QED
  BY <1>1, <1>2, <1>3, <1>5, <1>6 DEF Next, Quiet

(* The queue keeps its promise: batches join in order and are acknowledged *)
(* when whole, mails are sent within the bound and not after a success a   *)
(* worker knows of, and a job ends once, as completed only when it was     *)
(* sent or has nothing to send.                                            *)
THEOREM QueueKeepsPromise == Spec => KeepsMailPromise
  BY PromiseInit, PromiseStep, FullInvariant, QuickInvariant, KnownInvariant,
     RetriesAreBounded, PTL
  DEF Spec, KeepsMailPromise, Promise!Spec
=============================================================================
