---------------------------- MODULE MailPromise ----------------------------
(***************************************************************************)
(* What the mail queue promises those who add jobs to it.  The jobs of a   *)
(* batch join the queue in order, and a caller who waits is told that all  *)
(* is well once, after the whole batch has joined.  Mails are sent for     *)
(* jobs in the queue only, at most MaxCalls times for one job, and not     *)
(* again while a worker knows of a success; a worker that is lost forgets  *)
(* it.  A job ends once, as completed only if a worker knows that its mail *)
(* was accepted or it has no mail to send, and nothing happens to it then. *)
(***************************************************************************)
EXTENDS Integers

CONSTANTS Requests, Bodies, MaxSize, MaxCalls

VARIABLES
  asked,      \* what each request asks for
  answer,     \* how each request was answered
  queued,     \* jobs that have joined the queue
  calls,      \* how often the mail of each job was sent
  delivered,  \* the SMTP server has accepted the mail of the job
  known,      \* jobs of whose success their worker knows
  outcome     \* how each job has ended

mail == <<calls, delivered, known, outcome>>
vars == <<asked, answer, queued, mail>>

Jobs        == Requests \X (1..MaxSize)
Batch(r)    == {r} \X (1..asked[r].size)
Complete(j) == asked[j[1]].complete

Init ==
  /\ asked \in [Requests -> Bodies]
  /\ answer = [r \in Requests |-> "none"]
  /\ queued = {}
  /\ calls = [j \in Jobs |-> 0]
  /\ delivered = [j \in Jobs |-> FALSE]
  /\ known = {}
  /\ outcome = [j \in Jobs |-> "none"]

(* The first job of the batch that has not joined yet.                     *)
Join(r) ==
  \E i \in 1..asked[r].size :
    /\ <<r, i>> \notin queued
    /\ {r} \X (1..(i - 1)) \subseteq queued
    /\ queued' = queued \union {<<r, i>>}

Answer(r) ==
  /\ answer[r] = "none"
  /\ \E status \in {"ok", "failed"} :
       /\ status = "ok" /\ asked[r].awaited => Batch(r) \subseteq queued'
       /\ answer' = [answer EXCEPT ![r] = status]

Serve(r) ==
  /\ Join(r) \/ UNCHANGED queued
  /\ Answer(r) \/ UNCHANGED answer
  /\ UNCHANGED <<asked, mail>>

Open(j) == j \in queued /\ outcome[j] = "none"

Send(j) ==
  /\ Open(j)
  /\ Complete(j)
  /\ j \notin known
  /\ calls[j] < MaxCalls
  /\ calls' = [calls EXCEPT ![j] = @ + 1]
  /\ \/ /\ \E taken \in BOOLEAN : delivered' = [delivered EXCEPT ![j] = @ \/ taken]
        /\ UNCHANGED known
     \/ /\ delivered' = [delivered EXCEPT ![j] = TRUE]
        /\ known' = known \union {j}
  /\ UNCHANGED <<asked, answer, queued, outcome>>

Forget ==
  /\ known' \in SUBSET known
  /\ UNCHANGED <<asked, answer, queued, calls, delivered, outcome>>

End(j) ==
  /\ Open(j)
  /\ \/ /\ Complete(j) => j \in known
        /\ outcome' = [outcome EXCEPT ![j] = "completed"]
     \/ /\ j \notin known
        /\ outcome' = [outcome EXCEPT ![j] = "failed"]
  /\ known' = known \ {j}
  /\ UNCHANGED <<asked, answer, queued, calls, delivered>>

Next ==
  \/ \E r \in Requests : Serve(r)
  \/ \E j \in Jobs : Send(j) \/ End(j)
  \/ Forget

Spec == Init /\ [][Next]_vars
=============================================================================
