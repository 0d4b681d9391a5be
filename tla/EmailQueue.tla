----------------------------- MODULE EmailQueue -----------------------------
(***************************************************************************)
(* The mail queue: EmailJobService, TaskJobService and BullQueueService    *)
(* add jobs to a Bull queue in Redis, the processors registered by         *)
(* TasksWorkerService take them and call EmailService.send, which calls    *)
(* the SMTP server up to MaxSends times.  Servers share the queue, stop,   *)
(* crash and start again; the queue itself outlives them.                  *)
(*                                                                         *)
(* A job is known by the request that added it and its place in the batch, *)
(* as addJob and addJobs make up a new id for every job.                   *)
(***************************************************************************)
EXTENDS Integers, FiniteSets

CONSTANTS
  Requests,     \* requests that add jobs
  Offered,      \* what they may ask for
  Servers,      \* server processes
  NoServer,     \* null: nobody works on the job
  MaxSize,      \* bound: the jobs of one batch
  Attempts,     \* attempts of DEFAULT_JOB_OPTIONS
  MaxSends,     \* MAX_SEND_RETRIES
  MaxStalls,    \* maxStalledCount of Bull
  Concurrency,  \* jobs a server works on, over both processors
  MaxStops      \* bound: crashes and shutdowns

(* register does not await its enqueueSendOtp.  A payload is complete if   *)
(* it has the fields that the processor asks for.                          *)
Request == [size : 1..MaxSize, awaited : BOOLEAN, complete : BOOLEAN]

Jobs == Requests \X (1..MaxSize)

ASSUME OfferedAssumption == Offered \subseteq Request
ASSUME NullAssumption    == NoServer \notin Servers
ASSUME NumberAssumption  == /\ MaxSize \in Nat \ {0} /\ Attempts \in Nat \ {0}
                            /\ MaxSends \in Nat \ {0} /\ MaxStalls \in Nat
                            /\ Concurrency \in Nat \ {0} /\ MaxStops \in Nat

VARIABLES
  asked,      \* what each request asks for
  home,       \* the server each request runs on
  added,      \* how many of its jobs it has added
  answer,     \* how each request was answered
  adding,     \* the requests whose handler is still adding
  state,      \* Bull: where each job is
  made,       \* Bull: attemptsMade
  stalled,    \* Bull: how often its worker was lost
  worker,     \* the server that works on the job
  tries,      \* send: calls of sendMail that failed in this attempt
  server,     \* what each server process does
  stops,      \* bound: crashes and shutdowns so far
  calls,      \* history: calls of sendMail for the job
  delivered,  \* history: the SMTP server has accepted the mail
  copies      \* history: acceptances reported, less those whose worker was lost

request == <<asked, home, added, answer, adding>>
job     == <<state, made, stalled, worker, tries>>
history == <<calls, delivered, copies>>
vars    == <<request, job, server, stops, history>>

Active == {"sending", "sent", "refused"}
Ended  == {"completed", "failed"}
States == {"none", "delayed", "waiting", "lost"} \union Active \union Ended

TypeOK ==
  /\ asked \in [Requests -> Offered]
  /\ home \in [Requests -> Servers \union {NoServer}]
  /\ added \in [Requests -> 0..MaxSize]
  /\ answer \in [Requests -> {"none", "ok", "failed"}]
  /\ adding \subseteq Requests
  /\ state \in [Jobs -> States]
  /\ made \in [Jobs -> 0..Attempts]
  /\ stalled \in [Jobs -> 0..MaxStalls + 1]
  /\ worker \in [Jobs -> Servers \union {NoServer}]
  /\ tries \in [Jobs -> 0..MaxSends - 1]
  /\ server \in [Servers -> {"up", "closing", "down"}]
  /\ stops \in 0..MaxStops
  /\ calls \in [Jobs -> Nat]
  /\ delivered \in [Jobs -> BOOLEAN]
  /\ copies \in [Jobs -> Int]

Init ==
  /\ asked \in [Requests -> Offered]
  /\ home = [r \in Requests |-> NoServer]
  /\ added = [r \in Requests |-> 0]
  /\ answer = [r \in Requests |-> "none"]
  /\ adding = {}
  /\ state = [j \in Jobs |-> "none"]
  /\ made = [j \in Jobs |-> 0]
  /\ stalled = [j \in Jobs |-> 0]
  /\ worker = [j \in Jobs |-> NoServer]
  /\ tries = [j \in Jobs |-> 0]
  /\ server = [s \in Servers |-> "up"]
  /\ stops = 0
  /\ calls = [j \in Jobs |-> 0]
  /\ delivered = [j \in Jobs |-> FALSE]
  /\ copies = [j \in Jobs |-> 0]

-----------------------------------------------------------------------------
(* Adding jobs: addJob, addJobs. *)

Answer(r, status) == answer' = [answer EXCEPT ![r] = status]

(* The handler asks createQueue for the queue, which it gets or creates,   *)
(* be it while app.close runs.                                             *)
Ask(r) ==
  /\ home[r] = NoServer
  /\ \E s \in Servers : server[s] # "down" /\ home' = [home EXCEPT ![r] = s]
  /\ adding' = adding \union {r}
  /\ IF asked[r].awaited THEN UNCHANGED answer ELSE Answer(r, "ok")
  /\ UNCHANGED <<asked, added, job, server, stops, history>>

NextJob(r) == <<r, added[r] + 1>>

(* queue.add: the job is in Redis, its delay begins. *)
Enqueue(j) == state' = [state EXCEPT ![j] = "delayed"]

(* Fault: queue.add is not awaited, and the answer does not wait for it.   *)
AddUnawaited(r) ==
  /\ r \in adding
  /\ server[home[r]] # "down"
  /\ Enqueue(NextJob(r))
  /\ added' = [added EXCEPT ![r] = @ + 1]
  /\ adding' = IF added'[r] = asked[r].size THEN adding \ {r} ELSE adding
  /\ Answer(r, "ok")
  /\ UNCHANGED <<asked, home, made, stalled, worker, tries, server, stops, history>>

Add(r) ==
  /\ r \in adding
  /\ server[home[r]] # "down"
  /\ Enqueue(NextJob(r))
  /\ added' = [added EXCEPT ![r] = @ + 1]
  /\ IF added'[r] = asked[r].size
     THEN adding' = adding \ {r} /\ Answer(r, "ok")
     ELSE UNCHANGED <<adding, answer>>
  /\ UNCHANGED <<asked, home, made, stalled, worker, tries, server, stops, history>>

(* Redis fails, the queue is closing or the server has died: the jobs      *)
(* before stay, and this one may have arrived.                             *)
AddFails(r) ==
  /\ r \in adding
  /\ adding' = adding \ {r}
  /\ IF asked[r].awaited THEN Answer(r, "failed") ELSE UNCHANGED answer
  /\ Enqueue(NextJob(r)) \/ UNCHANGED state
  /\ UNCHANGED <<asked, home, added, made, stalled, worker, tries, server, stops,
                 history>>

-----------------------------------------------------------------------------
(* Working on jobs. *)

Move(j, s) == state' = [state EXCEPT ![j] = s]

(* The delay or the backoff is over. *)
Promote(j) ==
  /\ state[j] = "delayed"
  /\ Move(j, "waiting")
  /\ UNCHANGED <<request, made, stalled, worker, tries, server, stops, history>>

Load(s) == Cardinality({j \in Jobs : worker[j] = s})

(* A worker takes the job and calls its processor. *)
Take(s, j) ==
  /\ state[j] = "waiting"
  /\ server[s] = "up"
  /\ Load(s) < Concurrency
  /\ Move(j, "sending")
  /\ worker' = [worker EXCEPT ![j] = s]
  /\ tries' = [tries EXCEPT ![j] = 0]
  /\ UNCHANGED <<request, made, stalled, server, stops, history>>

Complete(j) == asked[j[1]].complete

(* Fault: data is missing, and nobody calls done. *)
SkipSilently(j) == state[j] = "sending" /\ ~Complete(j) /\ UNCHANGED vars

(* process: data is missing, done(). *)
Skip(j) ==
  /\ state[j] = "sending"
  /\ ~Complete(j)
  /\ Move(j, "completed")
  /\ worker' = [worker EXCEPT ![j] = NoServer]
  /\ UNCHANGED <<request, made, stalled, tries, server, stops, history>>

Sending(j) ==
  /\ state[j] = "sending"
  /\ Complete(j)
  /\ calls' = [calls EXCEPT ![j] = @ + 1]

(* Fault: the loop goes on after a success. *)
SendsOn(j) ==
  /\ Sending(j)
  /\ delivered' = [delivered EXCEPT ![j] = TRUE]
  /\ copies' = [copies EXCEPT ![j] = @ + 1]
  /\ tries' = [tries EXCEPT ![j] = @ + 1]
  /\ Move(j, IF tries'[j] = MaxSends THEN "sent" ELSE "sending")
  /\ UNCHANGED <<request, made, stalled, worker, server, stops>>

(* sendMail resolves. *)
SendSucceeds(j) ==
  /\ Sending(j)
  /\ delivered' = [delivered EXCEPT ![j] = TRUE]
  /\ copies' = [copies EXCEPT ![j] = @ + 1]
  /\ Move(j, "sent")
  /\ UNCHANGED <<request, made, stalled, worker, tries, server, stops>>

(* Fault: one call too many. *)
SendsLeft(n) == n <= MaxSends

TriesLeft(n) == n < MaxSends

(* sendMail rejects, whether or not the SMTP server has taken the mail;    *)
(* the loop calls it again, or result.error is set.                        *)
SendFails(j) ==
  /\ Sending(j)
  /\ \E taken \in BOOLEAN : delivered' = [delivered EXCEPT ![j] = @ \/ taken]
  /\ IF TriesLeft(tries[j] + 1)
     THEN tries' = [tries EXCEPT ![j] = @ + 1] /\ UNCHANGED state
     ELSE Move(j, "refused") /\ UNCHANGED tries
  /\ UNCHANGED <<request, made, stalled, worker, server, stops, copies>>

(* done(null): Bull moves the job to the completed ones. *)
Done(j) ==
  /\ state[j] = "sent"
  /\ Move(j, "completed")
  /\ worker' = [worker EXCEPT ![j] = NoServer]
  /\ UNCHANGED <<request, made, stalled, tries, server, stops, history>>

(* Fault: result.error is not looked at, done(). *)
DoneAnyway(j) ==
  /\ state[j] = "refused"
  /\ Move(j, "completed")
  /\ worker' = [worker EXCEPT ![j] = NoServer]
  /\ UNCHANGED <<request, made, stalled, tries, server, stops, history>>

(* Fault: the attempt is not counted. *)
DoneUncounted(j) ==
  /\ state[j] = "refused"
  /\ Move(j, "delayed")
  /\ worker' = [worker EXCEPT ![j] = NoServer]
  /\ UNCHANGED <<request, made, stalled, tries, server, stops, history>>

(* done(new Error): the attempt counts; with backoff to the next one.      *)
DoneError(j) ==
  /\ state[j] = "refused"
  /\ made' = [made EXCEPT ![j] = @ + 1]
  /\ Move(j, IF made'[j] < Attempts THEN "delayed" ELSE "failed")
  /\ worker' = [worker EXCEPT ![j] = NoServer]
  /\ UNCHANGED <<request, stalled, tries, server, stops, history>>

(* What becomes of the jobs in Gone when their worker is lost. *)
Lose(Gone) ==
  /\ state' = [j \in Jobs |-> IF j \in Gone THEN "lost" ELSE state[j]]
  /\ worker' = [j \in Jobs |-> IF j \in Gone THEN NoServer ELSE worker[j]]
  /\ copies' = [j \in Jobs |-> IF j \in Gone /\ state[j] = "sent"
                               THEN copies[j] - 1 ELSE copies[j]]

(* Redis is not reached when the processor calls done. *)
DoneFails(j) ==
  /\ state[j] \in {"sent", "refused"}
  /\ Lose({j})
  /\ UNCHANGED <<request, made, stalled, tries, server, stops, calls, delivered>>

(* The lock of a lost job has expired: another server puts it back, once   *)
(* too often it fails.                                                     *)
Stall(j) ==
  /\ state[j] = "lost"
  /\ \E s \in Servers : server[s] = "up"
  /\ stalled' = [stalled EXCEPT ![j] = @ + 1]
  /\ Move(j, IF stalled'[j] > MaxStalls THEN "failed" ELSE "waiting")
  /\ UNCHANGED <<request, made, worker, tries, server, stops, history>>

-----------------------------------------------------------------------------
(* The servers. *)

Turn(s, what) == server' = [server EXCEPT ![s] = what]

(* onModuleInit: both processors are registered on the queue. *)
Start(s) ==
  /\ server[s] = "down"
  /\ Turn(s, "up")
  /\ UNCHANGED <<request, job, stops, history>>

(* onModuleDestroy, closeQueue: no job is taken any more. *)
Shutdown(s) ==
  /\ server[s] = "up"
  /\ stops < MaxStops
  /\ stops' = stops + 1
  /\ Turn(s, "closing")
  /\ UNCHANGED <<request, job, history>>

(* queue.close has waited for the jobs in progress. *)
Closed(s) ==
  /\ server[s] = "closing"
  /\ Load(s) = 0
  /\ Turn(s, "down")
  /\ UNCHANGED <<request, job, stops, history>>

Crash(s) ==
  /\ server[s] # "down"
  /\ stops < MaxStops
  /\ stops' = stops + 1
  /\ Turn(s, "down")
  /\ Lose({j \in Jobs : worker[j] = s})
  /\ UNCHANGED <<request, made, stalled, tries, calls, delivered>>

Quiet ==
  /\ \A r \in Requests : home[r] # NoServer /\ r \notin adding
  /\ \A j \in Jobs : state[j] \in Ended \union {"none"}
  /\ UNCHANGED vars

Adding(r)  == Ask(r) \/ Add(r) \/ AddFails(r)
Working(j) == Skip(j) \/ SendSucceeds(j) \/ SendFails(j) \/ Done(j) \/ DoneError(j)
                \/ DoneFails(j)
Serving(s) == Start(s) \/ Shutdown(s) \/ Closed(s) \/ Crash(s)

Next ==
  \/ \E r \in Requests : Adding(r)
  \/ \E j \in Jobs :
       Promote(j) \/ Working(j) \/ Stall(j) \/ \E s \in Servers : Take(s, j)
  \/ \E s \in Servers : Serving(s)
  \/ Quiet

Spec == Init /\ [][Next]_vars

(* The timers of Bull and of the SMTP client fire, whatever the SMTP       *)
(* server does; workers look for jobs; and a server that has stopped is    *)
(* started again.                                                          *)
FairSpec ==
  /\ Spec
  /\ \A j \in Jobs :
       /\ WF_vars(Promote(j)) /\ WF_vars(Working(j)) /\ WF_vars(Stall(j))
       /\ WF_vars(\E s \in Servers : Take(s, j))
  /\ \A s \in Servers : WF_vars(Start(s)) /\ WF_vars(Closed(s))

-----------------------------------------------------------------------------
(* Properties. *)

(* A job with a complete payload ends as completed only if the SMTP server *)
(* has accepted its mail, in whatever attempt and after whatever crashes.  *)
CompletedWasSent ==
  \A j \in Jobs : state[j] = "completed" /\ Complete(j) => delivered[j]

(* A mail is accepted a second time only after the SMTP server has taken   *)
(* it and reported an error, or the worker was lost before it could note   *)
(* the success: a success that was noted is the last one.                  *)
NotedOnce == \A j \in Jobs : copies[j] <= 1

(* The retries of send and those of the queue multiply, and lost workers   *)
(* add attempts: this is the most that sendMail is called for one job.     *)
SendsAreBounded ==
  \A j \in Jobs : calls[j] <= MaxSends * (Attempts + MaxStalls)

(* A batch that was answered without an error is in the queue with all its *)
(* jobs.  One answered with an error has left the first of them there, and *)
(* nothing is known of a registration's job.                               *)
AcknowledgedIsQueued ==
  \A r \in Requests :
    answer[r] = "ok" /\ asked[r].awaited =>
      \A i \in 1..asked[r].size : state[<<r, i>>] # "none"

(* What the callers and the recipients see of the queue, through batches,  *)
(* retries, stalls and restarts, is what MailPromise allows.               *)
inQueue   == {j \in Jobs : state[j] # "none"}
knownSent == {j \in Jobs : copies[j] > 0 /\ state[j] \notin Ended}
endedAs   == [j \in Jobs |-> IF state[j] \in Ended THEN state[j] ELSE "none"]

Promise == INSTANCE MailPromise
             WITH Bodies <- Offered, MaxCalls <- MaxSends * (Attempts + MaxStalls),
                  queued <- inQueue, known <- knownSent, outcome <- endedAs

KeepsMailPromise == Promise!Spec

(* Every job in the queue is completed or given up in the end, although    *)
(* the SMTP server may never accept a mail and servers stop meanwhile.     *)
JobsEnd == \A j \in Jobs : (state[j] # "none") ~> (state[j] \in Ended)
=============================================================================
