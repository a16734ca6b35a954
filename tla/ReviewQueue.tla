---------------------------- MODULE ReviewQueue ----------------------------
(***************************************************************************)
(* The review job queue: the review_jobs table, the goroutines that drain  *)
(* it, the processes they live in, and the HTTP requests that fill it.     *)
(*                                                                         *)
(* Every action is one SQL statement (or one call that holds no statement) *)
(* because nothing in Enqueue, Run or Finish spans a transaction, except   *)
(* the per-chunk write that touches only question rows.  Between two       *)
(* statements any other goroutine, request or process may act.             *)
(*                                                                         *)
(* Time is counted in ticks.  The database clock is seen only through      *)
(* age[j], the time since the job's heartbeat_at.  A live worker attempts  *)
(* a heartbeat every HeartbeatEvery ticks; up to MaxMisses attempts in a   *)
(* row may fail (the code logs a warning and goes on).                     *)
(***************************************************************************)
EXTENDS Integers, FiniteSets

CONSTANTS
  Assessment,      \* the assessments under review
  Server,          \* application processes sharing the database
  Worker,          \* review goroutines, over all processes
  ServerOf,        \* [Worker -> Server]
  Request,         \* concurrent POST /review requests
  MaxJobs,         \* bound: jobs ever created
  StalledAfter,    \* stalledAfter, in ticks
  HeartbeatEvery,  \* heartbeatInterval, in ticks
  FinishWithin,    \* timeout of the context that records the outcome
  MaxMisses,       \* bound: heartbeats of one run that fail in a row
  MaxFaults        \* bound: crashes, shutdowns and lost replies

ASSUME SizeAssumption ==
  /\ MaxJobs \in Nat /\ MaxMisses \in Nat /\ MaxFaults \in Nat
  /\ StalledAfter \in Nat /\ HeartbeatEvery \in Nat /\ FinishWithin \in Nat
ASSUME ServerAssumption == ServerOf \in [Worker -> Server] /\ Assessment # {}

NoJob    == 0
Job      == 1 .. MaxJobs         \* numbered by created_at
Terminal == {"succeeded", "failed", "cancelled"}
Active   == {"queued", "running"}

VARIABLES
  status,     \* [Job -> review_jobs.status, "absent" before the INSERT]
  target,     \* [Job -> review_jobs.assessment_id]
  scope,      \* [Job -> review_jobs.scope]
  scoped,     \* the jobs with rows in review_job_questions
  age,        \* [Job -> ticks since the heartbeat of a running job]
  astatus,    \* [Assessment -> assessments.status]
  proc,       \* [Server -> "up" | "stopping" | "down"]
  pc,         \* [Worker -> where its loop is]
  held,       \* [Worker -> the job in its hands]
  timer,      \* [Worker -> ticks since the last heartbeat attempt, or since
              \*            the outcome context was opened]
  misses,     \* [Worker -> heartbeats in a row that failed]
  req,        \* [Request -> where Enqueue is, and what it was asked for]
  faults      \* crashes, shutdowns and lost replies so far

jobVars    == <<status, target, scope, scoped, age>>
workerVars == <<pc, held, timer, misses>>
vars       == <<jobVars, astatus, proc, workerVars, req, faults>>

\* Run is under way: the heartbeat goroutine is beating.
Running   == {"claimed", "loading", "reviewing", "reviewed"}
\* Run has returned; its outcome is not in the job row yet.
Recording == {"succeeding", "failing", "cancelling"}
Holding   == Running \cup Recording \cup {"resetting"}
Scope     == {"all", "selected"}

SomeAssessment == CHOOSE a \in Assessment : TRUE
NoRequest      == [at |-> "none", for |-> SomeAssessment, scope |-> "all", job |-> NoJob]

\* Who still has the right to record the job's outcome.
Holds(w, j) == pc[w] \in Running \cup Recording /\ held[w] = j

Init ==
  /\ status  = [j \in Job |-> "absent"]
  /\ target  = [j \in Job |-> SomeAssessment]
  /\ scope   = [j \in Job |-> "all"]
  /\ scoped  = {}
  /\ age     = [j \in Job |-> 0]
  /\ astatus = [a \in Assessment |-> "mapped"]
  /\ proc    = [s \in Server |-> "up"]
  /\ pc      = [w \in Worker |-> "idle"]
  /\ held    = [w \in Worker |-> NoJob]
  /\ timer   = [w \in Worker |-> 0]
  /\ misses  = [w \in Worker |-> 0]
  /\ req     = [r \in Request |-> NoRequest]
  /\ faults  = 0

----------------------------------------------------------------------------
(* Enqueue: three statements and, for a selected scope, a fourth.          *)

CanStartReview(st) == st \in {"mapped", "reviewed"}
HasActive(a)       == \E j \in Job : target[j] = a /\ status[j] \in Active

ReadStatus(r, a, sc) ==
  /\ req[r].at = "none"
  /\ CanStartReview(astatus[a])
  /\ req' = [req EXCEPT ![r] = [at |-> "open", for |-> a, scope |-> sc, job |-> NoJob]]
  /\ UNCHANGED <<jobVars, astatus, proc, workerVars, faults>>

CheckActive(r) ==
  /\ req[r].at = "open"
  /\ req' = [req EXCEPT ![r] = IF HasActive(req[r].for) THEN NoRequest
                                                        ELSE [@ EXCEPT !.at = "clear"]]
  /\ UNCHANGED <<jobVars, astatus, proc, workerVars, faults>>

Create(r, j) ==
  /\ req[r].at = "clear"
  /\ status[j] = "absent"
  /\ \A i \in Job : i < j => status[i] # "absent"
  /\ status' = [status EXCEPT ![j] = "queued"]
  /\ target' = [target EXCEPT ![j] = req[r].for]
  /\ scope'  = [scope EXCEPT ![j] = req[r].scope]
  /\ req'    = [req EXCEPT ![r] = IF req[r].scope = "selected"
                                    THEN [@ EXCEPT !.at = "created", !.job = j]
                                    ELSE NoRequest]
  /\ UNCHANGED <<scoped, age, astatus, proc, workerVars, faults>>

SaveQuestionScope(r) ==
  /\ req[r].at = "created"
  /\ scoped' = scoped \cup {req[r].job}
  /\ req'    = [req EXCEPT ![r] = NoRequest]
  /\ UNCHANGED <<status, target, scope, age, astatus, proc, workerVars, faults>>

\* A statement of Enqueue fails (no question in scope, client gone, database
\* error): the request ends, and what it wrote so far stays.
AbortEnqueue(r) ==
  /\ req[r].at # "none"
  /\ req' = [req EXCEPT ![r] = NoRequest]
  /\ UNCHANGED <<jobVars, astatus, proc, workerVars, faults>>

----------------------------------------------------------------------------
(* The worker loop.                                                        *)

Oldest(j) == status[j] = "queued" /\ \A i \in Job : i < j => status[i] # "queued"

\* w leaves its current step for step p, still holding its job.
Goto(w, p) == pc' = [pc EXCEPT ![w] = p]

\* ClaimNext under SKIP LOCKED; the heartbeat goroutine starts with the run.
ClaimNext(w, j) ==
  /\ pc[w] = "idle" /\ proc[ServerOf[w]] = "up"
  /\ Oldest(j)
  /\ status' = [status EXCEPT ![j] = "running"]
  /\ age'    = [age EXCEPT ![j] = 0]
  /\ held'   = [held EXCEPT ![w] = j]
  /\ timer'  = [timer EXCEPT ![w] = 0]
  /\ misses' = [misses EXCEPT ![w] = 0]
  /\ Goto(w, "claimed")
  /\ UNCHANGED <<target, scope, scoped, astatus, proc, req, faults>>

\* The claim commits but its answer is lost: the row runs with nobody on it.
ClaimLost(w, j) ==
  /\ pc[w] = "idle" /\ proc[ServerOf[w]] = "up"
  /\ faults < MaxFaults
  /\ Oldest(j)
  /\ status' = [status EXCEPT ![j] = "running"]
  /\ age'    = [age EXCEPT ![j] = 0]
  /\ faults' = faults + 1
  /\ UNCHANGED <<target, scope, scoped, astatus, proc, workerVars, req>>

\* Run's context is alive until the process is told to stop.
Live(w) == proc[ServerOf[w]] = "up"

\* SetStatus(reviewing), whatever the status has become since Enqueue.
MarkReviewing(w) ==
  /\ pc[w] = "claimed" /\ Live(w)
  /\ astatus' = [astatus EXCEPT ![target[held[w]]] = "reviewing"]
  /\ Goto(w, "loading")
  /\ UNCHANGED <<jobVars, proc, held, timer, misses, req, faults>>

\* The question set is read once; a selected job with no saved scope fails.
LoadQuestions(w) ==
  /\ pc[w] = "loading" /\ Live(w)
  /\ IF scope[held[w]] = "selected" /\ held[w] \notin scoped
       THEN Goto(w, "failing") /\ timer' = [timer EXCEPT ![w] = 0]
       ELSE Goto(w, "reviewing") /\ UNCHANGED timer
  /\ UNCHANGED <<jobVars, astatus, proc, held, misses, req, faults>>

\* Mutant: progress also marks the job as running.
ProgressRestartsJob(w) ==
  /\ pc[w] = "reviewing" /\ Live(w)
  /\ status' = [status EXCEPT ![held[w]] = "running"]
  /\ age' = [age EXCEPT ![held[w]] = 0]
  /\ UNCHANGED <<target, scope, scoped, astatus, proc, workerVars, req, faults>>

\* Progress is written by job id alone, and refreshes the heartbeat.
UpdateProgress(w) ==
  /\ pc[w] = "reviewing" /\ Live(w)
  /\ age' = [age EXCEPT ![held[w]] = 0]
  /\ UNCHANGED <<status, target, scope, scoped, astatus, proc, workerVars, req, faults>>

\* Every chunk is persisted: SetStatus(reviewed).
MarkReviewed(w) ==
  /\ pc[w] = "reviewing" /\ Live(w)
  /\ astatus' = [astatus EXCEPT ![target[held[w]]] = "reviewed"]
  /\ Goto(w, "reviewed")
  /\ UNCHANGED <<jobVars, proc, held, timer, misses, req, faults>>

\* The last progress update, whose failure is only logged; Run returns nil.
Complete(w) ==
  /\ pc[w] = "reviewed"
  /\ \/ Live(w) /\ age' = [age EXCEPT ![held[w]] = 0]
     \/ UNCHANGED age
  /\ timer' = [timer EXCEPT ![w] = 0]
  /\ Goto(w, "succeeding")
  /\ UNCHANGED <<status, target, scope, scoped, astatus, proc, held, misses, req, faults>>

\* Run returns an error: a failed statement, no usable result, the job
\* timeout, a panic.
RunFails(w) ==
  /\ pc[w] \in Running \ {"reviewed"}
  /\ timer' = [timer EXCEPT ![w] = 0]
  /\ Goto(w, "failing")
  /\ UNCHANGED <<jobVars, astatus, proc, held, misses, req, faults>>

\* Shutdown cancels the run's context.
RunCancelled(w) ==
  /\ pc[w] \in Running \ {"reviewed"} /\ ~Live(w)
  /\ timer' = [timer EXCEPT ![w] = 0]
  /\ Goto(w, "cancelling")
  /\ UNCHANGED <<jobVars, astatus, proc, held, misses, req, faults>>

\* Mutant: a failure is recorded under a name the column does not have.
OutcomeMisnamed(w) == CASE pc[w] = "succeeding" -> "succeeded"
                        [] pc[w] = "failing"    -> "error"
                        [] pc[w] = "cancelling" -> "cancelled"

Outcome(w) == CASE pc[w] = "succeeding" -> "succeeded"
                [] pc[w] = "failing"    -> "failed"
                [] pc[w] = "cancelling" -> "cancelled"

\* Mutant: a failed run does not get as far as the assessment.
FinishWithoutReset(w) ==
  /\ pc[w] \in Recording
  /\ status' = [status EXCEPT ![held[w]] = Outcome(w)]
  /\ age'    = [age EXCEPT ![held[w]] = 0]
  /\ Goto(w, "idle") /\ held' = [held EXCEPT ![w] = NoJob]
  /\ UNCHANGED <<target, scope, scoped, astatus, proc, timer, misses, req, faults>>

\* Service.Finish, first statement: by job id, whatever the row's status is.
FinishJob(w) ==
  /\ pc[w] \in Recording
  /\ status' = [status EXCEPT ![held[w]] = Outcome(w)]
  /\ age'    = [age EXCEPT ![held[w]] = 0]
  /\ IF pc[w] = "succeeding"
       THEN Goto(w, "idle") /\ held' = [held EXCEPT ![w] = NoJob]
       ELSE Goto(w, "resetting") /\ UNCHANGED held
  /\ UNCHANGED <<target, scope, scoped, astatus, proc, timer, misses, req, faults>>

\* Mutant: the assessment keeps its status.
ResetNothing(w) ==
  /\ pc[w] = "resetting"
  /\ Goto(w, "idle")
  /\ held' = [held EXCEPT ![w] = NoJob]
  /\ UNCHANGED <<jobVars, astatus, proc, timer, misses, req, faults>>

\* Service.Finish, second statement: a failed run puts the assessment back.
ResetAssessment(w) ==
  /\ pc[w] = "resetting"
  /\ astatus' = [astatus EXCEPT ![target[held[w]]] = "mapped"]
  /\ Goto(w, "idle")
  /\ held' = [held EXCEPT ![w] = NoJob]
  /\ UNCHANGED <<jobVars, proc, timer, misses, req, faults>>

\* A statement of Finish fails or times out: it is logged and dropped.
FinishLost(w) ==
  /\ pc[w] \in Recording \cup {"resetting"}
  /\ faults < MaxFaults
  /\ faults' = faults + 1
  /\ Goto(w, "idle")
  /\ held' = [held EXCEPT ![w] = NoJob]
  /\ UNCHANGED <<jobVars, astatus, proc, timer, misses, req>>

----------------------------------------------------------------------------
(* Heartbeats, the clock and the reclaimer.                                *)

\* Mutant: the heartbeat does not reach the job row.
HeartbeatUnwritten(w) ==
  /\ pc[w] \in Running /\ Live(w)
  /\ timer[w] = HeartbeatEvery
  /\ timer'  = [timer EXCEPT ![w] = 0]
  /\ misses' = [misses EXCEPT ![w] = 0]
  /\ UNCHANGED <<jobVars, astatus, proc, pc, held, req, faults>>

Heartbeat(w) ==
  /\ pc[w] \in Running /\ Live(w)
  /\ timer[w] = HeartbeatEvery
  /\ age'    = [age EXCEPT ![held[w]] = 0]
  /\ timer'  = [timer EXCEPT ![w] = 0]
  /\ misses' = [misses EXCEPT ![w] = 0]
  /\ UNCHANGED <<status, target, scope, scoped, astatus, proc, pc, held, req, faults>>

HeartbeatFails(w) ==
  /\ pc[w] \in Running /\ Live(w)
  /\ timer[w] = HeartbeatEvery
  /\ misses[w] < MaxMisses
  /\ timer'  = [timer EXCEPT ![w] = 0]
  /\ misses' = [misses EXCEPT ![w] = @ + 1]
  /\ UNCHANGED <<jobVars, astatus, proc, pc, held, req, faults>>

\* The heartbeat goroutine is stopped when runJob returns, not when Run does: a
\* beat may still land while the outcome is being written.
LateHeartbeat(w) ==
  /\ pc[w] \in Recording /\ Live(w)
  /\ age' = [age EXCEPT ![held[w]] = 0]
  /\ UNCHANGED <<status, target, scope, scoped, astatus, proc, workerVars, req, faults>>

\* Ages stop being counted once they are past the reclaimer's window.
Older(n) == IF n > StalledAfter THEN n ELSE n + 1

\* No tick passes a due heartbeat attempt or an expired outcome context.
Tick ==
  /\ \A w \in Worker :
       /\ pc[w] \in Running => timer[w] < HeartbeatEvery
       /\ pc[w] \in Holding \ Running => timer[w] < FinishWithin
  /\ age'   = [j \in Job |-> IF status[j] = "running" THEN Older(age[j]) ELSE age[j]]
  /\ timer' = [w \in Worker |-> IF pc[w] \in Holding THEN timer[w] + 1 ELSE timer[w]]
  /\ UNCHANGED <<status, target, scope, scoped, astatus, proc, pc, held, misses, req, faults>>

\* Mutant: the window is the heartbeat interval.
StalledAtOnce(j) == status[j] = "running" /\ age[j] > HeartbeatEvery

Stalled(j) == status[j] = "running" /\ age[j] > StalledAfter

\* Mutant: whatever runs is taken for orphaned.
RequeueRunning ==
  /\ status' = [j \in Job |-> IF status[j] = "running" THEN "queued" ELSE status[j]]
  /\ age'    = [j \in Job |-> IF status[j] = "running" THEN 0 ELSE age[j]]
  /\ UNCHANGED <<target, scope, scoped>>

RequeueStalled ==
  /\ status' = [j \in Job |-> IF Stalled(j) THEN "queued" ELSE status[j]]
  /\ age'    = [j \in Job |-> IF Stalled(j) THEN 0 ELSE age[j]]
  /\ UNCHANGED <<target, scope, scoped>>

\* Mutant: jobs are reclaimed when a process starts and at no other time.
ReclaimNever(w) == FALSE

ReclaimStalled(w) ==
  /\ pc[w] = "idle" /\ Live(w)
  /\ \E j \in Job : Stalled(j)
  /\ RequeueStalled
  /\ UNCHANGED <<astatus, proc, workerVars, req, faults>>

----------------------------------------------------------------------------
(* Process lifecycle.                                                      *)

WorkersOf(s) == {w \in Worker : ServerOf[w] = s}

\* The workers of s are gone, with whatever they held.
Gone(s) ==
  /\ pc'     = [w \in Worker |-> IF ServerOf[w] = s THEN "down" ELSE pc[w]]
  /\ held'   = [w \in Worker |-> IF ServerOf[w] = s THEN NoJob ELSE held[w]]
  /\ UNCHANGED <<timer, misses>>

\* A crash, or a shutdown whose grace period ran out.
Kill(s) ==
  /\ proc[s] # "down"
  /\ faults < MaxFaults
  /\ faults' = faults + 1
  /\ proc' = [proc EXCEPT ![s] = "down"]
  /\ Gone(s)
  /\ UNCHANGED <<jobVars, astatus, req>>

Shutdown(s) ==
  /\ proc[s] = "up"
  /\ faults < MaxFaults
  /\ faults' = faults + 1
  /\ proc' = [proc EXCEPT ![s] = "stopping"]
  /\ UNCHANGED <<jobVars, astatus, workerVars, req>>

\* Every goroutine is back at the top of its loop: the process exits.
Exit(s) ==
  /\ proc[s] = "stopping"
  /\ \A w \in WorkersOf(s) : pc[w] = "idle"
  /\ proc' = [proc EXCEPT ![s] = "down"]
  /\ Gone(s)
  /\ UNCHANGED <<jobVars, astatus, req, faults>>

\* Worker.Start reclaims before it launches the goroutines.
Start(s) ==
  /\ proc[s] = "down"
  /\ proc' = [proc EXCEPT ![s] = "up"]
  /\ RequeueStalled
  /\ pc' = [w \in Worker |-> IF ServerOf[w] = s THEN "idle" ELSE pc[w]]
  /\ UNCHANGED <<astatus, held, timer, misses, req, faults>>

----------------------------------------------------------------------------
\* The goroutine's own steps, in program order.
WorkerStep(w) ==
  \/ \E j \in Job : ClaimNext(w, j)
  \/ MarkReviewing(w) \/ LoadQuestions(w) \/ MarkReviewed(w) \/ Complete(w)
  \/ RunFails(w) \/ RunCancelled(w)
  \/ FinishJob(w) \/ ResetAssessment(w)
  \/ ReclaimStalled(w)

Beat(w) == Heartbeat(w) \/ HeartbeatFails(w)

Enqueue(r) ==
  \/ \E a \in Assessment, sc \in Scope : ReadStatus(r, a, sc)
  \/ CheckActive(r)
  \/ \E j \in Job : Create(r, j)
  \/ SaveQuestionScope(r)
  \/ AbortEnqueue(r)

Fault(w) == FinishLost(w) \/ \E j \in Job : ClaimLost(w, j)

Next ==
  \/ \E r \in Request : Enqueue(r)
  \/ \E w \in Worker : WorkerStep(w) \/ UpdateProgress(w) \/ Beat(w) \/ LateHeartbeat(w) \/ Fault(w)
  \/ \E s \in Server : Kill(s) \/ Shutdown(s) \/ Exit(s) \/ Start(s)
  \/ Tick

Spec == Init /\ [][Next]_vars

(***************************************************************************)
(* Goroutines are scheduled, every wait in Run is bounded by jobTimeout    *)
(* and every wait in Finish by FinishWithin, tickers fire, and a stopped   *)
(* process is started again.  Nothing is assumed of clients, faults or of  *)
(* heartbeats that fail.                                                   *)
(***************************************************************************)
Fairness ==
  /\ \A w \in Worker : WF_vars(WorkerStep(w)) /\ WF_vars(Beat(w))
  /\ \A s \in Server : WF_vars(Exit(s)) /\ WF_vars(Start(s))
  /\ WF_vars(Tick)

FairSpec == Spec /\ Fairness

----------------------------------------------------------------------------
(* Properties.                                                             *)

\* Every variable holds a value the tables and the goroutines can hold; a worker
\* has a job in its hands exactly while it is running it or recording its end.
RowsOK ==
  /\ status \in [Job -> {"absent"} \cup Active \cup Terminal]
  /\ target \in [Job -> Assessment]
  /\ scope  \in [Job -> Scope]
  /\ scoped \subseteq Job
  /\ age    \in [Job -> 0 .. StalledAfter + 1]
  /\ astatus \in [Assessment -> {"mapped", "reviewing", "reviewed"}]

WorkersOK ==
  /\ proc   \in [Server -> {"up", "stopping", "down"}]
  /\ pc     \in [Worker -> {"idle", "down"} \cup Holding]
  /\ held   \in [Worker -> Job \cup {NoJob}]
  /\ timer  \in [Worker -> Nat]
  /\ misses \in [Worker -> 0 .. MaxMisses]
  /\ faults \in 0 .. MaxFaults
  /\ \A w \in Worker : pc[w] \in Holding <=> held[w] \in Job
  /\ \A w \in Worker : pc[w] = "down" <=> proc[ServerOf[w]] = "down"

RequestState == [at : {"none", "open", "clear", "created"}, for : Assessment,
                 scope : Scope, job : Job \cup {NoJob}]
RequestsOK ==
  /\ req \in [Request -> RequestState]
  /\ \A r \in Request : req[r].at = "created" => req[r].job \in Job

TypeOK == RowsOK /\ WorkersOK /\ RequestsOK

\* The reclaimer's window outlasts every silence a live worker can fall into:
\* MaxMisses failed attempts, the wait for the next, and the writing of the
\* outcome after the heartbeats have stopped.
Tolerant == (MaxMisses + 1) * HeartbeatEvery + FinishWithin <= StalledAfter

\* A job is in the hands of at most one worker, across claims, crashes,
\* restarts and reclaims, as long as the window tolerates the heartbeats that
\* fail (ClaimNext, Heartbeat, ReclaimStalled and stalledAfter together).
ExclusiveRun ==
  Tolerant => \A v, w \in Worker, j \in Job : Holds(v, j) /\ Holds(w, j) => v = w

\* The heartbeat a worker leaves in the row is never older than the failed
\* attempts and the running wait account for, and the row of a job somebody
\* holds stays `running' (Heartbeat, UpdateProgress, ClaimNext).
Silence(w) == IF pc[w] \in Running THEN misses[w] * HeartbeatEvery + timer[w]
                                   ELSE (misses[w] + 1) * HeartbeatEvery + timer[w]
LeaseFresh ==
  Tolerant => \A w \in Worker, j \in Job :
                Holds(w, j) => status[j] = "running" /\ age[j] <= Silence(w)

\* No wait of a worker outlasts the ticker or the timeout that ends it.
WaitsBounded ==
  \A w \in Worker : /\ pc[w] \in Running => timer[w] <= HeartbeatEvery
                    /\ pc[w] \in Recording => timer[w] <= FinishWithin

\* What the exclusion of two runs rests on: bounded waits keep the heartbeat of a
\* held job inside the window, so the reclaimer never takes it away.
LeaseInv == Tolerant => WaitsBounded /\ LeaseFresh
\* The queue keeps the promises of JobLedger: only the worker that holds a job
\* settles it, only a job nobody holds is re-queued, a settled job is final.
Lease  == [w \in Worker |-> IF pc[w] \in Running \cup Recording THEN held[w] ELSE NoJob]
Ledger == INSTANCE JobLedger WITH state <- status, lease <- Lease
ImplementsLedger == Ledger!Spec

\* Even when heartbeats fail for longer than the window, a finished job is not
\* put back in the queue: no step takes a terminal row back to queued or running
\* (the status guards of ClaimNext and ReclaimStalled).
NoResurrection == [][\A j \in Job : status[j] \in Terminal => status'[j] \in Terminal]_vars

\* An assessment in `reviewing' has a job that will end the review, or a worker
\* about to put it back (Finish: "instead of being stuck in reviewing forever").
ReviewingHasOwner ==
  \A a \in Assessment : astatus[a] = "reviewing" =>
    \/ HasActive(a)
    \/ \E w \in Worker : pc[w] \in Holding /\ target[held[w]] = a

\* Every queued job is eventually finished, whatever crashes on the way
\* (ReclaimStalled: an orphaned job is re-queued).
JobSettles == \A j \in Job : status[j] = "queued" ~> status[j] \in Terminal

\* Every assessment in review leaves `reviewing' (Run and Finish).
ReviewEnds == \A a \in Assessment : astatus[a] = "reviewing" ~> astatus[a] # "reviewing"
=============================================================================
