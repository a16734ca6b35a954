------------------------- MODULE ReviewQueueProofs -------------------------
(***************************************************************************)
(* Proofs about ReviewQueue, for any number of assessments, processes,     *)
(* workers, requests and jobs, and any window and heartbeat interval.      *)
(***************************************************************************)
EXTENDS ReviewQueue, TLAPS

----------------------------------------------------------------------------
(* Typing.                                                                 *)

\* An idle request is a well-formed request.
LEMMA NoRequestType == NoRequest \in RequestState /\ NoRequest.at = "none"
<1>1. SomeAssessment \in Assessment BY ServerAssumption DEF SomeAssessment
<1> QED BY <1>1 DEF NoRequest, RequestState, Scope

\* The initial tables, goroutines and requests are well typed.
LEMMA InitType == Init => TypeOK
<1> SUFFICES ASSUME Init PROVE TypeOK OBVIOUS
<1>1. SomeAssessment \in Assessment BY ServerAssumption DEF SomeAssessment
<1>2. RowsOK BY <1>1, SizeAssumption DEF Init, RowsOK, Scope
<1>3. WorkersOK
  BY SizeAssumption, ServerAssumption DEF Init, WorkersOK, Job, NoJob, Holding, Running, Recording
<1>4. RequestsOK BY NoRequestType DEF Init, RequestsOK
<1> QED BY <1>2, <1>3, <1>4 DEF TypeOK

\* A request that moves to a well-formed state leaves the requests well formed.
LEMMA RequestMoves ==
  ASSUME RequestsOK, NEW r \in Request, NEW e \in RequestState,
         e.at = "created" => e.job \in Job, req' = [req EXCEPT ![r] = e]
  PROVE  RequestsOK'
<1>1. req' \in [Request -> RequestState] BY DEF RequestsOK
<1>2. ASSUME NEW x \in Request PROVE req'[x].at = "created" => req'[x].job \in Job
  <2>1. CASE x = r BY <2>1 DEF RequestsOK
  <2>2. CASE x # r BY <2>2 DEF RequestsOK
  <2> QED BY <2>1, <2>2
<1> QED BY <1>1, <1>2 DEF RequestsOK

\* The requests' steps.
LEMMA EnqueueType == ASSUME TypeOK, NEW r \in Request, Enqueue(r) PROVE TypeOK'
<1>1. ASSUME NEW a \in Assessment, NEW sc \in Scope, ReadStatus(r, a, sc) PROVE TypeOK'
  <2> DEFINE e == [at |-> "open", for |-> a, scope |-> sc, job |-> NoJob]
  <2>1. e \in RequestState /\ e.at # "created" BY DEF RequestState
  <2>2. RequestsOK' BY <1>1, <2>1, RequestMoves DEF TypeOK, ReadStatus
  <2> QED BY <1>1, <2>2 DEF TypeOK, RowsOK, WorkersOK, ReadStatus, jobVars, workerVars
<1>2. ASSUME CheckActive(r) PROVE TypeOK'
  <2> DEFINE e == IF HasActive(req[r].for) THEN NoRequest ELSE [req[r] EXCEPT !.at = "clear"]
  <2>1. req[r] \in RequestState BY DEF TypeOK, RequestsOK
  <2>2. e \in RequestState /\ e.at # "created" BY <2>1, NoRequestType DEF RequestState
  <2>3. req' = [req EXCEPT ![r] = e] BY <1>2 DEF CheckActive
  <2>4. RequestsOK' BY <2>2, <2>3, RequestMoves DEF TypeOK
  <2> QED BY <1>2, <2>4 DEF TypeOK, RowsOK, WorkersOK, CheckActive, jobVars, workerVars
<1>3. ASSUME NEW j \in Job, Create(r, j) PROVE TypeOK'
  <2> DEFINE e == IF req[r].scope = "selected" THEN [req[r] EXCEPT !.at = "created", !.job = j]
                                               ELSE NoRequest
  <2>1. req[r] \in RequestState BY DEF TypeOK, RequestsOK
  <2>2. e \in RequestState /\ (e.at = "created" => e.job \in Job)
    BY <2>1, NoRequestType DEF RequestState
  <2>3. req' = [req EXCEPT ![r] = e] BY <1>3 DEF Create
  <2>4. RequestsOK' BY <2>2, <2>3, RequestMoves DEF TypeOK
  <2>5. req[r].for \in Assessment /\ req[r].scope \in Scope BY <2>1 DEF RequestState
  <2>6. RowsOK' BY <1>3, <2>5 DEF TypeOK, RowsOK, Create, Active
  <2> QED BY <1>3, <2>4, <2>6 DEF TypeOK, WorkersOK, Create, workerVars
<1>4. ASSUME SaveQuestionScope(r) PROVE TypeOK'
  <2>1. RequestsOK' BY <1>4, NoRequestType, RequestMoves DEF TypeOK, SaveQuestionScope
  <2>2. req[r].job \in Job BY <1>4 DEF TypeOK, RequestsOK, SaveQuestionScope
  <2>3. RowsOK' BY <1>4, <2>2 DEF TypeOK, RowsOK, SaveQuestionScope
  <2> QED BY <1>4, <2>1, <2>3 DEF TypeOK, WorkersOK, SaveQuestionScope, workerVars
<1>5. ASSUME AbortEnqueue(r) PROVE TypeOK'
  <2>1. RequestsOK' BY <1>5, NoRequestType, RequestMoves DEF TypeOK, AbortEnqueue
  <2> QED BY <1>5, <2>1 DEF TypeOK, RowsOK, WorkersOK, AbortEnqueue, jobVars, workerVars
<1> QED BY <1>1, <1>2, <1>3, <1>4, <1>5 DEF Enqueue

\* NoJob is the number of no job.
LEMMA NoJobType == NoJob \notin Job
BY DEF NoJob, Job

\* A step that leaves the requests alone.
LEMMA RequestsStay == ASSUME TypeOK, UNCHANGED req PROVE RequestsOK'
BY DEF TypeOK, RequestsOK

\* A worker goes on with its job, from one step of holding it to another.
LEMMA KeepsJob ==
  ASSUME WorkersOK, NEW w \in Worker, NEW p \in Holding, pc[w] \in Holding,
         Goto(w, p), timer' \in [Worker -> Nat], misses' \in [Worker -> 0 .. MaxMisses],
         UNCHANGED <<proc, held, faults>>
  PROVE  WorkersOK'
<1>1. "down" \notin Holding BY DEF Holding, Running, Recording
<1> QED BY <1>1 DEF WorkersOK, Goto

\* A worker lets go of its job and is back at the top of its loop.
LEMMA DropsJob ==
  ASSUME WorkersOK, NEW w \in Worker, pc[w] \in Holding, Goto(w, "idle"), held' = [held EXCEPT ![w] = NoJob],
         faults' \in 0 .. MaxFaults, UNCHANGED <<proc, timer, misses>>
  PROVE  WorkersOK'
<1>1. "idle" \notin Holding /\ "down" \notin Holding BY DEF Holding, Running, Recording
<1> QED BY <1>1, NoJobType DEF WorkersOK, Goto

\* A heartbeat written now keeps the ages in range.
LEMMA AgeType ==
  ASSUME RowsOK, NEW j, age' = [age EXCEPT ![j] = 0] PROVE age' \in [Job -> 0 .. StalledAfter + 1]
<1>1. 0 \in 0 .. StalledAfter + 1 BY SizeAssumption
<1> QED BY <1>1 DEF RowsOK

\* Whoever runs a job, or records its end, has one in its hands.
LEMMA HeldType == ASSUME WorkersOK, NEW w \in Worker, pc[w] \in Holding PROVE held[w] \in Job
BY DEF WorkersOK

\* The goroutines' own steps.
LEMMA WorkerStepType == ASSUME TypeOK, NEW w \in Worker, WorkerStep(w) PROVE TypeOK'
<1>1. WorkersOK /\ RowsOK BY DEF TypeOK
<1>2. SUFFICES RowsOK' /\ WorkersOK'
  BY RequestsStay DEF TypeOK, WorkerStep, ClaimNext, MarkReviewing, LoadQuestions, MarkReviewed,
     Complete, RunFails, RunCancelled, FinishJob, ResetAssessment, ReclaimStalled
<1> USE DEF Holding, Running, Recording
<1>3. ASSUME NEW j \in Job, ClaimNext(w, j) PROVE RowsOK' /\ WorkersOK'
  <2>1. RowsOK' BY <1>1, <1>3, SizeAssumption DEF RowsOK, ClaimNext, Active
  <2>2. WorkersOK' BY <1>1, <1>3, SizeAssumption DEF WorkersOK, ClaimNext, Goto
  <2> QED BY <2>1, <2>2
<1>4. ASSUME MarkReviewing(w) PROVE RowsOK' /\ WorkersOK'
  <2>1. RowsOK' BY <1>1, <1>4 DEF RowsOK, MarkReviewing, jobVars
  <2>2. WorkersOK' BY <1>1, <1>4, KeepsJob DEF WorkersOK, MarkReviewing
  <2> QED BY <2>1, <2>2
<1>5. ASSUME LoadQuestions(w) PROVE RowsOK' /\ WorkersOK'
  <2>1. RowsOK' BY <1>1, <1>5 DEF RowsOK, LoadQuestions, jobVars
  <2>2. timer' \in [Worker -> Nat] BY <1>1, <1>5 DEF WorkersOK, LoadQuestions
  <2>3. WorkersOK' BY <1>1, <1>5, <2>2, KeepsJob DEF WorkersOK, LoadQuestions
  <2> QED BY <2>1, <2>3
<1>6. ASSUME MarkReviewed(w) PROVE RowsOK' /\ WorkersOK'
  <2>1. RowsOK' BY <1>1, <1>6 DEF RowsOK, MarkReviewed, jobVars
  <2>2. WorkersOK' BY <1>1, <1>6, KeepsJob DEF WorkersOK, MarkReviewed
  <2> QED BY <2>1, <2>2
<1>7. ASSUME Complete(w) PROVE RowsOK' /\ WorkersOK'
  <2>1. RowsOK' BY <1>1, <1>7, SizeAssumption DEF RowsOK, Complete
  <2>2. timer' \in [Worker -> Nat] BY <1>1, <1>7 DEF WorkersOK, Complete
  <2>3. WorkersOK' BY <1>1, <1>7, <2>2, KeepsJob DEF WorkersOK, Complete
  <2> QED BY <2>1, <2>3
<1>8. ASSUME RunFails(w) PROVE RowsOK' /\ WorkersOK'
  <2>1. RowsOK' BY <1>1, <1>8 DEF RowsOK, RunFails, jobVars
  <2>2. timer' \in [Worker -> Nat] BY <1>1, <1>8 DEF WorkersOK, RunFails
  <2>3. WorkersOK' BY <1>1, <1>8, <2>2, KeepsJob DEF WorkersOK, RunFails
  <2> QED BY <2>1, <2>3
<1>9. ASSUME RunCancelled(w) PROVE RowsOK' /\ WorkersOK'
  <2>1. RowsOK' BY <1>1, <1>9 DEF RowsOK, RunCancelled, jobVars
  <2>2. timer' \in [Worker -> Nat] BY <1>1, <1>9 DEF WorkersOK, RunCancelled
  <2>3. WorkersOK' BY <1>1, <1>9, <2>2, KeepsJob DEF WorkersOK, RunCancelled
  <2> QED BY <2>1, <2>3
<1>10. ASSUME FinishJob(w) PROVE RowsOK' /\ WorkersOK'
  <2>1. Outcome(w) \in Terminal BY <1>10 DEF FinishJob, Outcome, Terminal
  <2>2. RowsOK'
    <3>1. PICK result \in Terminal : status' = [status EXCEPT ![held[w]] = result]
      BY <1>10, <2>1 DEF FinishJob
    <3>2. age' = [age EXCEPT ![held[w]] = 0] /\ UNCHANGED <<target, scope, scoped, astatus>>
      BY <1>10 DEF FinishJob
    <3>3. age' \in [Job -> 0 .. StalledAfter + 1] BY <1>1, <3>2, AgeType
    <3>4. status' \in [Job -> {"absent"} \cup Active \cup Terminal] BY <1>1, <3>1 DEF RowsOK
    <3> QED BY <1>1, <3>2, <3>3, <3>4 DEF RowsOK
  <2>0. pc[w] \in Holding /\ UNCHANGED <<proc, timer, misses, faults>> BY <1>10 DEF FinishJob
  <2>3. CASE pc[w] = "succeeding"
    <3>1. Goto(w, "idle") /\ held' = [held EXCEPT ![w] = NoJob] BY <1>10, <2>3 DEF FinishJob
    <3>2. faults' \in 0 .. MaxFaults BY <1>1, <2>0 DEF WorkersOK
    <3> QED BY <1>1, <2>0, <2>2, <3>1, <3>2, DropsJob
  <2>4. CASE pc[w] # "succeeding"
    <3>1. Goto(w, "resetting") /\ UNCHANGED held BY <1>10, <2>4 DEF FinishJob
    <3>2. timer' \in [Worker -> Nat] /\ misses' \in [Worker -> 0 .. MaxMisses]
      BY <1>1, <2>0 DEF WorkersOK
    <3> QED BY <1>1, <2>0, <2>2, <3>1, <3>2, KeepsJob
  <2> QED BY <2>2, <2>3, <2>4
<1>11. ASSUME ResetAssessment(w) PROVE RowsOK' /\ WorkersOK'
  <2>1. RowsOK' BY <1>1, <1>11 DEF RowsOK, ResetAssessment, jobVars
  <2>2. WorkersOK' BY <1>1, <1>11, DropsJob DEF WorkersOK, ResetAssessment
  <2> QED BY <2>1, <2>2
<1>12. ASSUME ReclaimStalled(w) PROVE RowsOK' /\ WorkersOK'
  <2>1. RowsOK' BY <1>1, <1>12, SizeAssumption DEF RowsOK, ReclaimStalled, RequeueStalled, Active
  <2>2. WorkersOK' BY <1>1, <1>12 DEF WorkersOK, ReclaimStalled, workerVars
  <2> QED BY <2>1, <2>2
<1> QED BY <1>3, <1>4, <1>5, <1>6, <1>7, <1>8, <1>9, <1>10, <1>11, <1>12 DEF WorkerStep

\* Heartbeats, progress and the loss of a reply.
LEMMA BeatType ==
  ASSUME TypeOK, NEW w \in Worker, UpdateProgress(w) \/ Beat(w) \/ LateHeartbeat(w) \/ Fault(w)
  PROVE  TypeOK'
<1>1. WorkersOK /\ RowsOK BY DEF TypeOK
<1>2. SUFFICES RowsOK' /\ WorkersOK'
  BY RequestsStay DEF TypeOK, UpdateProgress, Beat, Heartbeat, HeartbeatFails, LateHeartbeat,
     Fault, FinishLost, ClaimLost
<1>3. ASSUME UpdateProgress(w) \/ LateHeartbeat(w) PROVE RowsOK' /\ WorkersOK'
  BY <1>1, <1>3, SizeAssumption DEF RowsOK, WorkersOK, UpdateProgress, LateHeartbeat, workerVars
<1>4. ASSUME Heartbeat(w) PROVE RowsOK' /\ WorkersOK'
  <2>1. RowsOK' BY <1>1, <1>4, AgeType DEF RowsOK, Heartbeat
  <2>2. WorkersOK' BY <1>1, <1>4, SizeAssumption DEF WorkersOK, Heartbeat
  <2> QED BY <2>1, <2>2
<1>5. ASSUME HeartbeatFails(w) PROVE RowsOK' /\ WorkersOK'
  BY <1>1, <1>5, SizeAssumption DEF RowsOK, WorkersOK, HeartbeatFails, jobVars
<1>6. ASSUME FinishLost(w) PROVE RowsOK' /\ WorkersOK'
  <2>1. RowsOK' BY <1>1, <1>6 DEF RowsOK, FinishLost, jobVars
  <2>2. faults' \in 0 .. MaxFaults BY <1>1, <1>6, SizeAssumption DEF WorkersOK, FinishLost
  <2>3. pc[w] \in Holding BY <1>6 DEF FinishLost, Holding
  <2>4. WorkersOK' BY <1>1, <1>6, <2>2, <2>3, DropsJob DEF FinishLost
  <2> QED BY <2>1, <2>4
<1>7. ASSUME NEW j \in Job, ClaimLost(w, j) PROVE RowsOK' /\ WorkersOK'
  <2>1. RowsOK' BY <1>1, <1>7, SizeAssumption DEF RowsOK, ClaimLost, Active
  <2>2. WorkersOK' BY <1>1, <1>7, SizeAssumption DEF WorkersOK, ClaimLost, workerVars
  <2> QED BY <2>1, <2>2
<1> QED BY <1>3, <1>4, <1>5, <1>6, <1>7 DEF Beat, Fault

\* The clock: no age leaves the range Older counts in.
LEMMA TickType == ASSUME TypeOK, Tick PROVE TypeOK'
<1>1. \A n \in 0 .. StalledAfter + 1 : Older(n) \in 0 .. StalledAfter + 1
  BY SizeAssumption DEF Older
<1>2. age' \in [Job -> 0 .. StalledAfter + 1] BY <1>1 DEF TypeOK, RowsOK, Tick
<1>3. timer' \in [Worker -> Nat] BY DEF TypeOK, WorkersOK, Tick
<1>4. RequestsOK' BY RequestsStay DEF Tick
<1> QED BY <1>2, <1>3, <1>4 DEF TypeOK, RowsOK, WorkersOK, Tick

\* Crashes, shutdowns and starts.
LEMMA ServerType ==
  ASSUME TypeOK, NEW s \in Server, Kill(s) \/ Shutdown(s) \/ Exit(s) \/ Start(s)
  PROVE  TypeOK'
<1>1. WorkersOK /\ RowsOK BY DEF TypeOK
<1>2. SUFFICES RowsOK' /\ WorkersOK'
  BY RequestsStay DEF TypeOK, Kill, Shutdown, Exit, Start
<1>3. "idle" \notin Holding /\ "down" \notin Holding BY DEF Holding, Running, Recording
<1>4. ASSUME Kill(s) PROVE RowsOK' /\ WorkersOK'
  <2>1. RowsOK' BY <1>1, <1>4 DEF RowsOK, Kill, jobVars
  <2>2. WorkersOK' BY <1>1, <1>3, <1>4, NoJobType, SizeAssumption DEF WorkersOK, Kill, Gone
  <2> QED BY <2>1, <2>2
<1>5. ASSUME Shutdown(s) PROVE RowsOK' /\ WorkersOK'
  <2>1. RowsOK' BY <1>1, <1>5 DEF RowsOK, Shutdown, jobVars
  <2>2. WorkersOK' BY <1>1, <1>5, SizeAssumption DEF WorkersOK, Shutdown, workerVars
  <2> QED BY <2>1, <2>2
<1>6. ASSUME Exit(s) PROVE RowsOK' /\ WorkersOK'
  <2>1. RowsOK' BY <1>1, <1>6 DEF RowsOK, Exit, jobVars
  <2>2. WorkersOK' BY <1>1, <1>3, <1>6, NoJobType DEF WorkersOK, Exit, Gone
  <2> QED BY <2>1, <2>2
<1>7. ASSUME Start(s) PROVE RowsOK' /\ WorkersOK'
  <2>1. RowsOK' BY <1>1, <1>7, SizeAssumption DEF RowsOK, Start, RequeueStalled, Active
  <2>2. WorkersOK' BY <1>1, <1>3, <1>7 DEF WorkersOK, Start
  <2> QED BY <2>1, <2>2
<1> QED BY <1>4, <1>5, <1>6, <1>7

\* Every step keeps every variable well typed.
LEMMA NextType == TypeOK /\ [Next]_vars => TypeOK'
<1> SUFFICES ASSUME TypeOK, [Next]_vars PROVE TypeOK' OBVIOUS
<1>1. CASE UNCHANGED vars
  BY <1>1 DEF vars, jobVars, workerVars, TypeOK, RowsOK, WorkersOK, RequestsOK
<1>2. CASE Next
  BY <1>2, EnqueueType, WorkerStepType, BeatType, ServerType, TickType DEF Next
<1> QED BY <1>1, <1>2

\* In every reachable state the tables and the goroutines hold values of their
\* types, and a worker has a job in its hands exactly while it is running it or
\* recording its end.
THEOREM TypeCorrect == Spec => []TypeOK
BY InitType, NextType, PTL DEF Spec

----------------------------------------------------------------------------
(* A finished job stays finished.                                          *)

\* Whatever the heartbeats do, the only statement that writes the status of a
\* settled job row is Finish, and it writes a terminal status again.
THEOREM FinishedStaysFinished == Spec => NoResurrection
<1> DEFINE Stays == \A j \in Job : status[j] \in Terminal => status'[j] \in Terminal
<1>1. TypeOK /\ [Next]_vars => Stays
  <2> SUFFICES ASSUME TypeOK, [Next]_vars, NEW j \in Job, status[j] \in Terminal
               PROVE  status'[j] \in Terminal
    OBVIOUS
  <2>1. status \in [Job -> {"absent"} \cup Active \cup Terminal] BY DEF TypeOK, RowsOK
  <2>2. status[j] \notin {"absent", "queued", "running"} BY DEF Terminal
  <2>3. ASSUME NEW r \in Request, Enqueue(r) PROVE status'[j] \in Terminal
    BY <2>1, <2>2, <2>3 DEF Enqueue, ReadStatus, CheckActive, Create, SaveQuestionScope,
       AbortEnqueue, jobVars
  <2>4. ASSUME NEW w \in Worker, WorkerStep(w) PROVE status'[j] \in Terminal
    <3>1. ASSUME FinishJob(w) PROVE status'[j] \in Terminal
      <4>1. Outcome(w) \in Terminal BY <3>1 DEF FinishJob, Recording, Outcome, Terminal
      <4>2. PICK result \in Terminal : status' = [status EXCEPT ![held[w]] = result]
        BY <3>1, <4>1 DEF FinishJob
      <4> QED BY <2>1, <4>2
    <3>2. ASSUME NEW i \in Job, ClaimNext(w, i) PROVE status'[j] \in Terminal
      BY <2>1, <2>2, <3>2 DEF ClaimNext, Oldest
    <3>3. ASSUME ReclaimStalled(w) PROVE status'[j] \in Terminal
      BY <2>2, <3>3 DEF ReclaimStalled, RequeueStalled, Stalled
    <3> QED BY <2>4, <3>1, <3>2, <3>3 DEF WorkerStep, MarkReviewing, LoadQuestions, MarkReviewed,
            Complete, RunFails, RunCancelled, ResetAssessment, jobVars
  <2>5. ASSUME NEW w \in Worker, UpdateProgress(w) \/ Beat(w) \/ LateHeartbeat(w) \/ Fault(w)
        PROVE  status'[j] \in Terminal
    BY <2>1, <2>2, <2>5 DEF UpdateProgress, Beat, Heartbeat, HeartbeatFails, LateHeartbeat, Fault,
       FinishLost, ClaimLost, Oldest, jobVars
  <2>6. ASSUME NEW s \in Server, Kill(s) \/ Shutdown(s) \/ Exit(s) \/ Start(s)
        PROVE  status'[j] \in Terminal
    BY <2>2, <2>6 DEF Kill, Shutdown, Exit, Start, RequeueStalled, Stalled, jobVars
  <2>7. ASSUME Tick PROVE status'[j] \in Terminal BY <2>7 DEF Tick
  <2>8. ASSUME UNCHANGED vars PROVE status'[j] \in Terminal BY <2>8 DEF vars, jobVars
  <2> QED BY <2>3, <2>4, <2>5, <2>6, <2>7, <2>8 DEF Next
<1> QED BY <1>1, TypeCorrect, PTL DEF Spec, NoResurrection


----------------------------------------------------------------------------
(* One worker per job.  The argument: a worker's waits are bounded         *)
(* (WaitsBounded), so the heartbeat of the job it holds is inside the      *)
(* window (LeaseFresh), so nobody re-queues the job (HeldNotStalled), so   *)
(* nobody else can claim it (ExclusiveRun).                                *)

IInv == TypeOK /\ LeaseInv /\ ExclusiveRun

\* Multiples of the heartbeat interval.
LEMMA IntervalTimes ==
  /\ \A m \in Nat : m * HeartbeatEvery \in Nat
  /\ \A m \in Nat : (m + 1) * HeartbeatEvery = m * HeartbeatEvery + HeartbeatEvery
BY SizeAssumption

\* More failed heartbeats, a longer silence.
LEMMA IntervalOrder ==
  \A m \in 0 .. MaxMisses : m * HeartbeatEvery <= MaxMisses * HeartbeatEvery
<1> SUFFICES ASSUME NEW m \in 0 .. MaxMisses
             PROVE  m * HeartbeatEvery <= MaxMisses * HeartbeatEvery
  OBVIOUS
<1>1. PICK k \in Nat : MaxMisses = m + k
  <2>1. MaxMisses - m \in Nat /\ MaxMisses = m + (MaxMisses - m) BY SizeAssumption
  <2> QED BY <2>1
<1>2. MaxMisses * HeartbeatEvery = m * HeartbeatEvery + k * HeartbeatEvery BY <1>1, SizeAssumption
<1>3. k * HeartbeatEvery \in Nat BY IntervalTimes
<1>4. m * HeartbeatEvery \in Nat BY IntervalTimes
<1> QED BY <1>2, <1>3, <1>4

\* A worker that holds a job cannot be silent for longer than the window.
LEMMA SilenceBounded ==
  ASSUME TypeOK, WaitsBounded, Tolerant, NEW w \in Worker, pc[w] \in Running \cup Recording
  PROVE  Silence(w) \in Nat /\ Silence(w) <= StalledAfter
<1>1. misses[w] \in 0 .. MaxMisses /\ timer[w] \in Nat /\ MaxMisses \in Nat /\ HeartbeatEvery \in Nat
      /\ FinishWithin \in Nat /\ StalledAfter \in Nat /\ misses[w] \in Nat
  BY SizeAssumption DEF TypeOK, WorkersOK
<1> DEFINE q == misses[w] * HeartbeatEvery
           m == MaxMisses * HeartbeatEvery
<1>2. q \in Nat /\ m \in Nat /\ q <= m BY <1>1, IntervalTimes, IntervalOrder
<1>3. (misses[w] + 1) * HeartbeatEvery = q + HeartbeatEvery BY <1>1, IntervalTimes
<1>4. m + HeartbeatEvery + FinishWithin <= StalledAfter
  <2>1. (MaxMisses + 1) * HeartbeatEvery = m + HeartbeatEvery BY <1>1, IntervalTimes
  <2> QED BY <2>1 DEF Tolerant
<1> HIDE DEF m
<1>5. CASE pc[w] \in Running
  <2>1. Silence(w) = q + timer[w] BY <1>5 DEF Silence
  <2>2. timer[w] <= HeartbeatEvery BY <1>5 DEF WaitsBounded
  <2> HIDE DEF q
  <2> QED BY <1>1, <1>2, <1>4, <2>1, <2>2
<1>6. CASE pc[w] \in Recording
  <2>1. pc[w] \notin Running BY <1>6 DEF Running, Recording
  <2>2. Silence(w) = q + HeartbeatEvery + timer[w] BY <1>3, <2>1 DEF Silence
  <2>3. timer[w] <= FinishWithin BY <1>6 DEF WaitsBounded
  <2> HIDE DEF q
  <2> QED BY <1>1, <1>2, <1>4, <2>2, <2>3
<1> QED BY <1>5, <1>6

\* The reclaimer never takes a job away from a worker that holds it.
LEMMA HeldNotStalled ==
  ASSUME IInv, Tolerant, NEW w \in Worker, NEW j \in Job, Holds(w, j) PROVE ~Stalled(j)
<1>1. age[j] \in Nat /\ StalledAfter \in Nat
  BY SizeAssumption DEF IInv, TypeOK, RowsOK
<1>2. age[j] <= Silence(w) BY DEF IInv, LeaseInv, LeaseFresh
<1>3. Silence(w) \in Nat /\ Silence(w) <= StalledAfter
  BY SilenceBounded DEF IInv, LeaseInv, Holds
<1> QED BY <1>1, <1>2, <1>3 DEF Stalled

\* The workers other than w are where they were.
OthersStay(w) ==
  \A v \in Worker \ {w} : /\ pc'[v] = pc[v] /\ held'[v] = held[v]
                          /\ timer'[v] = timer[v] /\ misses'[v] = misses[v]

\* Nobody but w holds the job.
NoOther(w, j) == \A v \in Worker \ {w} : ~Holds(v, j)

\* A step of one worker keeps the leases when it leaves alone the rows others
\* hold, and what it holds afterwards is fresh and held by nobody else.
LEMMA OneWorkerMoves ==
  ASSUME IInv, Tolerant, NEW w \in Worker, OthersStay(w),
         \A j \in Job : (status'[j] = status[j] /\ age'[j] = age[j]) \/ NoOther(w, j),
         \A j \in Job : Holds(w, j)' =>
            status'[j] = "running" /\ age'[j] <= Silence(w)' /\ NoOther(w, j)
  PROVE  LeaseFresh' /\ ExclusiveRun'
<1>1. ASSUME NEW v \in Worker \ {w}, NEW j \in Job
      PROVE  (Holds(v, j)' <=> Holds(v, j)) /\ Silence(v)' = Silence(v)
  BY <1>1 DEF OthersStay, Holds, Silence
<1>2. ASSUME NEW v \in Worker, NEW j \in Job, Holds(v, j)'
      PROVE  status'[j] = "running" /\ age'[j] <= Silence(v)'
  <2>1. CASE v = w BY <1>2, <2>1
  <2>2. CASE v # w
    <3>1. Holds(v, j) /\ Silence(v)' = Silence(v) BY <1>1, <1>2, <2>2
    <3>2. status'[j] = status[j] /\ age'[j] = age[j] BY <3>1, <2>2 DEF NoOther
    <3>3. status[j] = "running" /\ age[j] <= Silence(v) BY <3>1 DEF IInv, LeaseInv, LeaseFresh
    <3> QED BY <3>1, <3>2, <3>3
  <2> QED BY <2>1, <2>2
<1>3. ASSUME NEW u \in Worker, NEW v \in Worker, NEW j \in Job, Holds(u, j)', Holds(v, j)'
      PROVE  u = v
  <2>1. CASE u = w /\ v # w BY <1>1, <1>3, <2>1 DEF NoOther
  <2>2. CASE v = w /\ u # w BY <1>1, <1>3, <2>2 DEF NoOther
  <2>3. CASE u # w /\ v # w
    <3>1. Holds(u, j) /\ Holds(v, j) BY <1>1, <1>3, <2>3
    <3> QED BY <3>1 DEF IInv, ExclusiveRun
  <2> QED BY <2>1, <2>2, <2>3
<1>4. LeaseFresh' BY <1>2 DEF LeaseFresh
<1>5. ExclusiveRun' BY <1>3 DEF ExclusiveRun
<1> QED BY <1>4, <1>5


\* What the lease argument needs of the types.
LEMMA LeaseTypes ==
  ASSUME IInv
  PROVE  /\ status \in [Job -> {"absent"} \cup Active \cup Terminal]
         /\ age \in [Job -> 0 .. StalledAfter + 1]
         /\ pc \in [Worker -> {"idle", "down"} \cup Holding]
         /\ held \in [Worker -> Job \cup {NoJob}]
         /\ timer \in [Worker -> Nat] /\ misses \in [Worker -> 0 .. MaxMisses]
BY DEF IInv, TypeOK, RowsOK, WorkersOK

\* What IInv says of a worker that holds a job.
LEMMA HolderFacts ==
  ASSUME IInv, Tolerant, NEW w \in Worker, NEW j \in Job, Holds(w, j)
  PROVE  status[j] = "running" /\ age[j] <= Silence(w) /\ age[j] \in Nat /\ NoOther(w, j)
<1>1. age[j] \in Nat BY LeaseTypes, SizeAssumption
<1> QED BY <1>1 DEF IInv, LeaseInv, LeaseFresh, ExclusiveRun, NoOther

\* A step inside the run.
LEMMA StaysRunning ==
  ASSUME IInv, Tolerant, NEW w \in Worker, NEW p \in Running, pc[w] \in Running, Goto(w, p),
         UNCHANGED <<status, age, held, timer, misses>>
  PROVE  WaitsBounded' /\ LeaseFresh' /\ ExclusiveRun'
<1>1. OthersStay(w) BY LeaseTypes DEF OthersStay, Goto
<1>2. pc'[w] \in Running BY LeaseTypes DEF Goto
<1>3. ASSUME NEW j \in Job, Holds(w, j)'
      PROVE  status'[j] = "running" /\ age'[j] <= Silence(w)' /\ NoOther(w, j)
  <2>1. Holds(w, j) BY <1>3 DEF Holds
  <2>2. Silence(w)' = Silence(w) BY <1>2 DEF Silence
  <2> QED BY <2>1, <2>2, HolderFacts
<1>4. WaitsBounded'
  <2>1. pc'[w] \notin Recording BY <1>2 DEF Running, Recording
  <2> QED BY <1>1, <1>2, <2>1 DEF WaitsBounded, OthersStay, IInv, LeaseInv
<1> QED BY <1>1, <1>3, <1>4, OneWorkerMoves

\* The run is over and its outcome is about to be recorded.
LEMMA RunReturns ==
  ASSUME IInv, Tolerant, NEW w \in Worker, NEW p \in Recording, pc[w] \in Running, Goto(w, p),
         timer' = [timer EXCEPT ![w] = 0], UNCHANGED <<status, held, misses>>,
         age' = age \/ age' = [age EXCEPT ![held[w]] = 0]
  PROVE  WaitsBounded' /\ LeaseFresh' /\ ExclusiveRun'
<1>1. OthersStay(w) BY LeaseTypes DEF OthersStay, Goto
<1>2. pc'[w] \in Recording /\ pc'[w] \notin Running /\ timer'[w] = 0
  BY LeaseTypes DEF Goto, Running, Recording
<1>3. \A j \in Job : Holds(w, j)' => Holds(w, j) BY DEF Holds
<1>4. \A j \in Job : (status'[j] = status[j] /\ age'[j] = age[j]) \/ NoOther(w, j)
  <2>1. ASSUME NEW j \in Job, j = held[w] PROVE NoOther(w, j)
    BY <2>1, HolderFacts DEF Holds
  <2> QED BY <2>1, LeaseTypes
<1>5. ASSUME NEW j \in Job, Holds(w, j)'
      PROVE  status'[j] = "running" /\ age'[j] <= Silence(w)' /\ NoOther(w, j)
  <2>1. Holds(w, j) BY <1>3, <1>5
  <2>2. age'[j] = age[j] \/ age'[j] = 0 BY LeaseTypes
  <2> DEFINE q == misses[w] * HeartbeatEvery
  <2>3. misses[w] \in Nat /\ timer[w] \in Nat /\ HeartbeatEvery \in Nat
    BY LeaseTypes, SizeAssumption
  <2>4. q \in Nat /\ (misses[w] + 1) * HeartbeatEvery = q + HeartbeatEvery BY <2>3, IntervalTimes
  <2>5. Silence(w) = q + timer[w] BY DEF Silence
  <2>6. Silence(w)' = q + HeartbeatEvery + 0 BY <1>2, <2>4 DEF Silence
  <2>7. timer[w] <= HeartbeatEvery BY DEF IInv, LeaseInv, WaitsBounded
  <2>8. status[j] = "running" /\ age[j] <= Silence(w) /\ age[j] \in Nat /\ NoOther(w, j)
    BY <2>1, HolderFacts
  <2> HIDE DEF q
  <2>9. age'[j] <= Silence(w)' BY <2>2, <2>3, <2>4, <2>5, <2>6, <2>7, <2>8
  <2> QED BY <2>8, <2>9
<1>6. WaitsBounded' BY <1>1, <1>2, SizeAssumption DEF WaitsBounded, OthersStay, IInv, LeaseInv
<1> QED BY <1>1, <1>4, <1>5, <1>6, OneWorkerMoves

\* The worker lets go of its job; the row it writes is one nobody else holds.
LEMMA LetsGo ==
  ASSUME IInv, Tolerant, NEW w \in Worker, NEW p \in {"idle", "resetting"}, Goto(w, p),
         held' = held \/ held' = [held EXCEPT ![w] = NoJob], UNCHANGED <<timer, misses>>,
         \A j \in Job : (status'[j] = status[j] /\ age'[j] = age[j]) \/ NoOther(w, j)
  PROVE  WaitsBounded' /\ LeaseFresh' /\ ExclusiveRun'
<1>1. OthersStay(w) BY LeaseTypes DEF OthersStay, Goto
<1>2. pc'[w] \notin Running \cup Recording BY LeaseTypes DEF Goto, Running, Recording
<1>3. \A j \in Job : ~Holds(w, j)' BY <1>2 DEF Holds
<1>4. WaitsBounded' BY <1>1, <1>2 DEF WaitsBounded, OthersStay, IInv, LeaseInv
<1> QED BY <1>1, <1>3, <1>4, OneWorkerMoves

\* The worker stays where it is and writes a heartbeat.
LEMMA BeatLands ==
  ASSUME IInv, Tolerant, NEW w \in Worker, pc[w] \in Running \cup Recording,
         age' = [age EXCEPT ![held[w]] = 0], UNCHANGED <<status, pc, held>>,
         OthersStay(w), timer'[w] \in Nat, timer'[w] <= timer[w], misses'[w] \in Nat
  PROVE  WaitsBounded' /\ LeaseFresh' /\ ExclusiveRun'
<1>1. \A j \in Job : Holds(w, j)' <=> Holds(w, j) BY DEF Holds
<1>2. \A j \in Job : (status'[j] = status[j] /\ age'[j] = age[j]) \/ NoOther(w, j)
  <2>1. ASSUME NEW j \in Job, j = held[w] PROVE NoOther(w, j)
    BY <2>1, HolderFacts DEF Holds
  <2> QED BY <2>1, LeaseTypes
<1>3. ASSUME NEW j \in Job, Holds(w, j)'
      PROVE  status'[j] = "running" /\ age'[j] <= Silence(w)' /\ NoOther(w, j)
  <2>1. Holds(w, j) /\ age'[j] = 0 BY <1>1, <1>3, LeaseTypes DEF Holds
  <2> DEFINE q == misses'[w] * HeartbeatEvery
  <2>2. HeartbeatEvery \in Nat BY SizeAssumption
  <2>3. q \in Nat /\ (misses'[w] + 1) * HeartbeatEvery = q + HeartbeatEvery BY IntervalTimes
  <2>4. Silence(w)' = q + timer'[w] \/ Silence(w)' = q + HeartbeatEvery + timer'[w]
    BY <2>3 DEF Silence
  <2> HIDE DEF q
  <2>5. age'[j] <= Silence(w)' BY <2>1, <2>2, <2>3, <2>4
  <2> QED BY <2>1, <2>5, HolderFacts
<1>4. WaitsBounded'
  <2>1. timer[w] \in Nat /\ HeartbeatEvery \in Nat /\ FinishWithin \in Nat
    BY LeaseTypes, SizeAssumption
  <2>2. pc[w] \in Running => timer'[w] <= HeartbeatEvery BY <2>1 DEF WaitsBounded, IInv, LeaseInv
  <2>3. pc[w] \in Recording => timer'[w] <= FinishWithin BY <2>1 DEF WaitsBounded, IInv, LeaseInv
  <2> QED BY <2>2, <2>3 DEF WaitsBounded, OthersStay, IInv, LeaseInv
<1> QED BY <1>2, <1>3, <1>4, OneWorkerMoves

\* The goroutines' own steps keep every lease fresh and exclusive.
LEMMA WorkerStepLease ==
  ASSUME IInv, Tolerant, NEW w \in Worker, WorkerStep(w)
  PROVE  WaitsBounded' /\ LeaseFresh' /\ ExclusiveRun'
<1> USE DEF Running, Recording
<1>1. ASSUME NEW j \in Job, ClaimNext(w, j) PROVE WaitsBounded' /\ LeaseFresh' /\ ExclusiveRun'
  <2>1. NoOther(w, j)
    <3>1. status[j] # "running" BY <1>1 DEF ClaimNext, Oldest
    <3> QED BY <3>1, HolderFacts DEF NoOther
  <2>2. OthersStay(w) BY <1>1, LeaseTypes DEF ClaimNext, OthersStay, Goto
  <2>3. \A i \in Job : (status'[i] = status[i] /\ age'[i] = age[i]) \/ NoOther(w, i)
    BY <1>1, <2>1, LeaseTypes DEF ClaimNext
  <2>4. pc'[w] = "claimed" /\ timer'[w] = 0 /\ misses'[w] = 0
    BY <1>1, LeaseTypes DEF ClaimNext, Goto
  <2>5. ASSUME NEW i \in Job, Holds(w, i)'
        PROVE  status'[i] = "running" /\ age'[i] <= Silence(w)' /\ NoOther(w, i)
    <3>1. i = j BY <1>1, <2>5, LeaseTypes DEF ClaimNext, Holds
    <3>2. status'[j] = "running" /\ age'[j] = 0 BY <1>1, LeaseTypes DEF ClaimNext
    <3>3. Silence(w)' = 0 * HeartbeatEvery + 0 BY <2>4 DEF Silence
    <3>4. Silence(w)' = 0 BY <3>3, SizeAssumption
    <3> QED BY <2>1, <3>1, <3>2, <3>4
  <2>6. WaitsBounded' BY <2>2, <2>4, SizeAssumption DEF WaitsBounded, OthersStay, IInv, LeaseInv
  <2> QED BY <2>2, <2>3, <2>5, <2>6, OneWorkerMoves
<1>2. ASSUME MarkReviewing(w) PROVE WaitsBounded' /\ LeaseFresh' /\ ExclusiveRun'
  BY <1>2, StaysRunning DEF MarkReviewing, jobVars
<1>3. ASSUME LoadQuestions(w) PROVE WaitsBounded' /\ LeaseFresh' /\ ExclusiveRun'
  <2>1. CASE scope[held[w]] = "selected" /\ held[w] \notin scoped
    BY <1>3, <2>1, RunReturns DEF LoadQuestions, jobVars
  <2>2. CASE ~(scope[held[w]] = "selected" /\ held[w] \notin scoped)
    BY <1>3, <2>2, StaysRunning DEF LoadQuestions, jobVars
  <2> QED BY <2>1, <2>2
<1>4. ASSUME MarkReviewed(w) PROVE WaitsBounded' /\ LeaseFresh' /\ ExclusiveRun'
  BY <1>4, StaysRunning DEF MarkReviewed, jobVars
<1>5. ASSUME Complete(w) PROVE WaitsBounded' /\ LeaseFresh' /\ ExclusiveRun'
  BY <1>5, RunReturns DEF Complete
<1>6. ASSUME RunFails(w) PROVE WaitsBounded' /\ LeaseFresh' /\ ExclusiveRun'
  BY <1>6, RunReturns DEF RunFails, jobVars
<1>7. ASSUME RunCancelled(w) PROVE WaitsBounded' /\ LeaseFresh' /\ ExclusiveRun'
  BY <1>7, RunReturns DEF RunCancelled, jobVars
<1>8. ASSUME FinishJob(w) PROVE WaitsBounded' /\ LeaseFresh' /\ ExclusiveRun'
  <2>1. \A j \in Job : (status'[j] = status[j] /\ age'[j] = age[j]) \/ NoOther(w, j)
    <3>1. ASSUME NEW j \in Job, j = held[w] PROVE NoOther(w, j)
      BY <1>8, <3>1, HolderFacts DEF FinishJob, Holds
    <3>2. PICK out : status' = [status EXCEPT ![held[w]] = out] BY <1>8 DEF FinishJob
    <3>3. age' = [age EXCEPT ![held[w]] = 0] BY <1>8 DEF FinishJob
    <3> QED BY <3>1, <3>2, <3>3, LeaseTypes
  <2>2. UNCHANGED <<timer, misses>> BY <1>8 DEF FinishJob
  <2>3. CASE pc[w] = "succeeding"
    <3>1. Goto(w, "idle") /\ held' = [held EXCEPT ![w] = NoJob] BY <1>8, <2>3 DEF FinishJob
    <3> QED BY <2>1, <2>2, <3>1, LetsGo
  <2>4. CASE pc[w] # "succeeding"
    <3>1. Goto(w, "resetting") /\ held' = held BY <1>8, <2>4 DEF FinishJob
    <3> QED BY <2>1, <2>2, <3>1, LetsGo
  <2> QED BY <2>3, <2>4
<1>9. ASSUME ResetAssessment(w) PROVE WaitsBounded' /\ LeaseFresh' /\ ExclusiveRun'
  BY <1>9, LetsGo DEF ResetAssessment, jobVars
<1>10. ASSUME ReclaimStalled(w) PROVE WaitsBounded' /\ LeaseFresh' /\ ExclusiveRun'
  <2>1. \A j \in Job : (status'[j] = status[j] /\ age'[j] = age[j]) \/ Stalled(j)
    BY <1>10, LeaseTypes DEF ReclaimStalled, RequeueStalled
  <2>2. \A j \in Job : Stalled(j) => NoOther(w, j) BY HeldNotStalled DEF NoOther
  <2>3. OthersStay(w) BY <1>10 DEF ReclaimStalled, OthersStay, workerVars
  <2>4. \A j \in Job : ~Holds(w, j)' BY <1>10 DEF ReclaimStalled, workerVars, Holds
  <2>5. WaitsBounded' BY <1>10 DEF ReclaimStalled, workerVars, WaitsBounded, IInv, LeaseInv
  <2> QED BY <2>1, <2>2, <2>3, <2>4, <2>5, OneWorkerMoves
<1> QED BY <1>1, <1>2, <1>3, <1>4, <1>5, <1>6, <1>7, <1>8, <1>9, <1>10 DEF WorkerStep

\* So do heartbeats, progress updates and lost replies.
LEMMA BeatLease ==
  ASSUME IInv, Tolerant, NEW w \in Worker,
         UpdateProgress(w) \/ Beat(w) \/ LateHeartbeat(w) \/ Fault(w)
  PROVE  WaitsBounded' /\ LeaseFresh' /\ ExclusiveRun'
<1> USE DEF Running, Recording
<1>1. misses[w] \in Nat /\ timer[w] \in Nat /\ HeartbeatEvery \in Nat
  BY LeaseTypes, SizeAssumption
<1>2. ASSUME UpdateProgress(w) \/ LateHeartbeat(w)
      PROVE  WaitsBounded' /\ LeaseFresh' /\ ExclusiveRun'
  <2>1. OthersStay(w) BY <1>2 DEF UpdateProgress, LateHeartbeat, OthersStay, workerVars
  <2> QED BY <1>1, <1>2, <2>1, BeatLands DEF UpdateProgress, LateHeartbeat, workerVars
<1>3. ASSUME Heartbeat(w) PROVE WaitsBounded' /\ LeaseFresh' /\ ExclusiveRun'
  <2>1. OthersStay(w) BY <1>3, LeaseTypes DEF Heartbeat, OthersStay
  <2>2. timer'[w] = 0 /\ misses'[w] = 0 BY <1>3, LeaseTypes DEF Heartbeat
  <2>3. timer'[w] \in Nat /\ timer'[w] <= timer[w] /\ misses'[w] \in Nat BY <1>1, <2>2
  <2>4. age' = [age EXCEPT ![held[w]] = 0] /\ UNCHANGED <<status, pc, held>>
        /\ pc[w] \in Running \cup Recording
    BY <1>3 DEF Heartbeat
  <2> QED BY <2>1, <2>3, <2>4, BeatLands
<1>4. ASSUME HeartbeatFails(w) PROVE WaitsBounded' /\ LeaseFresh' /\ ExclusiveRun'
  <2>1. OthersStay(w) BY <1>4, LeaseTypes DEF HeartbeatFails, OthersStay
  <2>2. timer'[w] = 0 /\ misses'[w] = misses[w] + 1 /\ timer[w] = HeartbeatEvery
    BY <1>4, LeaseTypes DEF HeartbeatFails
  <2>3. Silence(w)' = Silence(w)
    <3> DEFINE q == misses[w] * HeartbeatEvery
    <3>1. q \in Nat /\ (misses[w] + 1) * HeartbeatEvery = q + HeartbeatEvery
      BY <1>1, IntervalTimes
    <3>2. pc[w] \in Running /\ pc'[w] \in Running BY <1>4 DEF HeartbeatFails
    <3>3. Silence(w) = q + timer[w] BY <3>2 DEF Silence
    <3>4. Silence(w)' = (misses[w] + 1) * HeartbeatEvery + 0 BY <2>2, <3>2 DEF Silence
    <3> HIDE DEF q
    <3> QED BY <1>1, <2>2, <3>1, <3>3, <3>4
  <2>4. ASSUME NEW j \in Job, Holds(w, j)'
        PROVE  status'[j] = "running" /\ age'[j] <= Silence(w)' /\ NoOther(w, j)
    <3>1. Holds(w, j) BY <1>4, <2>4 DEF HeartbeatFails, Holds
    <3> QED BY <1>4, <2>3, <3>1, HolderFacts DEF HeartbeatFails, jobVars
  <2>5. UNCHANGED <<status, age, pc>> BY <1>4 DEF HeartbeatFails, jobVars
  <2>6. WaitsBounded'
    BY <2>1, <2>2, <2>5, SizeAssumption DEF WaitsBounded, OthersStay, IInv, LeaseInv
  <2> QED BY <2>1, <2>4, <2>5, <2>6, OneWorkerMoves
<1>5. ASSUME FinishLost(w) PROVE WaitsBounded' /\ LeaseFresh' /\ ExclusiveRun'
  BY <1>5, LetsGo DEF FinishLost, jobVars
<1>6. ASSUME NEW j \in Job, ClaimLost(w, j) PROVE WaitsBounded' /\ LeaseFresh' /\ ExclusiveRun'
  <2>1. NoOther(w, j)
    <3>1. status[j] # "running" BY <1>6 DEF ClaimLost, Oldest
    <3> QED BY <3>1, HolderFacts DEF NoOther
  <2>2. \A i \in Job : (status'[i] = status[i] /\ age'[i] = age[i]) \/ NoOther(w, i)
    BY <1>6, <2>1, LeaseTypes DEF ClaimLost
  <2>3. OthersStay(w) BY <1>6 DEF ClaimLost, OthersStay, workerVars
  <2>4. \A i \in Job : ~Holds(w, i)' BY <1>6 DEF ClaimLost, workerVars, Holds
  <2>5. WaitsBounded' BY <1>6 DEF ClaimLost, workerVars, WaitsBounded, IInv, LeaseInv
  <2> QED BY <2>2, <2>3, <2>4, <2>5, OneWorkerMoves
<1> QED BY <1>2, <1>3, <1>4, <1>5, <1>6 DEF Beat, Fault

\* No worker takes a job, and the rows that change are held by nobody.
LEMMA NobodyTakes ==
  ASSUME IInv, Tolerant, UNCHANGED <<timer, misses>>,
         \A v \in Worker : \/ pc'[v] = pc[v] /\ held'[v] = held[v]
                           \/ pc'[v] \notin Running \cup Recording,
         \A j \in Job : \/ status'[j] = status[j] /\ age'[j] = age[j]
                        \/ \A v \in Worker : ~Holds(v, j)
  PROVE  WaitsBounded' /\ LeaseFresh' /\ ExclusiveRun'
<1>1. ASSUME NEW v \in Worker, NEW j \in Job, Holds(v, j)'
      PROVE  Holds(v, j) /\ Silence(v)' = Silence(v)
  BY <1>1 DEF Holds, Silence
<1>2. LeaseFresh'
  <2>1. ASSUME NEW v \in Worker, NEW j \in Job, Holds(v, j)'
        PROVE  status'[j] = "running" /\ age'[j] <= Silence(v)'
    <3>1. Holds(v, j) /\ Silence(v)' = Silence(v) BY <1>1, <2>1
    <3> QED BY <3>1, HolderFacts
  <2> QED BY <2>1 DEF LeaseFresh
<1>3. ExclusiveRun'
  <2>1. ASSUME NEW u \in Worker, NEW v \in Worker, NEW j \in Job, Holds(u, j)', Holds(v, j)'
        PROVE  u = v
    BY <1>1, <2>1 DEF IInv, ExclusiveRun
  <2> QED BY <2>1 DEF ExclusiveRun
<1>4. WaitsBounded' BY DEF WaitsBounded, IInv, LeaseInv
<1> QED BY <1>2, <1>3, <1>4

\* Requests touch no row that is held.
LEMMA EnqueueLease ==
  ASSUME IInv, Tolerant, NEW r \in Request, Enqueue(r)
  PROVE  WaitsBounded' /\ LeaseFresh' /\ ExclusiveRun'
<1>1. UNCHANGED <<pc, held, timer, misses, age>>
  BY DEF Enqueue, ReadStatus, CheckActive, Create, SaveQuestionScope, AbortEnqueue, jobVars,
     workerVars
<1>2. ASSUME NEW j \in Job, NEW v \in Worker, Holds(v, j) PROVE status'[j] = status[j]
  <2>1. status[j] = "running" BY <1>2, HolderFacts
  <2> QED BY <2>1, LeaseTypes DEF Enqueue, ReadStatus, CheckActive, Create, SaveQuestionScope,
         AbortEnqueue, jobVars
<1> QED BY <1>1, <1>2, NobodyTakes

\* Crashes only drop leases; a start requeues what nobody holds.
LEMMA ServerLease ==
  ASSUME IInv, Tolerant, NEW s \in Server, Kill(s) \/ Shutdown(s) \/ Exit(s) \/ Start(s)
  PROVE  WaitsBounded' /\ LeaseFresh' /\ ExclusiveRun'
<1>1. "idle" \notin Running \cup Recording /\ "down" \notin Running \cup Recording
  BY DEF Running, Recording
<1>2. ASSUME Kill(s) \/ Exit(s) PROVE WaitsBounded' /\ LeaseFresh' /\ ExclusiveRun'
  BY <1>1, <1>2, NobodyTakes DEF Kill, Exit, Gone, jobVars
<1>3. ASSUME Shutdown(s) PROVE WaitsBounded' /\ LeaseFresh' /\ ExclusiveRun'
  BY <1>3, NobodyTakes DEF Shutdown, workerVars, jobVars
<1>4. ASSUME Start(s) PROVE WaitsBounded' /\ LeaseFresh' /\ ExclusiveRun'
  <2>1. \A j \in Job : (status'[j] = status[j] /\ age'[j] = age[j]) \/ Stalled(j)
    BY <1>4 DEF Start, RequeueStalled
  <2>2. \A j \in Job : Stalled(j) => \A v \in Worker : ~Holds(v, j) BY HeldNotStalled
  <2> QED BY <1>1, <1>4, <2>1, <2>2, NobodyTakes DEF Start
<1> QED BY <1>2, <1>3, <1>4

\* A tick ages a held row by no more than its worker's own waits.
LEMMA TickLease ==
  ASSUME IInv, Tolerant, Tick PROVE WaitsBounded' /\ LeaseFresh' /\ ExclusiveRun'
<1> USE DEF Running, Recording, Holding
<1>1. UNCHANGED <<status, pc, held, misses>> BY DEF Tick
<1>2. \A w \in Worker, j \in Job : Holds(w, j)' <=> Holds(w, j) BY <1>1 DEF Holds
<1>3. ASSUME NEW w \in Worker, pc[w] \in Running \cup Recording PROVE timer'[w] = timer[w] + 1
  BY <1>3 DEF Tick
<1>4. ASSUME NEW w \in Worker, NEW j \in Job, Holds(w, j)'
      PROVE  status'[j] = "running" /\ age'[j] <= Silence(w)'
  <2>1. Holds(w, j) BY <1>2, <1>4
  <2>2. status[j] = "running" /\ age[j] <= Silence(w) /\ age[j] \in Nat BY <2>1, HolderFacts
  <2>3. age'[j] <= age[j] + 1 BY <2>2, SizeAssumption DEF Tick, Older
  <2>4. age'[j] \in Nat BY <2>2, SizeAssumption DEF Tick, Older
  <2> DEFINE q == misses[w] * HeartbeatEvery
             p == (misses[w] + 1) * HeartbeatEvery
  <2>5. misses[w] \in Nat /\ misses[w] + 1 \in Nat /\ timer[w] \in Nat
    BY LeaseTypes, SizeAssumption
  <2>6. q \in Nat /\ p \in Nat BY <2>5, IntervalTimes
  <2>7. pc[w] \in Running => Silence(w) = q + timer[w] /\ Silence(w)' = q + timer'[w]
    BY <1>1 DEF Silence
  <2>8. pc[w] \notin Running => Silence(w) = p + timer[w] /\ Silence(w)' = p + timer'[w]
    BY <1>1 DEF Silence
  <2>9. timer'[w] = timer[w] + 1 BY <1>3, <2>1 DEF Holds
  <2> HIDE DEF p, q
  <2>10. Silence(w)' = Silence(w) + 1 /\ Silence(w) \in Nat BY <2>5, <2>6, <2>7, <2>8, <2>9
  <2>11. age'[j] <= Silence(w)' BY <2>2, <2>3, <2>4, <2>10
  <2> QED BY <1>1, <2>2, <2>11
<1>5. WaitsBounded'
  <2>1. ASSUME NEW w \in Worker
        PROVE  /\ pc'[w] \in Running => timer'[w] <= HeartbeatEvery
               /\ pc'[w] \in Recording => timer'[w] <= FinishWithin
    <3>1. timer[w] \in Nat /\ HeartbeatEvery \in Nat /\ FinishWithin \in Nat
      BY LeaseTypes, SizeAssumption
    <3>2. CASE pc[w] \in Running
      <4>1. timer[w] < HeartbeatEvery /\ pc[w] \notin Recording BY <3>2 DEF Tick
      <4> QED BY <1>1, <1>3, <3>1, <3>2, <4>1
    <3>3. CASE pc[w] \in Recording
      <4>1. timer[w] < FinishWithin /\ pc[w] \notin Running BY <3>3 DEF Tick
      <4> QED BY <1>1, <1>3, <3>1, <3>3, <4>1
    <3> QED BY <1>1, <3>2, <3>3
  <2> QED BY <2>1 DEF WaitsBounded
<1>6. LeaseFresh' BY <1>4 DEF LeaseFresh
<1>7. ExclusiveRun' BY <1>2 DEF IInv, ExclusiveRun
<1> QED BY <1>5, <1>6, <1>7

\* Nobody holds anything at first.
LEMMA InitLease == Init => IInv
<1> SUFFICES ASSUME Init PROVE IInv OBVIOUS
<1>1. \A w \in Worker : pc[w] \notin Running \cup Recording
  BY DEF Init, Running, Recording
<1> QED BY <1>1, InitType DEF IInv, LeaseInv, LeaseFresh, WaitsBounded, ExclusiveRun, Holds

\* IInv is inductive.
LEMMA NextLease == IInv /\ [Next]_vars => IInv'
<1> SUFFICES ASSUME IInv, [Next]_vars PROVE IInv' OBVIOUS
<1>1. TypeOK' BY NextType DEF IInv
<1>2. ASSUME Tolerant PROVE WaitsBounded' /\ LeaseFresh' /\ ExclusiveRun'
  <2>1. CASE UNCHANGED vars
    BY <1>2, <2>1, NobodyTakes DEF vars, jobVars, workerVars
  <2>2. CASE Next
    BY <1>2, <2>2, EnqueueLease, WorkerStepLease, BeatLease, ServerLease, TickLease DEF Next
  <2> QED BY <2>1, <2>2
<1>3. Tolerant' <=> Tolerant BY DEF Tolerant
<1>4. LeaseInv' /\ ExclusiveRun'
  BY <1>2, <1>3 DEF LeaseInv, LeaseFresh, ExclusiveRun
<1> QED BY <1>1, <1>4 DEF IInv

\* No job is ever in the hands of two workers, however many processes share the
\* table and whatever crashes: it is enough that the window outlasts the
\* heartbeats that may fail in a row and the recording of the outcome.
THEOREM OneWorkerPerJob == Spec => []ExclusiveRun
<1>1. IInv => ExclusiveRun BY DEF IInv
<1> QED BY <1>1, InitLease, NextLease, PTL DEF Spec

\* The heartbeat of a job somebody holds is as fresh as that worker's waits allow.
THEOREM HeldJobsAreFresh == Spec => []LeaseInv
<1>1. IInv => LeaseInv BY DEF IInv
<1> QED BY <1>1, InitLease, NextLease, PTL DEF Spec

----------------------------------------------------------------------------
(* The queue implements JobLedger.                                         *)

\* The job a worker has a lease on, and none otherwise.
LEMMA LeaseIs ==
  ASSUME NEW w \in Worker
  PROVE  Lease[w] = IF pc[w] \in Running \cup Recording THEN held[w] ELSE NoJob
BY DEF Lease

\* A step that changes neither the rows' statuses nor who may settle a job.
LEMMA LeaseStays ==
  ASSUME \A w \in Worker : \/ pc'[w] = pc[w] /\ held'[w] = held[w]
                           \/ /\ pc[w] \in Running \cup Recording
                              /\ pc'[w] \in Running \cup Recording
                              /\ held'[w] = held[w]
                           \/ /\ pc[w] \notin Running \cup Recording
                              /\ pc'[w] \notin Running \cup Recording
  PROVE  Lease' = Lease
BY DEF Lease

\* A worker that moves on inside its run keeps its lease.
LEMMA MovesInRun ==
  ASSUME IInv, NEW w \in Worker, NEW p \in Running \cup Recording, pc[w] \in Running \cup Recording,
         Goto(w, p), UNCHANGED held
  PROVE  Lease' = Lease
<1>1. \A v \in Worker : v # w => pc'[v] = pc[v] BY LeaseTypes DEF Goto
<1>2. pc'[w] = p BY LeaseTypes DEF Goto
<1> QED BY <1>1, <1>2, LeaseStays

\* Jobs go back to the queue when nobody has them.
LEMMA StalledGivenBack ==
  ASSUME IInv, Tolerant, RequeueStalled, Lease' = Lease PROVE Ledger!Next
<1> DEFINE B == {j \in Job : Stalled(j)}
<1>1. ASSUME NEW j \in B PROVE status[j] = "running" /\ ~Ledger!Leased(j)
  <2>1. \A w \in Worker : ~Holds(w, j) BY HeldNotStalled
  <2>2. j # NoJob BY NoJobType
  <2>3. \A w \in Worker : Lease[w] # j BY <2>1, <2>2, LeaseIs DEF Holds
  <2> QED BY <2>3 DEF Stalled, Ledger!Leased
<1>2. status' = [j \in Job |-> IF j \in B THEN "queued" ELSE status[j]] BY DEF RequeueStalled
<1>3. Ledger!GiveBack(B) BY <1>1, <1>2 DEF Ledger!GiveBack, Ledger!Job, Job
<1>4. B \in SUBSET Ledger!Job BY DEF Ledger!Job, Job
<1> QED BY <1>3, <1>4 DEF Ledger!Next

LedgerVars == <<status, Lease>>

\* A request submits a job, or the ledger does not see it.
LEMMA EnqueueLedger ==
  ASSUME IInv, Tolerant, NEW r \in Request, Enqueue(r) PROVE Ledger!Next \/ UNCHANGED LedgerVars
<1> USE DEF LedgerVars
<1>1. Lease' = Lease
  <2>1. UNCHANGED <<pc, held>>
    BY DEF Enqueue, ReadStatus, CheckActive, Create, SaveQuestionScope, AbortEnqueue, workerVars
  <2> QED BY <2>1, LeaseStays
<1>2. ASSUME NEW j \in Job, Create(r, j) PROVE Ledger!Next
  <2>1. Ledger!Submit(j) BY <1>1, <1>2 DEF Create, Ledger!Submit, Ledger!Job, Job
  <2> QED BY <2>1 DEF Ledger!Next, Ledger!Job, Job
<1>3. ASSUME ~\E j \in Job : Create(r, j) PROVE UNCHANGED status
  BY <1>3 DEF Enqueue, ReadStatus, CheckActive, SaveQuestionScope, AbortEnqueue, jobVars
<1> QED BY <1>1, <1>2, <1>3

\* A goroutine takes, settles, or requeues what nobody holds.
LEMMA WorkerStepLedger ==
  ASSUME IInv, Tolerant, NEW w \in Worker, WorkerStep(w)
  PROVE  Ledger!Next \/ UNCHANGED LedgerVars
<1> USE DEF LedgerVars
<1>1. ASSUME NEW j \in Job, ClaimNext(w, j) PROVE Ledger!Next
  <2>1. Lease[w] = NoJob BY <1>1, LeaseIs DEF ClaimNext, Running, Recording
  <2>2. pc'[w] \in Running /\ held'[w] = j /\ \A v \in Worker : v # w => pc'[v] = pc[v] /\ held'[v] = held[v]
    BY <1>1, LeaseTypes DEF ClaimNext, Goto, Running
  <2>3. Lease' = [Lease EXCEPT ![w] = j] BY <2>2 DEF Lease
  <2>4. Ledger!Take(w, j)
    BY <1>1, <2>1, <2>3 DEF Ledger!Take, Ledger!Oldest, Ledger!Job, Job, ClaimNext, Oldest
  <2> QED BY <2>4 DEF Ledger!Next, Ledger!Job, Job
<1>2. ASSUME MarkReviewing(w) \/ LoadQuestions(w) \/ MarkReviewed(w) \/ Complete(w)
             \/ RunFails(w) \/ RunCancelled(w)
      PROVE  UNCHANGED LedgerVars
  <2>1. UNCHANGED <<status, held>>
    BY <1>2 DEF MarkReviewing, LoadQuestions, MarkReviewed, Complete, RunFails, RunCancelled, jobVars
  <2>2. pc[w] \in Running
    BY <1>2 DEF MarkReviewing, LoadQuestions, MarkReviewed, Complete, RunFails, RunCancelled, Running
  <2>3. \E p \in Running \cup Recording : Goto(w, p)
    BY <1>2 DEF MarkReviewing, LoadQuestions, MarkReviewed, Complete, RunFails, RunCancelled,
       Running, Recording
  <2> QED BY <2>1, <2>2, <2>3, MovesInRun
<1>3. ASSUME FinishJob(w) PROVE Ledger!Next
  <2>1. pc[w] \in Recording BY <1>3 DEF FinishJob
  <2>2. held[w] \in Job BY <2>1, HeldType DEF Holding, IInv, TypeOK
  <2>3. Lease[w] = held[w] BY <2>1, LeaseIs
  <2>4. status[held[w]] = "running" BY <2>1, <2>2, HolderFacts DEF Holds
  <2>5. Outcome(w) \in Terminal BY <2>1 DEF Recording, Outcome, Terminal
  <2>6. PICK result \in Terminal : status' = [status EXCEPT ![held[w]] = result]
    BY <1>3, <2>5 DEF FinishJob
  <2>7. /\ pc'[w] \notin Running \cup Recording
        /\ \A v \in Worker : v # w => pc'[v] = pc[v] /\ held'[v] = held[v]
    BY <1>3, LeaseTypes DEF FinishJob, Goto, Running, Recording
  <2>8. Lease' = [Lease EXCEPT ![w] = NoJob] BY <2>7 DEF Lease
  <2>9. Ledger!Settle(w, result) BY <2>2, <2>3, <2>4, <2>6, <2>8, NoJobType DEF Ledger!Settle
  <2> QED BY <2>9 DEF Ledger!Next, Ledger!Terminal, Terminal
<1>4. ASSUME ResetAssessment(w) PROVE UNCHANGED LedgerVars
  <2>1. \A v \in Worker : (pc'[v] = pc[v] /\ held'[v] = held[v]) \/ v = w
    BY <1>4, LeaseTypes DEF ResetAssessment, Goto
  <2>2. pc[w] \notin Running \cup Recording /\ pc'[w] \notin Running \cup Recording
    BY <1>4, LeaseTypes DEF ResetAssessment, Goto, Running, Recording
  <2>3. Lease' = Lease BY <2>1, <2>2, LeaseStays
  <2> QED BY <1>4, <2>3 DEF ResetAssessment, jobVars
<1>5. ASSUME ReclaimStalled(w) PROVE Ledger!Next
  <2>1. Lease' = Lease BY <1>5, LeaseStays DEF ReclaimStalled, workerVars
  <2> QED BY <1>5, <2>1, StalledGivenBack DEF ReclaimStalled
<1> QED BY <1>1, <1>2, <1>3, <1>4, <1>5 DEF WorkerStep

\* Workers that lose their jobs, all at once.
LEMMA JobsAbandoned ==
  ASSUME NEW W \in SUBSET Worker, UNCHANGED status,
         \A w \in Worker : IF w \in W THEN pc'[w] \notin Running \cup Recording
                                      ELSE pc'[w] = pc[w] /\ held'[w] = held[w]
  PROVE  Ledger!Next
<1>1. Lease' = [w \in Worker |-> IF w \in W THEN NoJob ELSE Lease[w]] BY DEF Lease
<1>2. Ledger!Abandon(W) BY <1>1 DEF Ledger!Abandon
<1> QED BY <1>2 DEF Ledger!Next

\* Heartbeats are invisible; a lost reply abandons, or vanishes with, a job.
LEMMA BeatLedger ==
  ASSUME IInv, Tolerant, NEW w \in Worker,
         UpdateProgress(w) \/ Beat(w) \/ LateHeartbeat(w) \/ Fault(w)
  PROVE  Ledger!Next \/ UNCHANGED LedgerVars
<1> USE DEF LedgerVars
<1>1. ASSUME UpdateProgress(w) \/ Beat(w) \/ LateHeartbeat(w) PROVE UNCHANGED LedgerVars
  <2>1. UNCHANGED <<status, pc, held>>
    BY <1>1 DEF UpdateProgress, Beat, Heartbeat, HeartbeatFails, LateHeartbeat, workerVars, jobVars
  <2> QED BY <2>1, LeaseStays
<1>2. ASSUME FinishLost(w) PROVE Ledger!Next
  <2>1. \A v \in Worker : IF v \in {w} THEN pc'[v] \notin Running \cup Recording
                                       ELSE pc'[v] = pc[v] /\ held'[v] = held[v]
    BY <1>2, LeaseTypes DEF FinishLost, Goto, Running, Recording
  <2> QED BY <1>2, <2>1, JobsAbandoned DEF FinishLost, jobVars
<1>3. ASSUME NEW j \in Job, ClaimLost(w, j) PROVE Ledger!Next
  <2>1. Lease' = Lease BY <1>3, LeaseStays DEF ClaimLost, workerVars
  <2>2. Ledger!TakeAndVanish(j)
    BY <1>3, <2>1 DEF Ledger!TakeAndVanish, Ledger!Oldest, Ledger!Job, Job, ClaimLost, Oldest
  <2> QED BY <2>2 DEF Ledger!Next, Ledger!Job, Job
<1> QED BY <1>1, <1>2, <1>3 DEF Fault

\* A process that dies abandons the jobs of its workers.
LEMMA ServerLedger ==
  ASSUME IInv, Tolerant, NEW s \in Server, Kill(s) \/ Shutdown(s) \/ Exit(s) \/ Start(s)
  PROVE  Ledger!Next \/ UNCHANGED LedgerVars
<1> USE DEF LedgerVars
<1>1. ASSUME Kill(s) \/ Exit(s) PROVE Ledger!Next
  <2>1. \A v \in Worker : IF v \in WorkersOf(s) THEN pc'[v] \notin Running \cup Recording
                                               ELSE pc'[v] = pc[v] /\ held'[v] = held[v]
    BY <1>1 DEF Kill, Exit, Gone, WorkersOf, Running, Recording
  <2>2. WorkersOf(s) \in SUBSET Worker BY DEF WorkersOf
  <2> QED BY <1>1, <2>1, <2>2, JobsAbandoned DEF Kill, Exit, jobVars
<1>2. ASSUME Shutdown(s) PROVE UNCHANGED LedgerVars
  BY <1>2, LeaseStays DEF Shutdown, workerVars, jobVars
<1>3. ASSUME Start(s) PROVE Ledger!Next
  <2>1. ASSUME NEW v \in Worker, ServerOf[v] = s
        PROVE  pc[v] \notin Running \cup Recording /\ pc'[v] \notin Running \cup Recording
    BY <1>3, <2>1 DEF Start, IInv, TypeOK, WorkersOK, Running, Recording
  <2>2. \A v \in Worker : ServerOf[v] # s => pc'[v] = pc[v] /\ held'[v] = held[v]
    BY <1>3 DEF Start
  <2>3. Lease' = Lease BY <2>1, <2>2, LeaseStays
  <2> QED BY <1>3, <2>3, StalledGivenBack DEF Start
<1> QED BY <1>1, <1>2, <1>3

\* Every behaviour of the queue is one of the ledger: a job is settled only by
\* the worker that holds it, goes back to the queue only when nobody holds it, is
\* handed out oldest first, and is never touched once settled.
THEOREM QueueImplementsLedger == ASSUME Tolerant PROVE Spec => ImplementsLedger
<1>1. Init => Ledger!Init
  <2> SUFFICES ASSUME Init PROVE Ledger!Init OBVIOUS
  <2>1. Lease = [w \in Worker |-> NoJob] BY DEF Init, Lease, Running, Recording
  <2> QED BY <2>1 DEF Init, Ledger!Init, Ledger!Job, Job
<1>2. IInv /\ [Next]_vars => [Ledger!Next]_(Ledger!vars)
  <2> SUFFICES ASSUME IInv, [Next]_vars PROVE Ledger!Next \/ UNCHANGED LedgerVars
    BY DEF LedgerVars, Ledger!vars
  <2>1. CASE UNCHANGED vars
    BY <2>1, LeaseStays DEF vars, jobVars, workerVars, LedgerVars
  <2>2. CASE Tick
    BY <2>2, LeaseStays DEF Tick, LedgerVars
  <2>3. CASE Next /\ ~Tick
    BY <2>3, EnqueueLedger, WorkerStepLedger, BeatLedger, ServerLedger DEF Next
  <2> QED BY <2>1, <2>2, <2>3
<1> QED BY <1>1, <1>2, InitLease, NextLease, PTL DEF Spec, ImplementsLedger, Ledger!Spec

----------------------------------------------------------------------------
(* An assessment in review has an owner: a job that has not come to its    *)
(* `reviewed', or a worker that is putting the assessment back.            *)

\* No fault hits Finish between its two statements.
ResetsLand ==
  [][\A w \in Worker : pc[w] = "resetting" /\ pc'[w] # "resetting"
       => astatus'[target[held[w]]] # "reviewing"]_vars

\* The job is queued or running, and its run has not got past MarkReviewed.
Unended(j) == /\ status[j] \in Active
              /\ \A w \in Worker : pc[w] \in {"reviewed", "succeeding"} => held[w] # j

Owned ==
  \A a \in Assessment : astatus[a] = "reviewing" =>
    \/ \E j \in Job : target[j] = a /\ Unended(j)
    \/ \E w \in Worker : pc[w] = "resetting" /\ target[held[w]] = a

HeldExist == \A w \in Worker : pc[w] \in Holding => status[held[w]] # "absent"

OInv == Owned /\ HeldExist

LEMMA InitOwned == Init => OInv
BY DEF Init, OInv, Owned, HeldExist, Holding, Running, Recording

\* Owners stay owners, or their assessment leaves the review.
LEMMA OwnersStay ==
  ASSUME Owned, \A a \in Assessment : astatus'[a] = "reviewing" => astatus[a] = "reviewing",
         \A j \in Job : Unended(j) =>
           \/ target'[j] = target[j] /\ Unended(j)'
           \/ astatus'[target[j]] # "reviewing"
           \/ \E w \in Worker : pc'[w] = "resetting" /\ target'[held'[w]] = target[j],
         \A w \in Worker : pc[w] = "resetting" =>
           \/ pc'[w] = "resetting" /\ target'[held'[w]] = target[held[w]]
           \/ astatus'[target[held[w]]] # "reviewing"
  PROVE  Owned'
<1> SUFFICES ASSUME NEW a \in Assessment, astatus'[a] = "reviewing"
             PROVE  \/ \E j \in Job : target'[j] = a /\ Unended(j)'
                    \/ \E w \in Worker : pc'[w] = "resetting" /\ target'[held'[w]] = a
  BY DEF Owned
<1>1. \/ \E j \in Job : target[j] = a /\ Unended(j)
      \/ \E w \in Worker : pc[w] = "resetting" /\ target[held[w]] = a
  BY DEF Owned
<1>2. CASE \E j \in Job : target[j] = a /\ Unended(j)
  <2>1. PICK j \in Job : target[j] = a /\ Unended(j) BY <1>2
  <2> QED BY <2>1
<1>3. CASE \E w \in Worker : pc[w] = "resetting" /\ target[held[w]] = a
  <2>1. PICK w \in Worker : pc[w] = "resetting" /\ target[held[w]] = a BY <1>3
  <2> QED BY <2>1
<1> QED BY <1>1, <1>2, <1>3

\* A step that leaves the statuses alone keeps every owner.
LEMMA NobodyDisowned ==
  ASSUME Owned, UNCHANGED <<target, astatus>>,
         \A j \in Job : Unended(j) => status'[j] \in Active,
         \A w \in Worker :
           /\ pc'[w] \in {"reviewed", "succeeding"} =>
                pc[w] \in {"reviewed", "succeeding"} /\ held'[w] = held[w]
           /\ pc[w] = "resetting" => pc'[w] = "resetting" /\ held'[w] = held[w]
  PROVE  Owned'
<1>1. \A j \in Job : Unended(j) => Unended(j)' BY DEF Unended
<1> QED BY <1>1, OwnersStay

LEMMA EnqueueOwned == ASSUME IInv, OInv, NEW r \in Request, Enqueue(r) PROVE OInv'
<1> USE DEF OInv
<1>1. UNCHANGED <<astatus, pc, held>> BY DEF Enqueue, ReadStatus, CheckActive, Create,
      SaveQuestionScope, AbortEnqueue, workerVars
<1>2. CASE UNCHANGED <<status, target>>
  BY <1>1, <1>2, NobodyDisowned DEF HeldExist, Unended
<1>3. ASSUME NEW j \in Job, Create(r, j) PROVE OInv'
  <2>1. /\ status[j] = "absent" /\ status' = [status EXCEPT ![j] = "queued"]
        /\ target' = [target EXCEPT ![j] = req[r].for]
    BY <1>3 DEF Create
  <2>2. /\ \A i \in Job : i # j => status'[i] = status[i] /\ target'[i] = target[i]
        /\ status'[j] = "queued"
    BY <2>1 DEF IInv, TypeOK, RowsOK
  <2>3. \A i \in Job : Unended(i) => target'[i] = target[i] /\ Unended(i)'
    BY <1>1, <2>1, <2>2 DEF Unended, Active
  <2>4. \A w \in Worker : pc[w] = "resetting" => target'[held'[w]] = target[held[w]]
    <3>1. "resetting" \in Holding BY DEF Holding
    <3> QED BY <1>1, <2>1, <2>2, <3>1 DEF HeldExist, IInv, TypeOK, WorkersOK
  <2>5. Owned' BY <1>1, <2>3, <2>4, OwnersStay
  <2>6. HeldExist' BY <1>1, <2>1, <2>2 DEF HeldExist, IInv, TypeOK, WorkersOK
  <2> QED BY <2>5, <2>6
<1> QED BY <1>2, <1>3 DEF Enqueue, ReadStatus, CheckActive, SaveQuestionScope, AbortEnqueue, jobVars

\* Re-queueing what has stalled ends no job.
LEMMA RequeueOwned ==
  ASSUME RequeueStalled, IInv
  PROVE  /\ UNCHANGED target
         /\ \A j \in Job : /\ status[j] \in Active => status'[j] \in Active
                           /\ status[j] # "absent" => status'[j] # "absent"
BY DEF RequeueStalled, Active, Stalled

LEMMA WorkerStepOwned == ASSUME IInv, OInv, Tolerant, NEW w \in Worker, WorkerStep(w) PROVE OInv'
<1> USE DEF OInv, Holding, Running, Recording
<1>1. /\ pc \in [Worker -> {"idle", "down"} \cup Holding] /\ held \in [Worker -> Job \cup {NoJob}]
      /\ status \in [Job -> {"absent"} \cup Active \cup Terminal]
      /\ target \in [Job -> Assessment]
      /\ astatus \in [Assessment -> {"mapped", "reviewing", "reviewed"}]
  BY LeaseTypes DEF IInv, TypeOK, RowsOK
<1>2. pc[w] \in Holding => held[w] \in Job BY HeldType DEF IInv, TypeOK
<1>3. \A j \in Job : Holds(w, j) => status[j] = "running" /\ NoOther(w, j)
  BY HolderFacts
<1>4. ASSUME NEW j \in Job, ClaimNext(w, j) PROVE OInv'
  <2>1. /\ pc[w] = "idle" /\ status[j] = "queued" /\ status' = [status EXCEPT ![j] = "running"]
        /\ held' = [held EXCEPT ![w] = j] /\ pc' = [pc EXCEPT ![w] = "claimed"]
        /\ UNCHANGED <<target, astatus>>
    BY <1>4 DEF ClaimNext, Oldest, Goto
  <2>2. Owned' BY <1>1, <2>1, NobodyDisowned DEF Unended, Active
  <2>3. HeldExist' BY <1>1, <2>1 DEF HeldExist
  <2> QED BY <2>2, <2>3
<1>5. ASSUME MarkReviewing(w) PROVE OInv'
  <2>1. /\ pc[w] = "claimed" /\ astatus' = [astatus EXCEPT ![target[held[w]]] = "reviewing"]
        /\ pc' = [pc EXCEPT ![w] = "loading"] /\ UNCHANGED <<status, target, held>>
    BY <1>5 DEF MarkReviewing, Goto, jobVars
  <2>2. PICK j \in Job : j = held[w] BY <1>2, <2>1
  <2>3. status[j] = "running" /\ NoOther(w, j) BY <1>3, <2>1, <2>2 DEF Holds
  <2>4. Unended(j)' BY <1>1, <2>1, <2>2, <2>3 DEF Unended, Active, NoOther, Holds
  <2>5. \A i \in Job : Unended(i) => Unended(i)' BY <1>1, <2>1 DEF Unended
  <2>6. \A v \in Worker : pc[v] = "resetting" => pc'[v] = "resetting" BY <1>1, <2>1
  <2>7. Owned' BY <1>1, <2>1, <2>2, <2>4, <2>5, <2>6 DEF Owned
  <2>8. HeldExist' BY <1>1, <2>1 DEF HeldExist
  <2> QED BY <2>7, <2>8
<1>6. ASSUME LoadQuestions(w) \/ RunFails(w) \/ RunCancelled(w) PROVE OInv'
  <2>1. PICK p \in {"failing", "reviewing", "cancelling"} :
          /\ pc[w] \in Running \ {"reviewed"} /\ pc' = [pc EXCEPT ![w] = p]
          /\ UNCHANGED <<status, target, astatus, held>>
    BY <1>6 DEF LoadQuestions, RunFails, RunCancelled, Goto, jobVars
  <2>2. Owned' BY <1>1, <2>1, NobodyDisowned DEF Unended
  <2>3. HeldExist' BY <1>1, <2>1 DEF HeldExist
  <2> QED BY <2>2, <2>3
<1>7. ASSUME MarkReviewed(w) PROVE OInv'
  <2>1. /\ pc[w] = "reviewing" /\ astatus' = [astatus EXCEPT ![target[held[w]]] = "reviewed"]
        /\ pc' = [pc EXCEPT ![w] = "reviewed"] /\ UNCHANGED <<status, target, held>>
    BY <1>7 DEF MarkReviewed, Goto, jobVars
  <2>2. \A j \in Job : j # held[w] /\ Unended(j) => Unended(j)' BY <1>1, <2>1 DEF Unended
  <2>3. astatus'[target[held[w]]] # "reviewing" BY <1>1, <1>2, <2>1
  <2>4. \A a \in Assessment : astatus'[a] = "reviewing" => astatus[a] = "reviewing"
    BY <1>1, <2>1
  <2>5. \A v \in Worker : pc[v] = "resetting" => pc'[v] = "resetting" BY <1>1, <2>1
  <2>6. Owned' BY <2>1, <2>2, <2>3, <2>4, <2>5, OwnersStay
  <2>7. HeldExist' BY <1>1, <2>1 DEF HeldExist
  <2> QED BY <2>6, <2>7
<1>8. ASSUME Complete(w) PROVE OInv'
  <2>1. /\ pc[w] = "reviewed" /\ pc' = [pc EXCEPT ![w] = "succeeding"]
        /\ UNCHANGED <<status, target, astatus, held>>
    BY <1>8 DEF Complete, Goto
  <2>2. Owned' BY <1>1, <2>1, NobodyDisowned DEF Unended
  <2>3. HeldExist' BY <1>1, <2>1 DEF HeldExist
  <2> QED BY <2>2, <2>3
<1>9. ASSUME FinishJob(w) PROVE OInv'
  <2>1. PICK j \in Job : j = held[w] BY <1>2, <1>9 DEF FinishJob
  <2>2. PICK o \in Terminal : status' = [status EXCEPT ![j] = o]
    BY <1>9, <2>1 DEF FinishJob, Outcome, Terminal
  <2>3. /\ pc[w] \in Recording /\ UNCHANGED <<target, astatus>>
        /\ \A i \in Job : i # j => status'[i] = status[i]
        /\ \A v \in Worker : v # w => pc'[v] = pc[v] /\ held'[v] = held[v]
    BY <1>1, <1>9, <2>2 DEF FinishJob, Goto
  <2>4. CASE pc[w] = "succeeding"
    <3>1. pc'[w] = "idle" BY <1>1, <1>9, <2>4 DEF FinishJob, Goto
    <3>2. ~Unended(j) BY <2>1, <2>4 DEF Unended
    <3>3. Owned' BY <2>3, <2>4, <3>1, <3>2, NobodyDisowned DEF Unended
    <3> QED BY <1>1, <2>1, <2>2, <2>3, <3>1, <3>3 DEF HeldExist, Terminal, IInv, TypeOK, WorkersOK
  <2>5. CASE pc[w] # "succeeding"
    <3>1. pc'[w] = "resetting" /\ held'[w] = j BY <1>1, <1>9, <2>1, <2>5 DEF FinishJob, Goto
    <3>2. \A i \in Job : i # j /\ Unended(i) => Unended(i)' BY <2>3, <3>1 DEF Unended
    <3>3. \A v \in Worker : pc[v] = "resetting" => pc'[v] = "resetting" /\ held'[v] = held[v]
      BY <2>3
    <3>4. Owned' BY <2>1, <2>3, <3>1, <3>2, <3>3, OwnersStay
    <3> QED BY <1>1, <2>1, <2>2, <2>3, <3>1, <3>4 DEF HeldExist, Terminal, IInv, TypeOK, WorkersOK
  <2> QED BY <2>4, <2>5
<1>10. ASSUME ResetAssessment(w) PROVE OInv'
  <2>1. /\ pc[w] = "resetting" /\ astatus' = [astatus EXCEPT ![target[held[w]]] = "mapped"]
        /\ pc' = [pc EXCEPT ![w] = "idle"] /\ held' = [held EXCEPT ![w] = NoJob]
        /\ UNCHANGED <<status, target>>
    BY <1>10 DEF ResetAssessment, Goto, jobVars
  <2>2. astatus'[target[held[w]]] # "reviewing" BY <1>1, <1>2, <2>1
  <2>3. \A a \in Assessment : astatus'[a] = "reviewing" => astatus[a] = "reviewing"
    BY <1>1, <2>1
  <2>4. \A v \in Worker : v # w => pc'[v] = pc[v] /\ held'[v] = held[v] BY <1>1, <2>1
  <2>5. pc'[w] = "idle" BY <1>1, <2>1
  <2>6. \A j \in Job : Unended(j) => Unended(j)' BY <2>1, <2>4, <2>5 DEF Unended
  <2>7. Owned' BY <2>1, <2>2, <2>3, <2>4, <2>6, OwnersStay
  <2>8. HeldExist' BY <2>1, <2>4, <2>5 DEF HeldExist
  <2> QED BY <2>7, <2>8
<1>11. ASSUME ReclaimStalled(w) PROVE OInv'
  <2>1. RequeueStalled /\ UNCHANGED <<astatus, pc, held>> BY <1>11 DEF ReclaimStalled, workerVars
  <2>2. Owned' BY <2>1, RequeueOwned, NobodyDisowned DEF Unended
  <2>3. HeldExist' BY <1>1, <2>1, RequeueOwned DEF HeldExist, IInv, TypeOK, WorkersOK
  <2> QED BY <2>2, <2>3
<1> QED BY <1>4, <1>5, <1>6, <1>7, <1>8, <1>9, <1>10, <1>11 DEF WorkerStep

LEMMA BeatOwned ==
  ASSUME IInv, OInv, Tolerant, NEW w \in Worker,
         UpdateProgress(w) \/ Beat(w) \/ LateHeartbeat(w) \/ Fault(w),
         pc[w] = "resetting" /\ pc'[w] # "resetting" => astatus'[target[held[w]]] # "reviewing"
  PROVE  OInv'
<1> USE DEF OInv, Holding, Running, Recording
<1>1. /\ pc \in [Worker -> {"idle", "down"} \cup Holding] /\ held \in [Worker -> Job \cup {NoJob}]
      /\ status \in [Job -> {"absent"} \cup Active \cup Terminal]
  BY LeaseTypes
<1>2. CASE UNCHANGED <<status, target, astatus, pc, held>>
  BY <1>2, NobodyDisowned DEF Unended, HeldExist
<1>3. ASSUME FinishLost(w) PROVE OInv'
  <2>1. /\ pc' = [pc EXCEPT ![w] = "idle"] /\ held' = [held EXCEPT ![w] = NoJob]
        /\ UNCHANGED <<status, target, astatus>>
    BY <1>3 DEF FinishLost, Goto, jobVars
  <2>2. /\ pc'[w] = "idle"
        /\ \A v \in Worker : v # w => pc'[v] = pc[v] /\ held'[v] = held[v]
    BY <1>1, <2>1
  <2>3. \A j \in Job : Unended(j) => Unended(j)' BY <2>1, <2>2 DEF Unended
  <2>4. Owned' BY <2>1, <2>2, <2>3, OwnersStay
  <2> QED BY <2>1, <2>2, <2>4 DEF HeldExist
<1>4. ASSUME NEW j \in Job, ClaimLost(w, j) PROVE OInv'
  <2>1. /\ status[j] = "queued" /\ status' = [status EXCEPT ![j] = "running"]
        /\ UNCHANGED <<target, astatus, pc, held>>
    BY <1>4 DEF ClaimLost, Oldest, workerVars
  <2>2. Owned' BY <1>1, <2>1, NobodyDisowned DEF Unended, Active
  <2> QED BY <1>1, <2>1, <2>2 DEF HeldExist
<1> QED BY <1>2, <1>3, <1>4 DEF UpdateProgress, Beat, Heartbeat, HeartbeatFails, LateHeartbeat,
        Fault, jobVars, workerVars

LEMMA ServerOwned ==
  ASSUME IInv, OInv, Tolerant, NEW s \in Server, Kill(s) \/ Shutdown(s) \/ Exit(s) \/ Start(s),
         \A w \in Worker : pc[w] = "resetting" /\ pc'[w] # "resetting"
           => astatus'[target[held[w]]] # "reviewing"
  PROVE  OInv'
<1> USE DEF OInv, Holding, Running, Recording
<1>1. ASSUME Kill(s) \/ Exit(s) PROVE OInv'
  <2>1. /\ \A w \in Worker : \/ pc'[w] = pc[w] /\ held'[w] = held[w]
                             \/ pc'[w] = "down"
        /\ UNCHANGED <<status, target, astatus>>
    BY <1>1 DEF Kill, Exit, Gone, jobVars
  <2>2. \A j \in Job : Unended(j) => Unended(j)' BY <2>1 DEF Unended
  <2>3. \A w \in Worker : pc[w] = "resetting" =>
          \/ pc'[w] = "resetting" /\ target'[held'[w]] = target[held[w]]
          \/ astatus'[target[held[w]]] # "reviewing"
    BY <2>1
  <2>4. Owned' BY <2>1, <2>2, <2>3, OwnersStay
  <2> QED BY <2>1, <2>4 DEF HeldExist
<1>2. ASSUME Shutdown(s) PROVE OInv'
  <2>1. UNCHANGED <<status, target, astatus, pc, held>> BY <1>2 DEF Shutdown, jobVars, workerVars
  <2> QED BY <2>1, NobodyDisowned DEF Unended, HeldExist
<1>3. ASSUME Start(s) PROVE OInv'
  <2>1. RequeueStalled /\ UNCHANGED <<astatus, held>> BY <1>3 DEF Start
  <2>2. \A w \in Worker : pc'[w] = pc[w] \/ (pc[w] = "down" /\ pc'[w] = "idle")
    BY <1>3 DEF Start, IInv, TypeOK, WorkersOK
  <2>3. Owned' BY <2>1, <2>2, RequeueOwned, NobodyDisowned DEF Unended
  <2>4. \A w \in Worker : pc[w] \in Holding => held[w] \in Job
    BY DEF IInv, TypeOK, WorkersOK
  <2> QED BY <2>1, <2>2, <2>3, <2>4, RequeueOwned DEF HeldExist
<1> QED BY <1>1, <1>2, <1>3

\* As long as the window tolerates the heartbeats that fail, and no crash or lost
\* reply comes between the two statements of Finish, an assessment is never left in
\* review: crashes anywhere else leave a row behind that the reclaimer picks up.
THEOREM ReviewIsOwned == ASSUME Tolerant PROVE Spec /\ ResetsLand => []ReviewingHasOwner
<1> DEFINE Lands == \A w \in Worker : pc[w] = "resetting" /\ pc'[w] # "resetting"
                      => astatus'[target[held[w]]] # "reviewing"
<1>1. IInv /\ OInv /\ [Next]_vars /\ [Lands]_vars => OInv'
  <2> SUFFICES ASSUME IInv, OInv, [Next]_vars, [Lands]_vars PROVE OInv' OBVIOUS
  <2>1. CASE UNCHANGED vars
    BY <2>1, NobodyDisowned DEF vars, jobVars, workerVars, OInv, Unended, HeldExist
  <2>2. CASE Tick
    <3>1. UNCHANGED <<status, target, astatus, pc, held>> BY <2>2 DEF Tick
    <3> QED BY <3>1, NobodyDisowned DEF OInv, Unended, HeldExist
  <2>3. CASE Next /\ ~UNCHANGED vars /\ ~Tick
    BY <2>3, EnqueueOwned, WorkerStepOwned, BeatOwned, ServerOwned DEF Next
  <2> QED BY <2>1, <2>2, <2>3
<1>2. IInv /\ OInv => ReviewingHasOwner
  <2> SUFFICES ASSUME IInv, OInv, NEW a \in Assessment, astatus[a] = "reviewing"
               PROVE  \/ HasActive(a)
                      \/ \E w \in Worker : pc[w] \in Holding /\ target[held[w]] = a
    BY DEF ReviewingHasOwner
  <2> QED BY DEF OInv, Owned, Unended, HasActive, Holding
<1> QED BY <1>1, <1>2, InitLease, NextLease, InitOwned, PTL DEF Spec, ResetsLand
=============================================================================
