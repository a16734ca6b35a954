------------------------------ MODULE Summary ------------------------------
(***************************************************************************)
(* The summary of one assessment: a row of figures aggregated from the     *)
(* tables questions and review_results, written by the review runs and, to *)
(* keep the sign-off counters current, by every request that changes a     *)
(* question.  Nothing locks the tables while a summary is computed: each   *)
(* read and the final upsert are statements, and actions, of their own.    *)
(*                                                                         *)
(* Whether the assessment is open for a request is SignOff's subject: here *)
(* every request is let through.  Nothing keeps two jobs of an assessment  *)
(* from being queued and claimed by two workers, so runs overlap in any    *)
(* way; one job is run by one worker at a time, as ReviewQueue has it when *)
(* no lease lapses under a live worker (ExclusiveRun).                     *)
(***************************************************************************)
EXTENDS ReviewBatches

CONSTANTS
  Sheet,        \* the questions of the assessment, in order
  BatchSize,
  Reply,        \* what the provider may answer for a question
  Request,
  Run,
  None,
  MaxRequests,  \* bound: requests ever made
  MaxUpsets     \* bound: crashes of a run and new mappings, together

Question == {Sheet[i].id : i \in DOMAIN Sheet}

ASSUME SheetAssumption == \A i, j \in DOMAIN Sheet : Sheet[i].id = Sheet[j].id => i = j
ASSUME BoundAssumption == MaxRequests \in Nat /\ MaxUpsets \in Nat
ASSUME NoneAssumption  == None \notin Run
ASSUME ReplyAssumption ==
  Reply \subseteq [score : Int, sure : BOOLEAN, draft : BOOLEAN, flags : Nat, completeness : STRING]

VARIABLES
  row,        \* [Question -> status, and whether it has an AI draft]
  results,    \* [Question -> its review_results rows, the latest created_at first]
  mapping,    \* which mapping the questions come from
  summary,    \* the assessment_summaries row, or NoSummary
  run,        \* the review runs; met: the rows others stored since its last transaction
  req,        \* the requests under way
  made,       \* requests made so far
  crashes,    \* runs cut off so far
  \* What happened, which the program does not store:
  raced,      \* the last summary was computed from tables changed before it was written
  neglected   \* since the last summary a change was not followed by another one

tables == <<row, results, mapping>>
vars   == <<row, results, mapping, summary, run, req, made, crashes, raced, neglected>>

Fresh   == [status |-> "pending", draft |-> FALSE]
NoFigures == [questions |-> 0]
NoSummary == [run |-> None, narrative |-> None, figures |-> NoFigures]
NoRun   == [at |-> "none", todo |-> <<>>, mapping |-> 0, some |-> FALSE, met |-> {},
            qs |-> <<>>, figures |-> NoFigures, overtaken |-> FALSE]
NoReq   == [at |-> "idle", qs |-> <<>>, figures |-> NoFigures, run |-> None,
            narrative |-> None, overtaken |-> FALSE, bypassed |-> FALSE]

\* ListForReview: the rows as Aggregate takes them.
ListForReview ==
  [i \in DOMAIN Sheet |->
     [id |-> Sheet[i].id, domain |-> Sheet[i].domain, blank |-> Sheet[i].blank,
      status |-> row[Sheet[i].id].status]]

\* LatestByAssessment without a run: the newest result of any run.
LatestByAssessment ==
  [q \in Question |-> IF results[q] = <<>> THEN NoResult ELSE Head(results[q])]

\* Mutant: the results of the run alone.
LatestOfRun(j) ==
  [q \in Question |->
     LET own == SelectSeq(results[q], LAMBDA x : x.run = j)
     IN  IF own = <<>> THEN NoResult ELSE Head(own)]

Init ==
  /\ row = [q \in Question |-> Fresh]
  /\ results = [q \in Question |-> <<>>]
  /\ mapping = 1
  /\ summary = NoSummary
  /\ run = [j \in Run |-> NoRun]
  /\ req = [r \in Request |-> NoReq]
  /\ made = 0 /\ crashes = 0 /\ raced = FALSE /\ neglected = FALSE

\* Whoever has read the tables and not yet written has been overtaken.
Reading == {"results", "existing", "summarize", "upsert"}
OvertakenRuns == [j \in Run |->
  IF run[j].at \in Reading THEN [run[j] EXCEPT !.overtaken = TRUE] ELSE run[j]]
OvertakenReqs == [r \in Request |->
  IF req[r].at \in Reading THEN [req[r] EXCEPT !.overtaken = TRUE] ELSE req[r]]

(***************************************************************************)
(* Requests: a change of the questions, then RecomputeSummary              *)
(***************************************************************************)
Finalized(q) == [row[q] EXCEPT !.status = "finalized"]
Unfinalized(q) == [row[q] EXCEPT !.status = IF row[q].draft THEN "ai_drafted" ELSE "pending"]
Revised(q)   == [row[q] EXCEPT !.status = "pending"]

Changed(Q, new) == [q \in Question |-> IF q \in Q THEN new[q] ELSE row[q]]

\* FinalizeQuestion, ReopenQuestion, BulkFinalize, ApplyAnswerRevisions.
Change(r) ==
  /\ req[r].at = "idle" /\ made < MaxRequests
  /\ \/ \E q \in Question : row' = Changed({q}, [x \in {q} |-> Finalized(x)])
     \/ \E q \in Question : row' = Changed({q}, [x \in {q} |-> Unfinalized(x)])
     \/ LET Q == {q \in Question : row[q].draft}
        IN  row' = Changed(Q, [x \in Q |-> Finalized(x)])
     \/ \E q \in Question : row' = Changed({q}, [x \in {q} |-> Revised(x)])
  /\ made' = made + 1
  /\ req' = [OvertakenReqs EXCEPT ![r] = [NoReq EXCEPT !.at = "questions"]]
  /\ run' = OvertakenRuns
  /\ UNCHANGED <<results, mapping, summary, crashes, raced, neglected>>

ReadQuestions(r) ==
  /\ req[r].at = "questions"
  /\ req' = [req EXCEPT ![r].at = "results", ![r].qs = ListForReview]
  /\ UNCHANGED <<tables, summary, run, made, crashes, raced, neglected>>

ReadResults(r) ==
  /\ req[r].at = "results"
  /\ req' = [req EXCEPT ![r].at = "existing", ![r].qs = <<>>,
                        ![r].figures = Aggregate(req[r].qs, LatestByAssessment)]
  /\ UNCHANGED <<tables, summary, run, made, crashes, raced, neglected>>

\* Mutant: the narrative is left to the next run.
ForgetExisting(r) ==
  /\ req[r].at = "existing"
  /\ req' = [req EXCEPT ![r].at = "upsert"]
  /\ UNCHANGED <<tables, summary, run, made, crashes, raced, neglected>>

\* The narrative and the run it came from are carried over; without a row there
\* is neither.
ReadExisting(r) ==
  /\ req[r].at = "existing"
  /\ req' = [req EXCEPT ![r].at = "upsert",
                        ![r].run = summary.run, ![r].narrative = summary.narrative]
  /\ UNCHANGED <<tables, summary, run, made, crashes, raced, neglected>>

\* The upsert overwrites every column, whoever wrote it last.
Upsert(p) ==
  /\ summary' = [run |-> p.run, narrative |-> p.narrative, figures |-> p.figures]
  /\ raced' = p.overtaken
  /\ neglected' = IF p.overtaken THEN neglected ELSE FALSE

\* A request that holds another narrative than the one now written has been bypassed.
Bypassed(narrative) == [r \in Request |->
  IF req[r].at = "upsert" /\ req[r].narrative # narrative
  THEN [req[r] EXCEPT !.bypassed = TRUE] ELSE req[r]]

RecomputeSummary(r) ==
  /\ req[r].at = "upsert"
  /\ Upsert(req[r])
  /\ req' = [Bypassed(req[r].narrative) EXCEPT ![r] = NoReq]
  /\ UNCHANGED <<tables, run, made, crashes>>

\* Any statement may fail: the change stands, a failed recomputation is only logged.
GiveUp(r) ==
  /\ req[r].at # "idle"
  /\ req' = [req EXCEPT ![r] = NoReq]
  /\ neglected' = TRUE
  /\ UNCHANGED <<tables, summary, run, made, crashes, raced>>

Upsets == crashes + mapping - 1

\* ConfirmMapping: the old questions go with their results, the summary stays.
ConfirmMapping ==
  /\ Upsets < MaxUpsets /\ mapping' = mapping + 1
  /\ row' = [q \in Question |-> Fresh]
  /\ results' = [q \in Question |-> <<>>]
  /\ run' = OvertakenRuns /\ req' = OvertakenReqs
  /\ neglected' = TRUE
  /\ UNCHANGED <<summary, made, crashes, raced>>

(***************************************************************************)
(* Runs                                                                    *)
(***************************************************************************)
Over(j) == [NoRun EXCEPT !.at = "done"]

\* The questions in scope, cut into calls.
Load(j) ==
  /\ run[j].at = "none"
  /\ \E scope \in {"all", "unreviewed"} :
       LET qs == SelectSeq(ListForReview, LAMBDA q : scope = "all" \/ q.status = "pending") IN
       run' = [run EXCEPT ![j] = [NoRun EXCEPT !.at = IF qs = <<>> THEN "done" ELSE "review",
                                               !.mapping = mapping,
                                               !.todo = Chunks(qs, BatchSize)]]
  /\ UNCHANGED <<tables, summary, req, made, crashes, raced, neglected>>

\* What is kept of a reply.
Stored(j, x) ==
  NormalizeResult([run |-> j, score |-> x.score, flags |-> x.flags,
                   completeness |-> x.completeness])

OfOthers(q, j) ==
  LET own == {i \in DOMAIN results[q] : results[q][i].run = j}
  IN  IF own = {} THEN results[q] ELSE RemoveAt(results[q], CHOOSE i \in own : TRUE)

\* created_at is the time a transaction began: the row of one that commits late stands
\* behind the rows of runs that began theirs meanwhile.
Places(q, j) ==
  {place \in 1 .. Len(OfOthers(q, j)) + 1 :
     \A i \in 1 .. place - 1 : <<OfOthers(q, j)[i].run, q>> \in run[j].met}

\* Mutant: a run that is repeated inserts its rows again.
InsertAlways(q, new, place) == InsertAt(results[q], place, new)

\* One row per question and run; the newer result of a run replaces the older.
BulkCreate(q, new, place) == InsertAt(OfOthers(q, new.run), place, new)

\* The results of a chunk, each at a place its transaction may have had.
StoreResults(j, got) ==
  \E place \in [DOMAIN got -> UNION {Places(q, j) : q \in DOMAIN got}] :
    /\ \A q \in DOMAIN got : place[q] \in Places(q, j)
    /\ results' = [q \in Question |->
         IF q \in DOMAIN got THEN BulkCreate(q, got[q], place[q]) ELSE results[q]]

\* The runs with results still to store when j stores its results of Q.
MeetRuns(j, Q) == [i \in Run |->
  IF run[i].at = "review" /\ run[i].todo # <<>>
  THEN [run[i] EXCEPT !.met = @ \cup ({j} \X Q)] ELSE OvertakenRuns[i]]

ApplyDraft(q) ==
  [status |-> IF row[q].status = "finalized" THEN "finalized" ELSE "ai_drafted", draft |-> TRUE]

\* reviewChunk and persistChunk.  The replies touch nothing until one transaction
\* stores the results and the drafts that came with them; it fails when the
\* questions are gone.
ReviewChunk(j) ==
  LET chunk   == Head(run[j].todo)
      ids     == {chunk[i].id : i \in DOMAIN chunk}
      Replies == [ids -> Reply \cup {NoReply}]
  IN
  /\ run[j].at = "review" /\ run[j].todo # <<>>
  /\ \E batch, single \in Replies :
       LET said == ReviewChunkReplies(chunk, batch, single)
           kept == {i \in DOMAIN chunk : said[i] # NoReply}
           got  == [q \in {chunk[i].id : i \in kept} |->
                      Stored(j, said[CHOOSE i \in kept : chunk[i].id = q])]
       IN
       \/ /\ kept = {}
          /\ run' = [run EXCEPT ![j].todo = Tail(@), ![j].met = {}]
          /\ UNCHANGED <<row, results, req, neglected>>
       \/ /\ kept # {} /\ mapping = run[j].mapping
          /\ StoreResults(j, got)
          /\ row' = [q \in Question |->
               IF q \in DOMAIN got /\ said[CHOOSE i \in kept : chunk[i].id = q].draft
               THEN ApplyDraft(q) ELSE row[q]]
          /\ run' = [MeetRuns(j, DOMAIN got) EXCEPT
                        ![j] = [run[j] EXCEPT !.todo = Tail(@), !.some = TRUE, !.met = {}]]
          /\ req' = OvertakenReqs
          /\ UNCHANGED neglected
       \/ /\ kept # {} /\ mapping # run[j].mapping
          /\ run' = [run EXCEPT ![j] = Over(j)]
          /\ neglected' = (neglected \/ run[j].some)
          /\ UNCHANGED <<row, results, req>>
  /\ UNCHANGED <<mapping, summary, made, crashes, raced>>

\* Nothing usable came back for any question: the run has failed.
NoResults(j) ==
  /\ run[j].at = "review" /\ run[j].todo = <<>> /\ ~run[j].some
  /\ run' = [run EXCEPT ![j] = Over(j)]
  /\ UNCHANGED <<tables, summary, req, made, crashes, raced, neglected>>

\* The loop is over and something was kept: a summary is due.
RunReadsQuestions(j) ==
  /\ run[j].at = "review" /\ run[j].todo = <<>> /\ run[j].some
  /\ run' = [run EXCEPT ![j].at = "results", ![j].qs = ListForReview, ![j].met = {}]
  /\ UNCHANGED <<tables, summary, req, made, crashes, raced, neglected>>

\* Mutant: the run aggregates its own results.
RunReadsItsResults(j) ==
  /\ run[j].at = "results"
  /\ run' = [run EXCEPT ![j].at = "summarize", ![j].qs = <<>>,
                        ![j].figures = Aggregate(run[j].qs, LatestOfRun(j))]
  /\ UNCHANGED <<tables, summary, req, made, crashes, raced, neglected>>

\* The whole assessment is aggregated, whatever the run's scope.
RunReadsResults(j) ==
  /\ run[j].at = "results"
  /\ run' = [run EXCEPT ![j].at = "summarize", ![j].qs = <<>>,
                        ![j].figures = Aggregate(run[j].qs, LatestByAssessment)]
  /\ UNCHANGED <<tables, summary, req, made, crashes, raced, neglected>>

\* The provider writes the narrative, or fails to: the figures are kept either way.
BuildSummary(j) ==
  /\ run[j].at = "summarize"
  /\ \E narrative \in {j, None} :
       /\ Upsert([run |-> j, narrative |-> narrative, figures |-> run[j].figures,
                  overtaken |-> run[j].overtaken])
       /\ req' = Bypassed(narrative)
  /\ run' = [run EXCEPT ![j] = Over(j)]
  /\ UNCHANGED <<tables, made, crashes>>

\* Cancelled, timed out, out of the database: what was persisted stays, without a summary.
Stop(j) ==
  /\ run[j].at \notin {"none", "done"}
  /\ run' = [run EXCEPT ![j] = Over(j)]
  /\ neglected' = (neglected \/ run[j].some)
  /\ UNCHANGED <<tables, summary, req, made, crashes, raced>>

\* The process is gone: recovery queues the job again, under the same id.
Crash(j) ==
  /\ run[j].at \notin {"none", "done"} /\ Upsets < MaxUpsets
  /\ crashes' = crashes + 1
  /\ run' = [run EXCEPT ![j] = NoRun]
  /\ neglected' = (neglected \/ run[j].some)
  /\ UNCHANGED <<tables, summary, req, made, raced>>

RunStep(j) ==
  \/ Load(j) \/ ReviewChunk(j) \/ NoResults(j) \/ RunReadsQuestions(j)
  \/ RunReadsResults(j) \/ BuildSummary(j) \/ Stop(j) \/ Crash(j)

RequestStep(r) ==
  \/ Change(r) \/ ReadQuestions(r) \/ ReadResults(r) \/ ReadExisting(r)
  \/ RecomputeSummary(r) \/ GiveUp(r)

Next == \/ \E r \in Request : RequestStep(r)
        \/ \E j \in Run : RunStep(j)
        \/ ConfirmMapping

Spec == Init /\ [][Next]_vars

(***************************************************************************)
(* Properties                                                              *)
(***************************************************************************)
Quiet == /\ \A r \in Request : req[r].at = "idle"
         /\ \A j \in Run : run[j].at \in {"none", "done"}

Current == summary.figures = Aggregate(ListForReview, LatestByAssessment)

Untouched == row = [q \in Question |-> Fresh] /\ results = [q \in Question |-> <<>>]

\* Once everything has come to rest, the stored figures are what the tables add up
\* to, over every question and whichever run reviewed it, unless the last writer was
\* overtaken or a change was never followed by a recomputation (buildSummary's
\* comment, service/review/service.go:456-464).
SummaryIsCurrent == Quiet /\ ~raced /\ ~neglected => Current \/ (summary = NoSummary /\ Untouched)

\* A question has at most one result of each run, however runs overlap and are repeated
\* (the unique key of review_results).
OneResultPerRun ==
  \A q \in Question : \A i, k \in DOMAIN results[q] :
    results[q][i].run = results[q][k].run => i = k

\* Recomputing never touches the prose: another narrative is the work of the run that
\* the row then names, or the request had read the row before another was written to it.
NarrativeIsTheRuns ==
  [][summary'.narrative # summary.narrative =>
       \/ \E j \in Run : run[j].at = "summarize" /\ run'[j].at = "done" /\ summary'.run = j
       \/ \E r \in Request : req[r].at = "upsert" /\ req'[r].at = "idle" /\ req[r].bypassed]_vars
=============================================================================
