------------------------------ MODULE SignOff ------------------------------
(***************************************************************************)
(* One assessment from mapping to closing: its status, its question rows,  *)
(* the HTTP handlers that change them and the review runs that write AI    *)
(* drafts underneath.                                                      *)
(*                                                                         *)
(* A handler checks a status it has read and writes later: each statement, *)
(* or each transaction, is one action, and what was read stays in the      *)
(* request's record.  Postgres runs at READ COMMITTED and no row is locked *)
(* between the check and the write.                                        *)
(*                                                                         *)
(* A draft is abstracted to the answer it speaks about (the value the AI   *)
(* was shown), or Blank.  A signed text is a draft, or the reviewer's own  *)
(* words.                                                                  *)
(***************************************************************************)
EXTENDS Integers, FiniteSets

CONSTANTS
  Slots,        \* questions per mapping: 1 .. Slots
  Answer,       \* the answers a vendor may give
  FirstAnswer,  \* the answer the questionnaire arrives with
  Request,      \* concurrent HTTP requests
  Ops,          \* the handlers they call
  Run,          \* review jobs that may be created
  BatchSize,    \* questions per provider call
  MaxMappings   \* bound: how often the mapping is confirmed

Blank == "blank"
Own   == "own words"

ASSUME SlotsAssumption    == Slots \in Nat /\ MaxMappings \in Nat /\ BatchSize \in Nat \ {0}
ASSUME AnswerAssumption   == FirstAnswer \in Answer /\ {Blank, Own} \cap Answer = {}
ASSUME OpsAssumption      == Ops \subseteq {"finalize", "reopen", "bulk", "close", "unclose",
                                            "revise", "confirm", "enqueue"}

Question == 1 .. Slots
Texts    == Answer \cup {Blank}
Signable == Answer \cup {Own}

VARIABLES
  astatus,   \* assessments.status
  everRun,   \* assessments.current_run_id is set
  upload,    \* the original file is stored
  mapping,   \* how often the mapping was confirmed; its questions are the rows
  row,       \* [Question -> answer, draft, final, status]
  run,       \* [Run -> a review job and the run executing it]
  req        \* [Request -> a handler in progress]

vars == <<astatus, everRun, upload, mapping, row, run, req>>

NewRow  == [answer |-> FirstAnswer, draft |-> Blank, final |-> Blank, status |-> "pending"]
Silent  == [q \in Question |-> Blank]
NoRun   == [at |-> "none", scope |-> "all", mapping |-> 0, todo |-> {}, seen |-> Silent, some |-> FALSE]
NoReq   == [op |-> "none", at |-> "idle", mapping |-> 0, qs |-> {}, say |-> Silent,
            closed |-> FALSE, ran |-> FALSE]

Init ==
  /\ astatus = "uploaded" /\ everRun = FALSE /\ upload = TRUE /\ mapping = 0
  /\ row = [q \in Question |-> NewRow]
  /\ run = [j \in Run |-> NoRun]
  /\ req = [r \in Request |-> NoReq]

\* Before the first mapping, and after a re-mapping for an id of the one
\* before, no row is found.
Exists(m) == mapping # 0 /\ m = mapping

Signed(q)   == row[q].status = "finalized"
Existing    == IF mapping = 0 THEN {} ELSE Question
Unsigned    == {q \in Existing : ~Signed(q)}
Drafted     == {q \in Unsigned : row[q].draft # Blank}

----------------------------------------------------------------------------
(* The statements the handlers and the run share.                          *)

\* Statements on one question row, as functions from the old row to the new.
\* Finalize refuses a blank text; both its callers have refused it before.
\* (ReopensSigned, SignsIntoDraft, UnfinalizeMisnamed, DropsSignature: mutants.)
ReopensSigned(q, text)  == [row[q] EXCEPT !.draft = text, !.status = "ai_drafted"]
SignsIntoDraft(q, text) == [row[q] EXCEPT !.draft = text, !.final = text, !.status = "finalized"]
UnfinalizeMisnamed(q)   == [row[q] EXCEPT !.status = "reopened"]
DropsSignature(q, ans)  == [row[q] EXCEPT !.answer = ans, !.final = Blank, !.status = "pending"]

ApplyDraft(q, text)  == [row[q] EXCEPT !.draft = text,
                                       !.status = IF @ = "finalized" THEN @ ELSE "ai_drafted"]
Finalize(q, text)    == [row[q] EXCEPT !.final = text, !.status = "finalized"]
Unfinalize(q)        == [row[q] EXCEPT !.status = IF row[q].draft = Blank THEN "pending"
                                                                          ELSE "ai_drafted"]
ReviseAnswer(q, ans) == [row[q] EXCEPT !.answer = ans, !.status = "pending"]

Finish(r)      == req' = [req EXCEPT ![r] = NoReq]
Step(r, p)     == req' = [req EXCEPT ![r].at = p]
Begin(r, op)   == req[r].op = "none" /\ op \in Ops
At(r, op, p)   == req[r].op = op /\ req[r].at = p

\* Where a closed assessment goes when it is opened again.
OpenTarget(hasRun) == IF hasRun THEN "reviewed" ELSE "mapped"

----------------------------------------------------------------------------
(* FinalizeQuestion, ReopenQuestion and BulkFinalize.                      *)

\* GetByID and assessmentIsOpen.  What is to be signed is whatever the editor
\* held: the draft as the row shows it, or the reviewer's words.
CheckOpen(r, op, q, text) ==
  /\ Begin(r, op)
  /\ \/ op = "finalize" /\ text \in {row[q].draft, Own} \ {Blank}
     \/ op = "reopen" /\ text = Blank
  /\ q \in Existing
  /\ astatus # "closed"
  /\ req' = [req EXCEPT ![r] = [NoReq EXCEPT !.op = op, !.at = "write", !.mapping = mapping,
                                             !.qs = {q}, !.say[q] = text]]
  /\ UNCHANGED <<astatus, everRun, upload, mapping, row, run>>

\* The rows as a statement (or transaction) of request r leaves them: every
\* question it names is changed, or none when their mapping is gone.
Rows(r, new) ==
  [q \in Question |-> IF Exists(req[r].mapping) /\ q \in req[r].qs THEN new[q] ELSE row[q]]

FinalizeQuestion(r) ==
  /\ At(r, "finalize", "write")
  /\ row' = Rows(r, [q \in Question |-> Finalize(q, req[r].say[q])])
  /\ Finish(r)
  /\ UNCHANGED <<astatus, everRun, upload, mapping, run>>

ReopenQuestion(r) ==
  /\ At(r, "reopen", "write")
  /\ row' = Rows(r, [q \in Question |-> Unfinalize(q)])
  /\ Finish(r)
  /\ UNCHANGED <<astatus, everRun, upload, mapping, run>>

BulkCheckOpen(r) ==
  /\ Begin(r, "bulk") /\ astatus # "closed"
  /\ req' = [req EXCEPT ![r] = [NoReq EXCEPT !.op = "bulk", !.at = "list"]]
  /\ UNCHANGED <<astatus, everRun, upload, mapping, row, run>>

\* List: the statuses and drafts the sign-off will go by.
BulkList(r) ==
  /\ At(r, "bulk", "list")
  /\ req' = [req EXCEPT ![r].at = "write", ![r].mapping = mapping,
                        ![r].qs = Drafted,
                        ![r].say = [q \in Question |-> IF q \in Drafted THEN row[q].draft ELSE Blank]]
  /\ UNCHANGED <<astatus, everRun, upload, mapping, row, run>>

\* One transaction: every listed draft is signed as it was listed, or none.
BulkFinalize(r) ==
  /\ At(r, "bulk", "write")
  /\ row' = Rows(r, [q \in Question |-> Finalize(q, req[r].say[q])])
  /\ Finish(r)
  /\ UNCHANGED <<astatus, everRun, upload, mapping, run>>

----------------------------------------------------------------------------
(* CloseAssessment and ReopenAssessment.                                   *)

CloseCheck(r) ==
  /\ Begin(r, "close") /\ astatus \notin {"closed", "reviewing"}
  /\ req' = [req EXCEPT ![r] = [NoReq EXCEPT !.op = "close", !.at = "count"]]
  /\ UNCHANGED <<astatus, everRun, upload, mapping, row, run>>

\* Mutant: a draft counts as a signature.
CountPending(r) ==
  /\ At(r, "close", "count")
  /\ IF \A q \in Existing : row[q].status # "pending" THEN Step(r, "discard") ELSE Finish(r)
  /\ UNCHANGED <<astatus, everRun, upload, mapping, row, run>>

CountUnfinalized(r) ==
  /\ At(r, "close", "count")
  /\ IF Unsigned = {} THEN Step(r, "discard") ELSE Finish(r)
  /\ UNCHANGED <<astatus, everRun, upload, mapping, row, run>>

\* A failure to discard is logged, and the assessment is closed all the same.
DiscardUpload(r) ==
  /\ At(r, "close", "discard")
  /\ upload' \in {FALSE, upload}
  /\ Step(r, "write")
  /\ UNCHANGED <<astatus, everRun, mapping, row, run>>

CloseAssessment(r) ==
  /\ At(r, "close", "write")
  /\ astatus' = "closed"
  /\ Finish(r)
  /\ UNCHANGED <<everRun, upload, mapping, row, run>>

UncloseCheck(r) ==
  /\ Begin(r, "unclose") /\ astatus = "closed"
  /\ req' = [req EXCEPT ![r] = [NoReq EXCEPT !.op = "unclose", !.at = "write", !.ran = everRun]]
  /\ UNCHANGED <<astatus, everRun, upload, mapping, row, run>>

ReopenAssessment(r) ==
  /\ At(r, "unclose", "write")
  /\ astatus' = OpenTarget(req[r].ran)
  /\ Finish(r)
  /\ UNCHANGED <<everRun, upload, mapping, row, run>>

----------------------------------------------------------------------------
(* ApplyAnswerRevisions.                                                   *)

ReviseCheck(r) ==
  /\ Begin(r, "revise") /\ astatus # "reviewing"
  /\ req' = [req EXCEPT ![r] = [NoReq EXCEPT !.op = "revise", !.at = "list",
                                             !.closed = (astatus = "closed"), !.ran = everRun]]
  /\ UNCHANGED <<astatus, everRun, upload, mapping, row, run>>

\* ListByIDs: of the revisions sent for Q, those that change the answer.
ReviseList(r, Q, v) ==
  /\ At(r, "revise", "list")
  /\ Q # {} /\ Q \subseteq Existing
  /\ LET changed == {q \in Q : row[q].answer # v}
     IN  req' = [req EXCEPT ![r].at = "write", ![r].mapping = mapping, ![r].qs = changed,
                            ![r].say = [q \in Question |-> IF q \in changed THEN v ELSE Blank]]
  /\ UNCHANGED <<astatus, everRun, upload, mapping, row, run>>

\* One transaction: the answers, and a closed assessment is opened again.
ApplyAnswerRevisions(r) ==
  /\ At(r, "revise", "write")
  /\ row' = Rows(r, [q \in Question |-> ReviseAnswer(q, req[r].say[q])])
  /\ astatus' = IF Exists(req[r].mapping) /\ req[r].qs # {} /\ req[r].closed
                  THEN OpenTarget(req[r].ran) ELSE astatus
  /\ Finish(r)
  /\ UNCHANGED <<everRun, upload, mapping, run>>

----------------------------------------------------------------------------
(* ConfirmMapping.                                                         *)

ConfirmCheck(r) ==
  /\ Begin(r, "confirm") /\ astatus # "reviewing"
  /\ req' = [req EXCEPT ![r] = [NoReq EXCEPT !.op = "confirm", !.at = "upload"]]
  /\ UNCHANGED <<astatus, everRun, upload, mapping, row, run>>

GetUpload(r) ==
  /\ At(r, "confirm", "upload")
  /\ IF upload THEN Step(r, "write") ELSE Finish(r)
  /\ UNCHANGED <<astatus, everRun, upload, mapping, row, run>>

\* One transaction: the old questions go, with their results and drafts.
ConfirmMapping(r) ==
  /\ At(r, "confirm", "write")
  /\ mapping < MaxMappings
  /\ mapping' = mapping + 1
  /\ row'     = [q \in Question |-> NewRow]
  /\ astatus' = "mapped"
  /\ Finish(r)
  /\ UNCHANGED <<everRun, upload, run>>

----------------------------------------------------------------------------
(* Enqueue, in the statements ReviewQueue has too.                         *)

Active == {"queued", "claimed", "pointing", "loading", "reviewing", "succeeding", "failing"}
HasActive == \E j \in Run : run[j].at \in Active

EnqueueCheck(r) ==
  /\ Begin(r, "enqueue") /\ astatus \in {"mapped", "reviewed"}
  /\ req' = [req EXCEPT ![r] = [NoReq EXCEPT !.op = "enqueue", !.at = "active"]]
  /\ UNCHANGED <<astatus, everRun, upload, mapping, row, run>>

EnqueueActive(r) ==
  /\ At(r, "enqueue", "active")
  /\ IF HasActive THEN Finish(r) ELSE Step(r, "write")
  /\ UNCHANGED <<astatus, everRun, upload, mapping, row, run>>

InScope(sc) == IF sc = "unreviewed" THEN {q \in Existing : row[q].status = "pending"} ELSE Existing

\* Counting the scope and creating the job.
CreateJob(r, j, sc) ==
  /\ At(r, "enqueue", "write")
  /\ run[j].at = "none"
  /\ InScope(sc) # {}
  /\ run' = [run EXCEPT ![j] = [NoRun EXCEPT !.at = "queued", !.scope = sc]]
  /\ Finish(r)
  /\ UNCHANGED <<astatus, everRun, upload, mapping, row>>

\* Any handler may stop after a failed statement or a lost client.
Abort(r) ==
  /\ req[r].op # "none"
  /\ Finish(r)
  /\ UNCHANGED <<astatus, everRun, upload, mapping, row, run>>

----------------------------------------------------------------------------
(* The review run: Service.Run and Service.Finish.                         *)

RunStep(j, from, to) == run[j].at = from /\ run' = [run EXCEPT ![j].at = to]

Claim(j) ==
  /\ RunStep(j, "queued", "claimed")
  /\ UNCHANGED <<astatus, everRun, upload, mapping, row, req>>

MarkReviewing(j) ==
  /\ RunStep(j, "claimed", "pointing")
  /\ astatus' = "reviewing"
  /\ UNCHANGED <<everRun, upload, mapping, row, req>>

SetCurrentRun(j) ==
  /\ RunStep(j, "pointing", "loading")
  /\ everRun' = TRUE
  /\ UNCHANGED <<astatus, upload, mapping, row, req>>

\* The questions in scope, with the answers the provider will be shown.
LoadQuestions(j) ==
  /\ run[j].at = "loading"
  /\ run' = [run EXCEPT ![j].at = IF InScope(run[j].scope) = {} THEN "failing" ELSE "reviewing",
                        ![j].mapping = mapping,
                        ![j].todo = InScope(run[j].scope),
                        ![j].seen = [q \in Question |-> row[q].answer]]
  /\ UNCHANGED <<astatus, everRun, upload, mapping, row, req>>

NextChunk(j) ==
  LET before(q) == {p \in run[j].todo : p < q}
  IN  {q \in run[j].todo : Cardinality(before(q)) < BatchSize}

\* reviewChunk and persistChunk: of the chunk, R got a result and D \subseteq R
\* a draft with it.  The transaction fails when the questions are gone.
ReviewChunk(j, R, D) ==
  /\ run[j].at = "reviewing" /\ run[j].todo # {}
  /\ R \subseteq NextChunk(j) /\ D \subseteq R
  /\ IF R # {} /\ ~Exists(run[j].mapping)
       THEN /\ run' = [run EXCEPT ![j].at = "failing"]
            /\ UNCHANGED row
       ELSE /\ run' = [run EXCEPT ![j].todo = @ \ NextChunk(j), ![j].some = @ \/ R # {}]
            /\ row' = [q \in Question |-> IF q \in D THEN ApplyDraft(q, run[j].seen[q]) ELSE row[q]]
  /\ UNCHANGED <<astatus, everRun, upload, mapping, req>>

\* Nothing usable came back for any question.
NoResults(j) ==
  /\ run[j].todo = {} /\ ~run[j].some
  /\ RunStep(j, "reviewing", "failing")
  /\ UNCHANGED <<astatus, everRun, upload, mapping, row, req>>

\* Mutant: a successful run leaves the assessment as it is.
MarkNothing(j) ==
  /\ run[j].todo = {} /\ run[j].some
  /\ RunStep(j, "reviewing", "succeeding")
  /\ UNCHANGED <<astatus, everRun, upload, mapping, row, req>>

MarkReviewed(j) ==
  /\ run[j].todo = {} /\ run[j].some
  /\ RunStep(j, "reviewing", "succeeding")
  /\ astatus' = "reviewed"
  /\ UNCHANGED <<everRun, upload, mapping, row, req>>

\* A failed statement, the job timeout, a cancelled context or a panic.
RunFails(j) ==
  /\ run[j].at \in {"claimed", "pointing", "loading", "reviewing"}
  /\ run' = [run EXCEPT ![j].at = "failing"]
  /\ UNCHANGED <<astatus, everRun, upload, mapping, row, req>>

Over(p) == [NoRun EXCEPT !.at = p]

FinishJob(j) ==
  /\ \/ run[j].at = "succeeding" /\ run' = [run EXCEPT ![j] = Over("done")]
     \/ run[j].at = "failing"    /\ run' = [run EXCEPT ![j] = Over("resetting")]
  /\ UNCHANGED <<astatus, everRun, upload, mapping, row, req>>

\* Mutant: a failed run leaves the assessment as it is.
ResetNothing(j) ==
  /\ RunStep(j, "resetting", "done")
  /\ UNCHANGED <<astatus, everRun, upload, mapping, row, req>>

ResetAssessment(j) ==
  /\ RunStep(j, "resetting", "done")
  /\ astatus' = "mapped"
  /\ UNCHANGED <<everRun, upload, mapping, row, req>>

----------------------------------------------------------------------------
SignOffStep(r) ==
  \/ \E op \in {"finalize", "reopen"}, q \in Question, text \in Signable \cup {Blank} :
       CheckOpen(r, op, q, text)
  \/ FinalizeQuestion(r) \/ ReopenQuestion(r)
  \/ BulkCheckOpen(r) \/ BulkList(r) \/ BulkFinalize(r)

LifecycleStep(r) ==
  \/ CloseCheck(r) \/ CountUnfinalized(r) \/ DiscardUpload(r) \/ CloseAssessment(r)
  \/ UncloseCheck(r) \/ ReopenAssessment(r)
  \/ ReviseCheck(r) \/ ApplyAnswerRevisions(r)
  \/ \E Q \in SUBSET Question, v \in Answer : ReviseList(r, Q, v)
  \/ ConfirmCheck(r) \/ GetUpload(r) \/ ConfirmMapping(r)
  \/ EnqueueCheck(r) \/ EnqueueActive(r)
  \/ \E j \in Run, sc \in {"all", "unreviewed"} : CreateJob(r, j, sc)

ReviewStep(j) ==
  \/ Claim(j) \/ MarkReviewing(j) \/ SetCurrentRun(j) \/ LoadQuestions(j)
  \/ \E R, D \in SUBSET Question : ReviewChunk(j, R, D)
  \/ NoResults(j) \/ MarkReviewed(j) \/ RunFails(j)
  \/ FinishJob(j) \/ ResetAssessment(j)

Next ==
  \/ \E r \in Request : SignOffStep(r) \/ LifecycleStep(r) \/ Abort(r)
  \/ \E j \in Run : ReviewStep(j)

Spec == Init /\ [][Next]_vars

\* Review goroutines are scheduled and every wait in a run is bounded; nothing
\* is assumed of the people behind the requests.
FairSpec == Spec /\ \A j \in Run : WF_vars(ReviewStep(j))

----------------------------------------------------------------------------
(* Properties.                                                             *)

RowState == [answer : Answer, draft : Texts, final : Signable \cup {Blank},
             status : {"pending", "ai_drafted", "finalized"}]
RunState == [at : Active \cup {"none", "resetting", "done"}, scope : {"all", "unreviewed"},
             mapping : 0 .. MaxMappings, todo : SUBSET Question, seen : [Question -> Texts], some : BOOLEAN]
ReqState == [op : Ops \cup {"none"},
             at : {"idle", "write", "list", "count", "discard", "upload", "active"},
             mapping : 0 .. MaxMappings, qs : SUBSET Question,
             say : [Question -> Signable \cup {Blank}], closed : BOOLEAN, ran : BOOLEAN]

\* Every variable holds a value its column, or the code's locals, can hold; and what a
\* revision is about to store is an answer.
TypeOK ==
  /\ astatus \in {"uploaded", "mapped", "reviewing", "reviewed", "closed"}
  /\ everRun \in BOOLEAN /\ upload \in BOOLEAN
  /\ mapping \in 0 .. MaxMappings
  /\ row \in [Question -> RowState]
  /\ run \in [Run -> RunState]
  /\ req \in [Request -> ReqState]
  /\ \A r \in Request : At(r, "revise", "write") => \A q \in req[r].qs : req[r].say[q] \in Answer

SameMapping == mapping' = mapping
Writing(op, q) == \E r \in Request : At(r, op, "write") /\ q \in req[r].qs /\ req'[r] = NoReq

\* A signed question leaves `finalized' only when a person reopens it or its
\* answer is revised; no review run, re-review or bulk sign-off un-signs it
\* (ApplyDraft: "re-running a review must not silently reopen signed-off work").
SignedStaysSigned ==
  [][SameMapping => \A q \in Question :
       Signed(q) /\ ~Signed(q)' => Writing("reopen", q) \/ Writing("revise", q)]_vars

\* What the AI said and what a person signed stay separable: a sign-off never
\* changes a draft, a review never changes a signed text, and reopening or
\* revising a question loses neither (Finalize, ApplyDraft, ReviseAnswer).
ColumnsSeparable ==
  [][SameMapping => \A q \in Question :
       /\ row'[q].draft # row[q].draft => \E j \in Run : q \in run[j].todo \ run'[j].todo
       /\ row'[q].final # row[q].final => Writing("finalize", q) \/ Writing("bulk", q)]_vars

\* A closed assessment has every question signed (CloseAssessment).
ClosedIsSigned == astatus = "closed" => Unsigned = {}

\* An assessment in `reviewing' has a run that will take it out again.
ReviewingHasRun == astatus = "reviewing" => \E j \in Run : run[j].at \in Active \cup {"resetting"}

\* Every assessment in review leaves `reviewing' (Run and Finish).
ReviewEnds == astatus = "reviewing" ~> astatus # "reviewing"

\* What is signed is about the answer that is stored (ReviseAnswer: a changed
\* answer invalidates the draft and the sign-off equally).
SignedAnswerIsStored ==
  \A q \in Question : Signed(q) => row[q].final \in {row[q].answer, Own}
=============================================================================
