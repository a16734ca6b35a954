---------------------------- MODULE SignOffProofs ----------------------------
(***************************************************************************)
(* Proofs about SignOff, for any number of questions, answers, requests,   *)
(* runs and mappings, and any batch size.                                  *)
(***************************************************************************)
EXTENDS SignOff, TLAPS

----------------------------------------------------------------------------
(* Typing.                                                                 *)

\* What a row, a run and a request start as.
LEMMA FreshTypes == NewRow \in RowState /\ NoRun \in RunState /\ NoReq \in ReqState
<1>1. Silent \in [Question -> Texts] /\ Silent \in [Question -> Signable \cup {Blank}]
  BY DEF Silent, Texts, Signable
<1>2. 0 \in 0 .. MaxMappings BY SlotsAssumption
<1>3. NewRow \in RowState BY AnswerAssumption DEF NewRow, RowState, Texts
<1>4. NoRun \in RunState BY <1>1, <1>2 DEF NoRun, RunState
<1>5. NoReq \in ReqState BY <1>1, <1>2 DEF NoReq, ReqState
<1> QED BY <1>3, <1>4, <1>5

\* The tables start well typed.
LEMMA InitType == Init => TypeOK
<1> SUFFICES ASSUME Init PROVE TypeOK OBVIOUS
<1>1. 0 \in 0 .. MaxMappings BY SlotsAssumption
<1>2. \A r \in Request : ~At(r, "revise", "write") BY DEF Init, At, NoReq
<1> QED BY <1>1, <1>2, FreshTypes DEF Init, TypeOK

\* What is in a table of questions.
LEMMA QuestionSets ==
  /\ Existing \subseteq Question /\ Unsigned \subseteq Question /\ Drafted \subseteq Question
  /\ \A sc \in {"all", "unreviewed"} : InScope(sc) \subseteq Question
BY DEF Existing, Unsigned, Drafted, InScope

\* A request that moves to a well-formed state leaves the types as they are.
LEMMA RequestMoves ==
  ASSUME TypeOK, NEW r \in Request, NEW e \in ReqState, req' = [req EXCEPT ![r] = e],
         e.op = "revise" /\ e.at = "write" => \A q \in e.qs : e.say[q] \in Answer
  PROVE  /\ req' \in [Request -> ReqState] /\ req'[r] = e
         /\ \A x \in Request :
              At(x, "revise", "write")' => \A q \in req'[x].qs : req'[x].say[q] \in Answer
<1>1. req' \in [Request -> ReqState] /\ req'[r] = e BY DEF TypeOK
<1>2. ASSUME NEW x \in Request, At(x, "revise", "write")', NEW q \in req'[x].qs
      PROVE  req'[x].say[q] \in Answer
  <2>1. CASE x = r BY <1>1, <1>2, <2>1 DEF At
  <2>2. CASE x # r BY <1>2, <2>2 DEF At, TypeOK
  <2> QED BY <2>1, <2>2
<1> QED BY <1>1, <1>2

\* A request that is over, too.
LEMMA RequestEnds ==
  ASSUME TypeOK, NEW r \in Request, Finish(r)
  PROVE  /\ req' \in [Request -> ReqState] /\ req'[r] = NoReq
         /\ \A x \in Request :
              At(x, "revise", "write")' => \A q \in req'[x].qs : req'[x].say[q] \in Answer
<1>1. ~(NoReq.op = "revise") BY DEF NoReq
<1> QED BY <1>1, FreshTypes, RequestMoves DEF Finish

\* A step of a request that touches nothing else.
LEMMA RequestStepType ==
  ASSUME TypeOK, NEW r \in Request, NEW e \in ReqState, req' = [req EXCEPT ![r] = e],
         e.op = "revise" /\ e.at = "write" => \A q \in e.qs : e.say[q] \in Answer,
         UNCHANGED <<astatus, everRun, mapping, row, run>>, upload' \in BOOLEAN
  PROVE  TypeOK'
BY RequestMoves DEF TypeOK

\* The rows a request leaves behind.
LEMMA RowsType ==
  ASSUME TypeOK, NEW r \in Request, NEW new, \A q \in req[r].qs : new[q] \in RowState
  PROVE  Rows(r, new) \in [Question -> RowState]
BY DEF TypeOK, Rows

\* The statements keep a row a row.
LEMMA StatementTypes ==
  ASSUME TypeOK, NEW q \in Question
  PROVE  /\ \A text \in Texts : ApplyDraft(q, text) \in RowState
         /\ \A text \in Signable \cup {Blank} : Finalize(q, text) \in RowState
         /\ Unfinalize(q) \in RowState
         /\ \A ans \in Answer : ReviseAnswer(q, ans) \in RowState
<1>1. row[q] \in RowState BY DEF TypeOK
<1> QED BY <1>1 DEF RowState, ApplyDraft, Finalize, Unfinalize, ReviseAnswer

\* Finalizing, reopening and bulk sign-off.
LEMMA SignOffType == ASSUME TypeOK, NEW r \in Request, SignOffStep(r) PROVE TypeOK'
<1>0. req[r] \in ReqState /\ mapping \in 0 .. MaxMappings /\ upload \in BOOLEAN BY DEF TypeOK
<1>1. ASSUME NEW op \in {"finalize", "reopen"}, NEW q \in Question, NEW text \in Signable \cup {Blank},
             CheckOpen(r, op, q, text)
      PROVE  TypeOK'
  <2> DEFINE e == [NoReq EXCEPT !.op = op, !.at = "write", !.mapping = mapping,
                                !.qs = {q}, !.say[q] = text]
  <2>1. op \in Ops BY <1>1 DEF CheckOpen, Begin
  <2>2. e \in ReqState /\ e.op # "revise" BY <1>0, <2>1, FreshTypes DEF ReqState, NoReq
  <2> HIDE DEF e
  <2>3. req' = [req EXCEPT ![r] = e] BY <1>1 DEF CheckOpen, e
  <2> QED BY <1>0, <1>1, <2>2, <2>3, RequestStepType DEF CheckOpen
<1>2. ASSUME FinalizeQuestion(r) \/ BulkFinalize(r) PROVE TypeOK'
  <2> DEFINE new == [q \in Question |-> Finalize(q, req[r].say[q])]
  <2>1. \A q \in req[r].qs : new[q] \in RowState BY <1>0, StatementTypes DEF ReqState
  <2> HIDE DEF new
  <2>2. row' = Rows(r, new) /\ Finish(r) BY <1>2 DEF FinalizeQuestion, BulkFinalize, new
  <2>3. row' \in [Question -> RowState] BY <2>1, <2>2, RowsType
  <2> QED BY <1>2, <2>2, <2>3, RequestEnds DEF TypeOK, FinalizeQuestion, BulkFinalize
<1>3. ASSUME ReopenQuestion(r) PROVE TypeOK'
  <2> DEFINE new == [q \in Question |-> Unfinalize(q)]
  <2>1. \A q \in req[r].qs : new[q] \in RowState BY <1>0, StatementTypes DEF ReqState
  <2> HIDE DEF new
  <2>2. row' = Rows(r, new) /\ Finish(r) BY <1>3 DEF ReopenQuestion, new
  <2>3. row' \in [Question -> RowState] BY <2>1, <2>2, RowsType
  <2> QED BY <1>3, <2>2, <2>3, RequestEnds DEF TypeOK, ReopenQuestion
<1>4. ASSUME BulkCheckOpen(r) PROVE TypeOK'
  <2> DEFINE e == [NoReq EXCEPT !.op = "bulk", !.at = "list"]
  <2>1. e \in ReqState /\ e.op # "revise" BY <1>4, FreshTypes DEF ReqState, NoReq, BulkCheckOpen, Begin
  <2> QED BY <1>0, <1>4, <2>1, RequestStepType DEF BulkCheckOpen
<1>5. ASSUME BulkList(r) PROVE TypeOK'
  <2> DEFINE e == [req[r] EXCEPT !.at = "write", !.mapping = mapping, !.qs = Drafted,
                                 !.say = [q \in Question |-> IF q \in Drafted THEN row[q].draft ELSE Blank]]
  <2>1. \A q \in Question : row[q].draft \in Texts BY DEF TypeOK, RowState
  <2>2. [q \in Question |-> IF q \in Drafted THEN row[q].draft ELSE Blank] \in [Question -> Signable \cup {Blank}]
    BY <2>1 DEF Texts, Signable
  <2>3. e \in ReqState /\ e.op = "bulk" BY <1>0, <1>5, <2>2, QuestionSets DEF ReqState, BulkList, At
  <2>4. req' = [req EXCEPT ![r] = e] BY <1>5 DEF BulkList
  <2> HIDE DEF e
  <2> QED BY <1>0, <1>5, <2>3, <2>4, RequestStepType DEF BulkList
<1> QED BY <1>1, <1>2, <1>3, <1>4, <1>5 DEF SignOffStep

\* A request that begins, moves on or ends while the rows stay as they are.
LEMMA SmallSteps ==
  ASSUME TypeOK, NEW r \in Request, UNCHANGED <<everRun, mapping, row, run>>,
         upload' \in BOOLEAN, astatus' \in {"uploaded", "mapped", "reviewing", "reviewed", "closed"}
  PROVE  /\ Finish(r) => TypeOK'
         /\ \A p \in {"list", "count", "discard", "upload", "active", "write"} :
              req[r].op # "revise" /\ Step(r, p) => TypeOK'
         /\ \A op \in Ops, p \in {"count", "upload", "active"} :
              req' = [req EXCEPT ![r] = [NoReq EXCEPT !.op = op, !.at = p]] => TypeOK'
<1>0. req[r] \in ReqState BY DEF TypeOK
<1>1. ASSUME Finish(r) PROVE TypeOK' BY <1>1, RequestEnds DEF TypeOK
<1>2. ASSUME NEW p \in {"list", "count", "discard", "upload", "active", "write"},
             req[r].op # "revise", Step(r, p)
      PROVE  TypeOK'
  <2> DEFINE e == [req[r] EXCEPT !.at = p]
  <2>1. e \in ReqState /\ e.op # "revise" BY <1>0, <1>2 DEF ReqState
  <2>2. req' = [req EXCEPT ![r] = e] BY <1>2 DEF Step
  <2> HIDE DEF e
  <2> QED BY <2>1, <2>2, RequestMoves DEF TypeOK
<1>3. ASSUME NEW op \in Ops, NEW p \in {"count", "upload", "active"},
             req' = [req EXCEPT ![r] = [NoReq EXCEPT !.op = op, !.at = p]]
      PROVE  TypeOK'
  <2> DEFINE e == [NoReq EXCEPT !.op = op, !.at = p]
  <2>1. e \in ReqState /\ e.at # "write" BY <1>3, FreshTypes DEF ReqState, NoReq
  <2> HIDE DEF e
  <2>2. req' = [req EXCEPT ![r] = e] BY <1>3 DEF e
  <2> QED BY <2>1, <2>2, RequestMoves DEF TypeOK
<1> QED BY <1>1, <1>2, <1>3

\* Closing, revising, confirming a mapping and asking for a review.
LEMMA LifecycleType == ASSUME TypeOK, NEW r \in Request, LifecycleStep(r) PROVE TypeOK'
<1>0. req[r] \in ReqState /\ mapping \in 0 .. MaxMappings /\ upload \in BOOLEAN /\ everRun \in BOOLEAN
      /\ astatus \in {"uploaded", "mapped", "reviewing", "reviewed", "closed"} /\ MaxMappings \in Nat
  BY SlotsAssumption DEF TypeOK
<1>1. ASSUME CloseCheck(r) PROVE TypeOK'
  <2>1. "close" \in Ops BY <1>1 DEF CloseCheck, Begin
  <2> QED BY <1>0, <1>1, <2>1, SmallSteps DEF CloseCheck
<1>2. ASSUME CountUnfinalized(r) PROVE TypeOK'
  BY <1>0, <1>2, SmallSteps DEF CountUnfinalized, At
<1>3. ASSUME DiscardUpload(r) PROVE TypeOK'
  BY <1>0, <1>3, SmallSteps DEF DiscardUpload, At
<1>4. ASSUME CloseAssessment(r) PROVE TypeOK'
  BY <1>0, <1>4, SmallSteps DEF CloseAssessment
<1>5. ASSUME UncloseCheck(r) PROVE TypeOK'
  <2> DEFINE e == [NoReq EXCEPT !.op = "unclose", !.at = "write", !.ran = everRun]
  <2>1. e \in ReqState /\ e.op # "revise" BY <1>0, <1>5, FreshTypes DEF ReqState, NoReq, UncloseCheck, Begin
  <2> QED BY <1>0, <1>5, <2>1, RequestStepType DEF UncloseCheck
<1>6. ASSUME ReopenAssessment(r) PROVE TypeOK'
  BY <1>0, <1>6, SmallSteps DEF ReopenAssessment, OpenTarget
<1>7. ASSUME ReviseCheck(r) PROVE TypeOK'
  <2> DEFINE e == [NoReq EXCEPT !.op = "revise", !.at = "list", !.closed = (astatus = "closed"),
                                !.ran = everRun]
  <2>1. (astatus = "closed") \in BOOLEAN OBVIOUS
  <2>2. e \in ReqState /\ e.at # "write"
    BY <1>0, <1>7, <2>1, FreshTypes DEF ReqState, NoReq, ReviseCheck, Begin
  <2> QED BY <1>0, <1>7, <2>2, RequestStepType DEF ReviseCheck
<1>8. ASSUME ApplyAnswerRevisions(r) PROVE TypeOK'
  <2> DEFINE new == [q \in Question |-> ReviseAnswer(q, req[r].say[q])]
  <2>1. \A q \in req[r].qs : new[q] \in RowState
    BY <1>0, <1>8, StatementTypes DEF ReqState, ApplyAnswerRevisions, TypeOK
  <2>2. row' = Rows(r, new) /\ Finish(r) BY <1>8 DEF ApplyAnswerRevisions
  <2> HIDE DEF new
  <2>3. row' \in [Question -> RowState] BY <2>1, <2>2, RowsType
  <2>4. astatus' \in {"uploaded", "mapped", "reviewing", "reviewed", "closed"}
    BY <1>0, <1>8 DEF ApplyAnswerRevisions, OpenTarget
  <2> QED BY <1>8, <2>2, <2>3, <2>4, RequestEnds DEF TypeOK, ApplyAnswerRevisions
<1>9. ASSUME NEW Q \in SUBSET Question, NEW v \in Answer, ReviseList(r, Q, v) PROVE TypeOK'
  <2> DEFINE changed == {q \in Q : row[q].answer # v}
             say     == [q \in Question |-> IF q \in changed THEN v ELSE Blank]
             e       == [req[r] EXCEPT !.at = "write", !.mapping = mapping, !.qs = changed, !.say = say]
  <2>1. changed \in SUBSET Question /\ \A q \in changed : say[q] = v OBVIOUS
  <2>2. say \in [Question -> Signable \cup {Blank}] BY DEF Signable
  <2>3. req' = [req EXCEPT ![r] = e] BY <1>9 DEF ReviseList
  <2> HIDE DEF changed, say
  <2>4. e \in ReqState /\ e.qs = changed /\ e.say = say BY <1>0, <2>1, <2>2 DEF ReqState
  <2>5. \A q \in e.qs : e.say[q] \in Answer BY <2>1, <2>4
  <2> HIDE DEF e
  <2> QED BY <1>0, <1>9, <2>3, <2>4, <2>5, RequestStepType DEF ReviseList
<1>10. ASSUME ConfirmCheck(r) PROVE TypeOK'
  <2>1. "confirm" \in Ops BY <1>10 DEF ConfirmCheck, Begin
  <2> QED BY <1>0, <1>10, <2>1, SmallSteps DEF ConfirmCheck
<1>11. ASSUME GetUpload(r) PROVE TypeOK'
  BY <1>0, <1>11, SmallSteps DEF GetUpload, At
<1>12. ASSUME ConfirmMapping(r) PROVE TypeOK'
  <2>1. mapping' \in 0 .. MaxMappings BY <1>0, <1>12 DEF ConfirmMapping
  <2>2. row' \in [Question -> RowState] BY <1>12, FreshTypes DEF ConfirmMapping
  <2> QED BY <1>12, <2>1, <2>2, RequestEnds DEF TypeOK, ConfirmMapping
<1>13. ASSUME EnqueueCheck(r) PROVE TypeOK'
  <2>1. "enqueue" \in Ops BY <1>13 DEF EnqueueCheck, Begin
  <2> QED BY <1>0, <1>13, <2>1, SmallSteps DEF EnqueueCheck
<1>14. ASSUME EnqueueActive(r) PROVE TypeOK'
  BY <1>0, <1>14, SmallSteps DEF EnqueueActive, At
<1>15. ASSUME NEW j \in Run, NEW sc \in {"all", "unreviewed"}, CreateJob(r, j, sc) PROVE TypeOK'
  <2>1. [NoRun EXCEPT !.at = "queued", !.scope = sc] \in RunState
    BY FreshTypes DEF RunState, NoRun, Active
  <2>2. run' \in [Run -> RunState] BY <1>15, <2>1 DEF CreateJob, TypeOK
  <2> QED BY <1>15, <2>2, RequestEnds DEF TypeOK, CreateJob
<1> QED BY <1>1, <1>2, <1>3, <1>4, <1>5, <1>6, <1>7, <1>8, <1>9, <1>10, <1>11, <1>12, <1>13,
           <1>14, <1>15 DEF LifecycleStep

\* The review run.
LEMMA ReviewType == ASSUME TypeOK, NEW j \in Run, ReviewStep(j) PROVE TypeOK'
<1>0. run[j] \in RunState /\ mapping \in 0 .. MaxMappings /\ row \in [Question -> RowState]
  BY DEF TypeOK
<1>1. ASSUME NEW e \in RunState, run' = [run EXCEPT ![j] = e],
             astatus' \in {"uploaded", "mapped", "reviewing", "reviewed", "closed"},
             everRun' \in BOOLEAN, row' \in [Question -> RowState], UNCHANGED <<upload, mapping, req>>
      PROVE  TypeOK'
  BY <1>1 DEF TypeOK, At
<1>2. ASSUME NEW from, NEW to \in Active \cup {"resetting", "done"}, RunStep(j, from, to)
      PROVE  \E e \in RunState : run' = [run EXCEPT ![j] = e]
  <2>1. [run[j] EXCEPT !.at = to] \in RunState BY <1>0 DEF RunState
  <2> QED BY <1>2, <2>1 DEF RunStep
<1>3. ASSUME Claim(j) \/ MarkReviewing(j) \/ SetCurrentRun(j) \/ NoResults(j) \/ MarkReviewed(j)
             \/ ResetAssessment(j)
      PROVE  TypeOK'
  <2>1. \E e \in RunState : run' = [run EXCEPT ![j] = e]
    BY <1>2, <1>3 DEF Claim, MarkReviewing, SetCurrentRun, NoResults, MarkReviewed, ResetAssessment, Active
  <2> QED BY <1>1, <1>3, <2>1 DEF Claim, MarkReviewing, SetCurrentRun, NoResults, MarkReviewed,
                                  ResetAssessment, TypeOK
<1>4. ASSUME LoadQuestions(j) PROVE TypeOK'
  <2> DEFINE todo == InScope(run[j].scope)
             seen == [q \in Question |-> row[q].answer]
             at   == IF todo = {} THEN "failing" ELSE "reviewing"
             e    == [run[j] EXCEPT !.at = at, !.mapping = mapping, !.todo = todo, !.seen = seen]
  <2>1. todo \in SUBSET Question BY <1>0, QuestionSets DEF RunState
  <2>2. seen \in [Question -> Texts] BY <1>0 DEF RowState, Texts
  <2>3. at \in Active BY DEF Active
  <2>4. run' = [run EXCEPT ![j] = e] BY <1>4 DEF LoadQuestions
  <2> HIDE DEF todo, seen, at
  <2>5. e \in RunState BY <1>0, <2>1, <2>2, <2>3 DEF RunState
  <2> HIDE DEF e
  <2> QED BY <1>1, <1>4, <2>4, <2>5 DEF LoadQuestions, TypeOK
<1>5. ASSUME NEW R \in SUBSET Question, NEW D \in SUBSET Question, ReviewChunk(j, R, D) PROVE TypeOK'
  <2>1. CASE R # {} /\ ~Exists(run[j].mapping)
    <3>1. [run[j] EXCEPT !.at = "failing"] \in RunState BY <1>0 DEF RunState, Active
    <3>2. run' = [run EXCEPT ![j] = [run[j] EXCEPT !.at = "failing"]] BY <1>5, <2>1 DEF ReviewChunk
    <3> QED BY <1>1, <1>5, <2>1, <3>1, <3>2 DEF ReviewChunk, TypeOK
  <2>2. CASE ~(R # {} /\ ~Exists(run[j].mapping))
    <3> DEFINE e == [run[j] EXCEPT !.todo = @ \ NextChunk(j), !.some = @ \/ R # {}]
    <3>1. (run[j].some \/ R # {}) \in BOOLEAN OBVIOUS
    <3>2. e \in RunState BY <1>0, <3>1 DEF RunState
    <3>3. run' = [run EXCEPT ![j] = e] BY <1>5, <2>2 DEF ReviewChunk
    <3> HIDE DEF e
    <3>4. \A q \in Question : run[j].seen[q] \in Texts BY <1>0 DEF RunState
    <3>5. \A q \in Question : ApplyDraft(q, run[j].seen[q]) \in RowState BY <3>4, StatementTypes
    <3>6. row' = [q \in Question |-> IF q \in D THEN ApplyDraft(q, run[j].seen[q]) ELSE row[q]]
      BY <1>5, <2>2 DEF ReviewChunk
    <3>7. row' \in [Question -> RowState] BY <1>0, <3>5, <3>6
    <3> QED BY <1>1, <1>5, <3>2, <3>3, <3>7 DEF ReviewChunk, TypeOK
  <2> QED BY <2>1, <2>2
<1>6. ASSUME RunFails(j) PROVE TypeOK'
  <2>1. [run[j] EXCEPT !.at = "failing"] \in RunState BY <1>0 DEF RunState, Active
  <2>2. run' = [run EXCEPT ![j] = [run[j] EXCEPT !.at = "failing"]] BY <1>6 DEF RunFails
  <2> QED BY <1>1, <1>6, <2>1, <2>2 DEF RunFails, TypeOK
<1>7. ASSUME FinishJob(j) PROVE TypeOK'
  <2>1. \A p \in {"done", "resetting"} : Over(p) \in RunState BY FreshTypes DEF Over, NoRun, RunState
  <2> QED BY <1>1, <1>7, <2>1 DEF FinishJob, TypeOK
<1> QED BY <1>3, <1>4, <1>5, <1>6, <1>7 DEF ReviewStep

\* No step changes a type.
LEMMA NextType == TypeOK /\ [Next]_vars => TypeOK'
<1> SUFFICES ASSUME TypeOK, [Next]_vars PROVE TypeOK' OBVIOUS
<1>1. CASE UNCHANGED vars BY <1>1 DEF vars, TypeOK, At
<1>2. ASSUME NEW r \in Request, Abort(r) PROVE TypeOK' BY <1>2, RequestEnds DEF Abort, TypeOK
<1> QED BY <1>1, <1>2, SignOffType, LifecycleType, ReviewType DEF Next

\* Whatever the requests and the runs do, every column holds one of its values, every
\* question named by a request or a run is a question of the mapping, and what a revision is
\* about to store is an answer.
THEOREM TypeCorrect == Spec => []TypeOK
BY InitType, NextType, PTL DEF Spec

----------------------------------------------------------------------------
(* Who writes a question row, and what of it.                              *)

\* What each statement leaves alone in the row it is about.
LEMMA StatementColumns ==
  ASSUME TypeOK, NEW q \in Question, NEW text
  PROVE  /\ Finalize(q, text).draft = row[q].draft /\ Finalize(q, text).status = "finalized"
         /\ Unfinalize(q).draft = row[q].draft /\ Unfinalize(q).final = row[q].final
         /\ ReviseAnswer(q, text).draft = row[q].draft /\ ReviseAnswer(q, text).final = row[q].final
         /\ ApplyDraft(q, text).final = row[q].final
         /\ Signed(q) => ApplyDraft(q, text).status = "finalized"
<1>1. row[q] \in RowState BY DEF TypeOK
<1> QED BY <1>1 DEF RowState, Finalize, Unfinalize, ReviseAnswer, ApplyDraft, Signed

\* A row that changes under a mapping that stays was signed, reopened or revised by a request
\* that named it and is now over, or drafted by a run that has now done with it.
LEMMA RowWriter ==
  ASSUME TypeOK, Next, SameMapping, NEW q \in Question, row'[q] # row[q]
  PROVE  \/ /\ Writing("finalize", q) \/ Writing("bulk", q)
            /\ row'[q].draft = row[q].draft /\ Signed(q)'
         \/ /\ Writing("reopen", q) \/ Writing("revise", q)
            /\ row'[q].draft = row[q].draft /\ row'[q].final = row[q].final
         \/ /\ \E j \in Run : q \in run[j].todo \ run'[j].todo
            /\ row'[q].final = row[q].final /\ (Signed(q) => Signed(q)')
<1> DEFINE Goal == \/ /\ Writing("finalize", q) \/ Writing("bulk", q)
                      /\ row'[q].draft = row[q].draft /\ Signed(q)'
                   \/ /\ Writing("reopen", q) \/ Writing("revise", q)
                      /\ row'[q].draft = row[q].draft /\ row'[q].final = row[q].final
                   \/ /\ \E j \in Run : q \in run[j].todo \ run'[j].todo
                      /\ row'[q].final = row[q].final /\ (Signed(q) => Signed(q)')
<1>0. req \in [Request -> ReqState] /\ run \in [Run -> RunState] /\ mapping \in Nat
  BY SlotsAssumption DEF TypeOK
<1>1. ASSUME NEW r \in Request, NEW op, NEW new, At(r, op, "write"), Finish(r), row' = Rows(r, new)
      PROVE  Writing(op, q) /\ row'[q] = new[q]
  <2>1. q \in req[r].qs /\ row'[q] = new[q] BY <1>1 DEF Rows
  <2>2. req'[r] = NoReq BY <1>0, <1>1 DEF Finish
  <2> QED BY <1>1, <2>1, <2>2 DEF Writing
<1>2. ASSUME NEW r \in Request, SignOffStep(r) PROVE Goal
  <2>1. CASE FinalizeQuestion(r)
    <3>1. Writing("finalize", q) /\ row'[q] = Finalize(q, req[r].say[q])
      BY <1>1, <2>1 DEF FinalizeQuestion
    <3> QED BY <3>1, StatementColumns DEF Signed
  <2>2. CASE BulkFinalize(r)
    <3>1. Writing("bulk", q) /\ row'[q] = Finalize(q, req[r].say[q])
      BY <1>1, <2>2 DEF BulkFinalize
    <3> QED BY <3>1, StatementColumns DEF Signed
  <2>3. CASE ReopenQuestion(r)
    <3>1. Writing("reopen", q) /\ row'[q] = Unfinalize(q) BY <1>1, <2>3 DEF ReopenQuestion
    <3> QED BY <3>1, StatementColumns
  <2> QED BY <1>2, <2>1, <2>2, <2>3 DEF SignOffStep, CheckOpen, BulkCheckOpen, BulkList
<1>3. ASSUME NEW r \in Request, LifecycleStep(r) PROVE Goal
  <2>1. CASE ApplyAnswerRevisions(r)
    <3>1. Writing("revise", q) /\ row'[q] = ReviseAnswer(q, req[r].say[q])
      BY <1>1, <2>1 DEF ApplyAnswerRevisions
    <3> QED BY <3>1, StatementColumns
  <2>2. CASE ConfirmMapping(r) BY <1>0, <2>2 DEF ConfirmMapping, SameMapping
  <2> QED BY <1>3, <2>1, <2>2 DEF LifecycleStep, CloseCheck, CountUnfinalized, DiscardUpload,
             CloseAssessment, UncloseCheck, ReopenAssessment, ReviseCheck, ReviseList, ConfirmCheck,
             GetUpload, EnqueueCheck, EnqueueActive, CreateJob
<1>4. ASSUME NEW j \in Run, ReviewStep(j) PROVE Goal
  <2>1. ASSUME NEW R \in SUBSET Question, NEW D \in SUBSET Question, ReviewChunk(j, R, D) PROVE Goal
    <3>1. q \in D /\ row'[q] = ApplyDraft(q, run[j].seen[q]) BY <2>1 DEF ReviewChunk
    <3>2. run' = [run EXCEPT ![j].todo = @ \ NextChunk(j), ![j].some = @ \/ R # {}]
      BY <2>1 DEF ReviewChunk
    <3>3. q \in NextChunk(j) BY <2>1, <3>1 DEF ReviewChunk
    <3>4. q \in run[j].todo BY <3>3 DEF NextChunk
    <3>5. run'[j].todo = run[j].todo \ NextChunk(j) BY <1>0, <3>2 DEF RunState
    <3>6. q \in run[j].todo \ run'[j].todo BY <3>3, <3>4, <3>5
    <3> QED BY <3>1, <3>6, StatementColumns DEF Signed
  <2> QED BY <1>4, <2>1 DEF ReviewStep, Claim, MarkReviewing, SetCurrentRun, LoadQuestions, NoResults,
             MarkReviewed, RunFails, FinishJob, ResetAssessment
<1> QED BY <1>2, <1>3, <1>4 DEF Next, Abort

\* Under one mapping a question leaves `finalized' only by the step that ends a request to
\* reopen it or to revise its answer, and one that names it: whatever number of runs and of
\* bulk sign-offs overlap with it, none of them un-signs it (ApplyDraft, BulkFinalize).
THEOREM SignatureKept == Spec => SignedStaysSigned
<1>1. ASSUME TypeOK, Next, SameMapping, NEW q \in Question, Signed(q), ~Signed(q)'
      PROVE  Writing("reopen", q) \/ Writing("revise", q)
  <2>1. row'[q] # row[q] BY <1>1 DEF Signed
  <2> QED BY <1>1, <2>1, RowWriter
<1>2. TypeOK /\ [Next]_vars =>
        [SameMapping => \A q \in Question :
           Signed(q) /\ ~Signed(q)' => Writing("reopen", q) \/ Writing("revise", q)]_vars
  BY <1>1
<1> QED BY <1>2, TypeCorrect, PTL DEF Spec, SignedStaysSigned

\* Under one mapping a draft is written only by a run that finishes with the question, and a
\* signed text only by a request that signs it: the two columns never leak into each other,
\* and reopening or revising a question loses neither.
THEOREM ColumnsKept == Spec => ColumnsSeparable
<1>1. ASSUME TypeOK, Next, SameMapping, NEW q \in Question
      PROVE  /\ row'[q].draft # row[q].draft => \E j \in Run : q \in run[j].todo \ run'[j].todo
             /\ row'[q].final # row[q].final => Writing("finalize", q) \/ Writing("bulk", q)
  <2>1. CASE row'[q] = row[q] BY <2>1
  <2>2. CASE row'[q] # row[q] BY <1>1, <2>2, RowWriter
  <2> QED BY <2>1, <2>2
<1>2. TypeOK /\ [Next]_vars =>
        [SameMapping => \A q \in Question :
           /\ row'[q].draft # row[q].draft => \E j \in Run : q \in run[j].todo \ run'[j].todo
           /\ row'[q].final # row[q].final => Writing("finalize", q) \/ Writing("bulk", q)]_vars
  BY <1>1
<1> QED BY <1>2, TypeCorrect, PTL DEF Spec, ColumnsSeparable

----------------------------------------------------------------------------
(* Reviewing has a run.                                                    *)

\* The places at which a run is bound to take the assessment out of `reviewing': from having
\* written that status to writing the next one.
InReview == {"pointing", "loading", "reviewing", "failing", "resetting"}

\* `reviewing' has a run at one of them.  Stronger than ReviewingHasRun, which a run that is
\* only queued, or has already written `reviewed', would satisfy and not keep.
ReviewingHasWriter == astatus = "reviewing" => \E j \in Run : run[j].at \in InReview

\* Only MarkReviewing writes `reviewing', and its run is at "pointing" from then on.
LEMMA ReviewingHasWriterStep ==
  ASSUME TypeOK, ReviewingHasWriter, [Next]_vars PROVE ReviewingHasWriter'
<1>0. req \in [Request -> ReqState] /\ run \in [Run -> RunState] BY DEF TypeOK
<1>1. CASE UNCHANGED vars BY <1>1 DEF vars, ReviewingHasWriter
<1>2. ASSUME UNCHANGED run, astatus' \in {astatus, "mapped", "reviewed", "closed"}
      PROVE  ReviewingHasWriter'
  BY <1>2 DEF ReviewingHasWriter
<1>3. ASSUME NEW r \in Request, SignOffStep(r) \/ Abort(r) PROVE ReviewingHasWriter'
  BY <1>2, <1>3 DEF SignOffStep, Abort, CheckOpen, FinalizeQuestion, ReopenQuestion, BulkCheckOpen,
                    BulkList, BulkFinalize
<1>4. ASSUME NEW r \in Request, LifecycleStep(r) PROVE ReviewingHasWriter'
  <2>1. ASSUME NEW j \in Run, NEW sc \in {"all", "unreviewed"}, CreateJob(r, j, sc)
        PROVE  ReviewingHasWriter'
    <3>1. \A i \in Run : run[i].at \in InReview => run'[i] = run[i]
      BY <1>0, <2>1 DEF CreateJob, InReview
    <3> QED BY <2>1, <3>1 DEF ReviewingHasWriter, CreateJob
  <2>2. CASE \E j \in Run, sc \in {"all", "unreviewed"} : CreateJob(r, j, sc) BY <2>1, <2>2
  <2>3. CASE ~(\E j \in Run, sc \in {"all", "unreviewed"} : CreateJob(r, j, sc))
    BY <1>2, <1>4, <2>3 DEF LifecycleStep, CloseCheck, CountUnfinalized, DiscardUpload,
       CloseAssessment, UncloseCheck, ReopenAssessment, OpenTarget, ReviseCheck, ReviseList,
       ApplyAnswerRevisions, ConfirmCheck, GetUpload, ConfirmMapping, EnqueueCheck, EnqueueActive
  <2> QED BY <2>2, <2>3
<1>5. ASSUME NEW j \in Run, ReviewStep(j) PROVE ReviewingHasWriter'
  <2>1. \A i \in Run \ {j} : run'[i] = run[i]
    BY <1>0, <1>5 DEF ReviewStep, Claim, MarkReviewing, SetCurrentRun, LoadQuestions, ReviewChunk,
       NoResults, MarkReviewed, RunFails, FinishJob, ResetAssessment, RunStep
  <2>2. CASE MarkReviewing(j)
    <3>1. run'[j].at = "pointing" BY <1>0, <2>2 DEF MarkReviewing, RunStep, RunState
    <3> QED BY <3>1 DEF ReviewingHasWriter, InReview
  <2>3. CASE MarkReviewed(j) \/ ResetAssessment(j)
    BY <2>3 DEF MarkReviewed, ResetAssessment, ReviewingHasWriter
  <2>4. ASSUME run[j].at \in InReview => run'[j].at \in InReview, UNCHANGED astatus
        PROVE  ReviewingHasWriter'
    BY <2>1, <2>4 DEF ReviewingHasWriter
  <2>5. ASSUME NEW from, NEW to, RunStep(j, from, to), from \in InReview => to \in InReview, UNCHANGED astatus
        PROVE  ReviewingHasWriter'
    <3>1. run'[j].at = to BY <1>0, <2>5 DEF RunStep, RunState
    <3> QED BY <2>4, <2>5, <3>1 DEF RunStep
  <2>6. CASE Claim(j) BY <2>5, <2>6 DEF Claim, InReview
  <2>7. CASE SetCurrentRun(j) BY <2>5, <2>7 DEF SetCurrentRun, InReview
  <2>8. CASE NoResults(j) BY <2>5, <2>8 DEF NoResults, InReview
  <2>9. CASE LoadQuestions(j)
    <3>1. run'[j].at \in InReview BY <1>0, <2>9 DEF LoadQuestions, RunState, InReview
    <3> QED BY <2>4, <2>9, <3>1 DEF LoadQuestions
  <2>10. ASSUME NEW R \in SUBSET Question, NEW D \in SUBSET Question, ReviewChunk(j, R, D)
         PROVE  ReviewingHasWriter'
    <3>1. run'[j].at \in InReview BY <1>0, <2>10 DEF ReviewChunk, RunState, InReview
    <3> QED BY <2>4, <2>10, <3>1 DEF ReviewChunk
  <2>11. CASE RunFails(j)
    <3>1. run'[j].at \in InReview BY <1>0, <2>11 DEF RunFails, RunState, InReview
    <3> QED BY <2>4, <2>11, <3>1 DEF RunFails
  <2>12. CASE FinishJob(j)
    <3>1. run[j].at \in InReview => run'[j].at \in InReview
      BY <1>0, <2>12 DEF FinishJob, Over, NoRun, InReview
    <3> QED BY <2>4, <2>12, <3>1 DEF FinishJob
  <2> QED BY <1>5, <2>2, <2>3, <2>6, <2>7, <2>8, <2>9, <2>10, <2>11, <2>12 DEF ReviewStep
<1> QED BY <1>1, <1>3, <1>4, <1>5 DEF Next

\* However many jobs there are for one assessment, it is never in `reviewing' with no run left
\* that will write another status: a failing run that resets it under another run only takes
\* it out early (Run, Finish).
THEOREM ReviewingIsRun == Spec => []ReviewingHasRun
<1>1. Init => ReviewingHasWriter BY DEF Init, ReviewingHasWriter
<1>2. ReviewingHasWriter => ReviewingHasRun
  BY DEF ReviewingHasWriter, ReviewingHasRun, InReview, Active
<1> QED BY <1>1, <1>2, ReviewingHasWriterStep, TypeCorrect, PTL DEF Spec

----------------------------------------------------------------------------
(* Closed is signed.                                                       *)

\* What the code leaves to the people who use it: nobody asks to reopen a question, to revise
\* an answer or to confirm a mapping while somebody is closing the assessment.  (It checks a
\* status or counts rows first and writes later, with no lock between the two; the properties
\* of two overlapping requests show what comes of it.)
ClosesAlone ==
  \A r, s \in Request : req[r].op = "close" => req[s].op \notin {"reopen", "revise", "confirm"}

\* A closing that has counted has every question signed, and a request that may un-sign one
\* without reopening the assessment goes on only while it is not closed.
Closable ==
  /\ ClosedIsSigned
  /\ \A r \in Request : req[r].op = "close" /\ req[r].at \in {"discard", "write"} => Unsigned = {}
  /\ \A r \in Request : req[r].op = "reopen" \/ (req[r].op = "revise" /\ ~req[r].closed)
                          => astatus # "closed"

\* A step of one request that leaves rows and status alone only has to answer for itself.
LEMMA QuietRequest ==
  ASSUME Closable, NEW r \in Request, UNCHANGED <<astatus, mapping, row>>,
         \A x \in Request \ {r} : req'[x] = req[x],
         req'[r].op = "close" /\ req'[r].at \in {"discard", "write"} => Unsigned = {},
         req'[r].op = "reopen" \/ (req'[r].op = "revise" /\ ~req'[r].closed) => astatus # "closed"
  PROVE  Closable'
BY DEF Closable, ClosedIsSigned, Unsigned, Existing, Signed

\* With no request un-signing, what is signed stays signed.
LEMMA NothingUnsigned ==
  ASSUME TypeOK, Next, SameMapping, Unsigned = {},
         \A q \in Question : ~Writing("reopen", q) /\ ~Writing("revise", q)
  PROVE  Unsigned' = {}
<1>1. ASSUME NEW q \in Question, Signed(q) PROVE Signed(q)'
  BY <1>1, RowWriter DEF Signed
<1> QED BY <1>1 DEF Unsigned, Existing, SameMapping

\* The sign-offs: reopening a question cannot meet a closing, the others un-sign nothing.
LEMMA ClosableSignOff ==
  ASSUME TypeOK, Closable, ClosesAlone, NEW r \in Request, SignOffStep(r), Next
  PROVE  Closable'
<1>0. req \in [Request -> ReqState] /\ req[r] \in ReqState BY DEF TypeOK
<1>1. ASSUME NEW op \in {"finalize", "reopen"}, NEW q \in Question, NEW text, CheckOpen(r, op, q, text)
      PROVE  Closable'
  <2>1. req'[r].op = op /\ \A x \in Request \ {r} : req'[x] = req[x]
    BY <1>0, <1>1 DEF CheckOpen, NoReq
  <2> QED BY <1>1, <2>1, QuietRequest DEF CheckOpen
<1>2. ASSUME BulkCheckOpen(r) PROVE Closable'
  <2>1. req'[r].op = "bulk" /\ \A x \in Request \ {r} : req'[x] = req[x]
    BY <1>0, <1>2 DEF BulkCheckOpen, NoReq
  <2> QED BY <1>2, <2>1, QuietRequest DEF BulkCheckOpen
<1>3. ASSUME BulkList(r) PROVE Closable'
  <2>1. req'[r].op = "bulk" /\ \A x \in Request \ {r} : req'[x] = req[x]
    BY <1>0, <1>3 DEF BulkList, At, ReqState
  <2> QED BY <1>3, <2>1, QuietRequest DEF BulkList
<1>4. ASSUME FinalizeQuestion(r) \/ ReopenQuestion(r) \/ BulkFinalize(r) PROVE Closable'
  <2>1. Finish(r) /\ UNCHANGED <<astatus, mapping>>
    BY <1>4 DEF FinalizeQuestion, ReopenQuestion, BulkFinalize
  <2>2. req'[r] = NoReq /\ \A x \in Request \ {r} : req'[x] = req[x]
    BY <1>0, <2>1 DEF Finish
  <2>3. \A x \in Request, op \in {"reopen", "revise"}, q \in Question :
          Writing(op, q) => op = "reopen" /\ req[r].op = "reopen"
    BY <1>4, <2>2 DEF Writing, At, FinalizeQuestion, ReopenQuestion, BulkFinalize, NoReq
  <2>4. ASSUME Unsigned = {}, req[r].op # "reopen" PROVE Unsigned' = {}
    BY <2>1, <2>3, <2>4, NothingUnsigned DEF SameMapping
  <2>5. ClosedIsSigned'
    <3>1. astatus' = "closed" => req[r].op # "reopen" BY <2>1 DEF Closable
    <3> QED BY <2>1, <2>4, <3>1 DEF Closable, ClosedIsSigned
  <2>6. ASSUME NEW x \in Request, req'[x].op = "close", req'[x].at \in {"discard", "write"}
        PROVE  Unsigned' = {}
    <3>1. x # r /\ req'[x] = req[x] BY <2>2, <2>6 DEF NoReq
    <3>2. req[r].op # "reopen" BY <2>6, <3>1 DEF ClosesAlone
    <3> QED BY <2>4, <2>6, <3>1, <3>2 DEF Closable
  <2>7. ASSUME NEW x \in Request,
               req'[x].op = "reopen" \/ (req'[x].op = "revise" /\ ~req'[x].closed)
        PROVE  astatus' # "closed"
    <3>1. x # r /\ req'[x] = req[x] BY <2>2, <2>7 DEF NoReq
    <3> QED BY <2>1, <2>7, <3>1 DEF Closable
  <2> QED BY <2>5, <2>6, <2>7 DEF Closable
<1> QED BY <1>1, <1>2, <1>3, <1>4 DEF SignOffStep

\* The reviews: a draft under a signed text un-signs nothing, and no run closes an assessment.
LEMMA ClosableReview ==
  ASSUME TypeOK, Closable, NEW j \in Run, ReviewStep(j), Next PROVE Closable'
<1>1. UNCHANGED <<req, mapping>> /\ (astatus' = "closed" => astatus = "closed")
  BY DEF ReviewStep, Claim, MarkReviewing, SetCurrentRun, LoadQuestions, ReviewChunk, NoResults,
         MarkReviewed, RunFails, FinishJob, ResetAssessment
<1>2. \A op \in {"reopen", "revise"}, q \in Question : ~Writing(op, q)
  BY <1>1 DEF Writing, At, NoReq
<1>3. Unsigned = {} => Unsigned' = {} BY <1>1, <1>2, NothingUnsigned DEF SameMapping
<1> QED BY <1>1, <1>3 DEF Closable, ClosedIsSigned

\* Closing, revising, confirming a mapping and asking for a review.
LEMMA ClosableLifecycle ==
  ASSUME TypeOK, Closable, ClosesAlone, NEW r \in Request, LifecycleStep(r), Next
  PROVE  Closable'
<1>0. req \in [Request -> ReqState] /\ req[r] \in ReqState BY DEF TypeOK
<1>1. ASSUME UNCHANGED <<astatus, mapping, row>>, Finish(r) PROVE Closable'
  <2>1. req'[r] = NoReq /\ \A x \in Request \ {r} : req'[x] = req[x]
    BY <1>0, <1>1 DEF Finish
  <2> QED BY <1>1, <2>1, QuietRequest DEF NoReq
<1>2. ASSUME UNCHANGED <<astatus, mapping, row>>, NEW p, Step(r, p),
             req[r].op = "close" => Unsigned = {}, req[r].op \notin {"reopen", "revise"}
      PROVE  Closable'
  <2>1. req'[r].op = req[r].op /\ \A x \in Request \ {r} : req'[x] = req[x]
    BY <1>0, <1>2 DEF Step, ReqState
  <2> QED BY <1>2, <2>1, QuietRequest
<1>3. CASE CountUnfinalized(r) BY <1>1, <1>2, <1>3 DEF CountUnfinalized, At
<1>4. CASE DiscardUpload(r)
  <2>1. Unsigned = {} BY <1>4 DEF DiscardUpload, At, Closable
  <2> QED BY <1>2, <1>4, <2>1 DEF DiscardUpload, At
<1>5. CASE GetUpload(r) BY <1>1, <1>2, <1>5 DEF GetUpload, At
<1>6. CASE EnqueueActive(r) BY <1>1, <1>2, <1>6 DEF EnqueueActive, At
<1>7. ASSUME NEW j \in Run, NEW sc, CreateJob(r, j, sc) PROVE Closable'
  BY <1>1, <1>7 DEF CreateJob
<1>8. ASSUME NEW op \in {"close", "confirm", "enqueue"}, NEW p \in {"count", "upload", "active"},
             req' = [req EXCEPT ![r] = [NoReq EXCEPT !.op = op, !.at = p]],
             UNCHANGED <<astatus, mapping, row>>
      PROVE  Closable'
  <2>1. req'[r].op = op /\ req'[r].at = p /\ \A x \in Request \ {r} : req'[x] = req[x]
    BY <1>0, <1>8 DEF NoReq
  <2> QED BY <1>8, <2>1, QuietRequest
<1>9. CASE CloseCheck(r) BY <1>8, <1>9 DEF CloseCheck
<1>10. CASE ConfirmCheck(r) BY <1>8, <1>10 DEF ConfirmCheck
<1>11. CASE EnqueueCheck(r) BY <1>8, <1>11 DEF EnqueueCheck
<1>12. CASE UncloseCheck(r)
  <2>1. req'[r].op = "unclose" /\ \A x \in Request \ {r} : req'[x] = req[x]
    BY <1>0, <1>12 DEF UncloseCheck, NoReq
  <2> QED BY <1>12, <2>1, QuietRequest DEF UncloseCheck
<1>13. CASE ReviseCheck(r)
  <2>1. /\ req'[r].op = "revise" /\ req'[r].closed = (astatus = "closed")
        /\ \A x \in Request \ {r} : req'[x] = req[x]
    BY <1>0, <1>13 DEF ReviseCheck, NoReq
  <2> QED BY <1>13, <2>1, QuietRequest DEF ReviseCheck
<1>14. ASSUME NEW Q, NEW v, ReviseList(r, Q, v) PROVE Closable'
  <2>1. /\ req'[r].op = req[r].op /\ req'[r].closed = req[r].closed
        /\ \A x \in Request \ {r} : req'[x] = req[x]
    BY <1>0, <1>14 DEF ReviseList, ReqState
  <2> QED BY <1>14, <2>1, QuietRequest DEF ReviseList, At, Closable
<1>15. CASE CloseAssessment(r)
  <2>1. req[r].op = "close" /\ Unsigned = {} BY <1>15 DEF CloseAssessment, At, Closable
  <2>2. Unsigned' = {} BY <1>15, <2>1 DEF CloseAssessment, Unsigned, Existing, Signed
  <2>3. req'[r] = NoReq /\ \A x \in Request \ {r} : req'[x] = req[x]
    BY <1>0, <1>15 DEF CloseAssessment, Finish
  <2>4. \A x \in Request : req'[x].op \notin {"reopen", "revise"}
    BY <2>1, <2>3 DEF ClosesAlone, NoReq
  <2> QED BY <2>2, <2>4 DEF Closable, ClosedIsSigned
<1>16. CASE ReopenAssessment(r)
  <2>1. astatus' # "closed" /\ Unsigned' = Unsigned
    BY <1>16 DEF ReopenAssessment, OpenTarget, Unsigned, Existing, Signed
  <2>2. req'[r] = NoReq /\ \A x \in Request \ {r} : req'[x] = req[x]
    BY <1>0, <1>16 DEF ReopenAssessment, Finish
  <2> QED BY <2>1, <2>2 DEF Closable, ClosedIsSigned, NoReq
<1>17. CASE ConfirmMapping(r)
  <2>1. astatus' # "closed" /\ req[r].op = "confirm" BY <1>17 DEF ConfirmMapping, At
  <2>2. req'[r] = NoReq /\ \A x \in Request \ {r} : req'[x] = req[x]
    BY <1>0, <1>17 DEF ConfirmMapping, Finish
  <2>3. \A x \in Request : req'[x].op # "close" BY <2>1, <2>2 DEF ClosesAlone, NoReq
  <2> QED BY <2>1, <2>3 DEF Closable, ClosedIsSigned
<1>18. CASE ApplyAnswerRevisions(r)
  <2>1. req'[r] = NoReq /\ \A x \in Request \ {r} : req'[x] = req[x]
    BY <1>0, <1>18 DEF ApplyAnswerRevisions, Finish
  <2>2. req[r].op = "revise" /\ mapping' = mapping BY <1>18 DEF ApplyAnswerRevisions, At
  <2>3. \A x \in Request : req'[x].op # "close" BY <2>1, <2>2 DEF ClosesAlone, NoReq
  <2>4. astatus' = "closed" => astatus = "closed" BY <1>18 DEF ApplyAnswerRevisions, OpenTarget
  <2>5. ASSUME astatus' = "closed" PROVE row' = row
    <3>1. ~(Exists(req[r].mapping) /\ req[r].qs # {})
      BY <1>18, <2>2, <2>4, <2>5 DEF ApplyAnswerRevisions, OpenTarget, Closable
    <3>2. \A q \in Question : ~(Exists(req[r].mapping) /\ q \in req[r].qs) BY <3>1
    <3> QED BY <1>18, <3>2 DEF ApplyAnswerRevisions, Rows, TypeOK
  <2>6. ClosedIsSigned'
    BY <2>2, <2>4, <2>5 DEF Closable, ClosedIsSigned, Unsigned, Existing, Signed
  <2>7. \A x \in Request : req'[x].op = "reopen" \/ (req'[x].op = "revise" /\ ~req'[x].closed)
                             => astatus' # "closed"
    BY <2>1, <2>4 DEF Closable, NoReq
  <2> QED BY <2>3, <2>6, <2>7 DEF Closable
<1> QED BY <1>3, <1>4, <1>5, <1>6, <1>7, <1>9, <1>10, <1>11, <1>12, <1>13, <1>14, <1>15, <1>16,
           <1>17, <1>18 DEF LifecycleStep

LEMMA ClosableStep == TypeOK /\ ClosesAlone /\ Closable /\ [Next]_vars => Closable'
<1> SUFFICES ASSUME TypeOK, ClosesAlone, Closable, [Next]_vars PROVE Closable' OBVIOUS
<1>1. CASE UNCHANGED vars BY <1>1 DEF vars, Closable, ClosedIsSigned, Unsigned, Existing, Signed
<1>2. ASSUME NEW r \in Request, Abort(r) PROVE Closable'
  <2>1. req'[r] = NoReq /\ \A x \in Request \ {r} : req'[x] = req[x]
    BY <1>2 DEF Abort, Finish, TypeOK
  <2> QED BY <1>2, <2>1, QuietRequest DEF Abort, NoReq
<1> QED BY <1>1, <1>2, ClosableSignOff, ClosableLifecycle, ClosableReview DEF Next

\* As long as no closing overlaps with a request to reopen a question, to revise an answer or
\* to confirm a mapping, a closed assessment has every question signed, whatever else overlaps:
\* sign-offs, other closings and reopenings of the assessment, and any number of reviews.
THEOREM ClosedSigned == Spec /\ []ClosesAlone => []ClosedIsSigned
<1>1. Init => Closable BY DEF Init, Closable, ClosedIsSigned, NoReq
<1>2. Closable => ClosedIsSigned BY DEF Closable
<1> QED BY <1>1, <1>2, ClosableStep, TypeCorrect, PTL DEF Spec
=============================================================================
