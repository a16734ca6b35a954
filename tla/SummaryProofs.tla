--------------------------- MODULE SummaryProofs ---------------------------
(***************************************************************************)
(* Proofs about Summary, for any questionnaire and batch size, any replies *)
(* and any number of runs and requests.  Nothing here depends on what      *)
(* Aggregate computes, only on when it is computed and from what.          *)
(***************************************************************************)
EXTENDS Summary, SequenceTheorems, TLAPS

----------------------------------------------------------------------------
(* The inductive invariant.                                                *)

RunShape(e) ==
  /\ e = [at |-> e.at, todo |-> e.todo, mapping |-> e.mapping, some |-> e.some,
          met |-> e.met, qs |-> e.qs, figures |-> e.figures, overtaken |-> e.overtaken]
  /\ e.at \in {"none", "review", "results", "summarize", "done"}
  /\ e.some \in BOOLEAN /\ e.overtaken \in BOOLEAN

ReqShape(e) ==
  /\ e = [at |-> e.at, qs |-> e.qs, figures |-> e.figures, run |-> e.run,
          narrative |-> e.narrative, overtaken |-> e.overtaken, bypassed |-> e.bypassed]
  /\ e.at \in {"idle", "questions", "results", "existing", "upsert"}
  /\ e.overtaken \in BOOLEAN /\ e.bypassed \in BOOLEAN

\* The record fields of runs and requests, as far as the other parts need them.
Shapes ==
  /\ run = [j \in Run |-> run[j]] /\ \A j \in Run : RunShape(run[j])
  /\ req = [r \in Request |-> req[r]] /\ \A r \in Request : ReqShape(req[r])
  /\ raced \in BOOLEAN /\ neglected \in BOOLEAN

\* What the tables add up to.
Due == Aggregate(ListForReview, LatestByAssessment)

\* Whoever has not been overtaken holds what the tables still say.
UpToDate(p) ==
  /\ p.at = "results" /\ ~p.overtaken => p.qs = ListForReview
  /\ p.at \in {"existing", "summarize", "upsert"} /\ ~p.overtaken => p.figures = Due

Reads == /\ \A j \in Run : UpToDate(run[j])
         /\ \A r \in Request : UpToDate(req[r])

\* Somebody will write the summary anew, or will be seen to have neglected it.
Owes == \/ \E r \in Request : req[r].at # "idle"
        \/ \E j \in Run : run[j].at \notin {"none", "done"} /\ run[j].some

Accounted == \/ raced \/ neglected \/ Owes
             \/ Current \/ (summary = NoSummary /\ Untouched)

\* Whoever has not been bypassed holds the narrative on record.
Prose == \A r \in Request :
  req[r].at = "upsert" /\ ~req[r].bypassed => req[r].narrative = summary.narrative

IInv == Shapes /\ Reads /\ Accounted /\ Prose

----------------------------------------------------------------------------
LEMMA IdleShape == ReqShape(NoReq) /\ NoReq.at = "idle"
BY DEF ReqShape, NoReq

LEMMA InitIInv == Init => IInv
<1> SUFFICES ASSUME Init PROVE IInv OBVIOUS
<1>1. Shapes BY DEF Init, Shapes, RunShape, ReqShape, NoRun, NoReq
<1>2. Reads BY DEF Init, Reads, UpToDate, NoRun, NoReq
<1>3. Accounted BY DEF Init, Accounted, Untouched
<1>4. Prose BY DEF Init, Prose, NoReq
<1> QED BY <1>1, <1>2, <1>3, <1>4 DEF IInv

\* Overtaking changes nothing else, and misses nobody who is reading.
LEMMA Overtaking ==
  ASSUME Shapes
  PROVE  /\ OvertakenRuns = [j \in Run |-> OvertakenRuns[j]]
         /\ OvertakenReqs = [r \in Request |-> OvertakenReqs[r]]
         /\ \A j \in Run :
              /\ RunShape(OvertakenRuns[j])
              /\ OvertakenRuns[j].at = run[j].at /\ OvertakenRuns[j].some = run[j].some
              /\ run[j].at \in Reading => OvertakenRuns[j].overtaken
         /\ \A r \in Request :
              /\ ReqShape(OvertakenReqs[r])
              /\ OvertakenReqs[r].at = req[r].at
              /\ OvertakenReqs[r].bypassed = req[r].bypassed
              /\ OvertakenReqs[r].narrative = req[r].narrative
              /\ req[r].at \in Reading => OvertakenReqs[r].overtaken
<1>1. /\ OvertakenRuns = [j \in Run |-> OvertakenRuns[j]]
      /\ OvertakenReqs = [r \in Request |-> OvertakenReqs[r]]
  BY DEF OvertakenRuns, OvertakenReqs
<1>2. ASSUME NEW j \in Run
      PROVE  /\ RunShape(OvertakenRuns[j])
             /\ OvertakenRuns[j].at = run[j].at /\ OvertakenRuns[j].some = run[j].some
             /\ run[j].at \in Reading => OvertakenRuns[j].overtaken
  <2>1. RunShape(run[j]) BY DEF Shapes
  <2>2. CASE run[j].at \in Reading
    <3>1. OvertakenRuns[j] = [run[j] EXCEPT !.overtaken = TRUE] BY <2>2 DEF OvertakenRuns
    <3> QED BY <2>1, <3>1 DEF RunShape
  <2>3. CASE run[j].at \notin Reading
    <3>1. OvertakenRuns[j] = run[j] BY <2>3 DEF OvertakenRuns
    <3> QED BY <2>1, <2>3, <3>1
  <2> QED BY <2>2, <2>3
<1>3. ASSUME NEW r \in Request
      PROVE  /\ ReqShape(OvertakenReqs[r])
             /\ OvertakenReqs[r].at = req[r].at
             /\ OvertakenReqs[r].bypassed = req[r].bypassed
             /\ OvertakenReqs[r].narrative = req[r].narrative
             /\ req[r].at \in Reading => OvertakenReqs[r].overtaken
  <2>1. ReqShape(req[r]) BY DEF Shapes
  <2>2. CASE req[r].at \in Reading
    <3>1. OvertakenReqs[r] = [req[r] EXCEPT !.overtaken = TRUE] BY <2>2 DEF OvertakenReqs
    <3> QED BY <2>1, <3>1 DEF ReqShape
  <2>3. CASE req[r].at \notin Reading
    <3>1. OvertakenReqs[r] = req[r] BY <2>3 DEF OvertakenReqs
    <3> QED BY <2>1, <2>3, <3>1
  <2> QED BY <2>2, <2>3
<1> QED BY <1>1, <1>2, <1>3

\* Being bypassed changes nothing else.
LEMMA Bypassing ==
  ASSUME Shapes, NEW n
  PROVE  /\ Bypassed(n) = [r \in Request |-> Bypassed(n)[r]]
         /\ \A r \in Request :
              /\ ReqShape(Bypassed(n)[r])
              /\ Bypassed(n)[r].at = req[r].at
              /\ Bypassed(n)[r].qs = req[r].qs
              /\ Bypassed(n)[r].figures = req[r].figures
              /\ Bypassed(n)[r].narrative = req[r].narrative
              /\ Bypassed(n)[r].overtaken = req[r].overtaken
              /\ req[r].at = "upsert" /\ ~Bypassed(n)[r].bypassed => req[r].narrative = n
<1>1. Bypassed(n) = [r \in Request |-> Bypassed(n)[r]] BY DEF Bypassed
<1>2. ASSUME NEW r \in Request
      PROVE  /\ ReqShape(Bypassed(n)[r])
             /\ Bypassed(n)[r].at = req[r].at
             /\ Bypassed(n)[r].qs = req[r].qs
             /\ Bypassed(n)[r].figures = req[r].figures
             /\ Bypassed(n)[r].narrative = req[r].narrative
             /\ Bypassed(n)[r].overtaken = req[r].overtaken
             /\ req[r].at = "upsert" /\ ~Bypassed(n)[r].bypassed => req[r].narrative = n
  <2>1. ReqShape(req[r]) BY DEF Shapes
  <2>2. CASE req[r].at = "upsert" /\ req[r].narrative # n
    <3>1. Bypassed(n)[r] = [req[r] EXCEPT !.bypassed = TRUE] BY <2>2 DEF Bypassed
    <3> QED BY <2>1, <2>2, <3>1 DEF ReqShape
  <2>3. CASE ~(req[r].at = "upsert" /\ req[r].narrative # n)
    <3>1. Bypassed(n)[r] = req[r] BY <2>3 DEF Bypassed
    <3> QED BY <2>1, <2>3, <3>1
  <2> QED BY <2>2, <2>3
<1> QED BY <1>1, <1>2

----------------------------------------------------------------------------
(* Requests, one action after another.                                     *)

LEMMA ChangeStep == ASSUME IInv, NEW r \in Request, Change(r) PROVE IInv'
<1> USE Overtaking DEF IInv
<1>1. PICK new : new = [NoReq EXCEPT !.at = "questions"] OBVIOUS
<1>2. run' = OvertakenRuns /\ req' = [OvertakenReqs EXCEPT ![r] = new]
  BY <1>1 DEF Change
<1>3. \A x \in Request : req'[x] = IF x = r THEN new ELSE OvertakenReqs[x]
  BY <1>2
<1>4. ReqShape(new) /\ new.at = "questions"
  BY <1>1, IdleShape DEF ReqShape
<1>5. Shapes'
  <2>1. \A x \in Request : ReqShape(req'[x]) BY <1>3, <1>4
  <2>2. req' = [x \in Request |-> req'[x]] BY <1>2
  <2>3. raced' = raced /\ neglected' = neglected BY DEF Change
  <2> QED BY <1>2, <2>1, <2>2, <2>3 DEF Shapes
<1>6. Reads'
  <2>1. ASSUME NEW j \in Run PROVE UpToDate(run[j])'
    BY <1>2 DEF UpToDate, Reading
  <2>2. ASSUME NEW x \in Request PROVE UpToDate(req[x])'
    BY <1>3, <1>4 DEF UpToDate, Reading
  <2> QED BY <2>1, <2>2 DEF Reads
<1>7. Accounted' BY <1>3, <1>4 DEF Accounted, Owes
<1>8. Prose'
  <2>1. summary' = summary BY DEF Change
  <2> QED BY <1>3, <1>4, <2>1 DEF Prose
<1> QED BY <1>5, <1>6, <1>7, <1>8

\* While the tables stay as they are, so does what they add up to.
LEMMA SameTables ==
  ASSUME row' = row, results' = results
  PROVE  /\ ListForReview' = ListForReview /\ Due' = Due /\ Untouched' = Untouched
         /\ LatestByAssessment' = LatestByAssessment
BY DEF ListForReview, LatestByAssessment, Due, Untouched

\* A request goes on from one statement to the next and writes nothing.
LEMMA RequestMoves ==
  ASSUME IInv, NEW r \in Request, NEW e,
         req' = [req EXCEPT ![r] = e], UNCHANGED <<tables, summary, run, raced, neglected>>,
         ReqShape(e), UpToDate(e), e.at # "idle",
         e.at = "upsert" /\ ~e.bypassed => e.narrative = summary.narrative
  PROVE  IInv'
<1> USE DEF IInv
<1>1. \A x \in Request : req'[x] = IF x = r THEN e ELSE req[x] BY DEF Shapes
<1>2. ListForReview' = ListForReview /\ Due' = Due BY SameTables DEF tables
<1>3. Shapes' BY <1>1 DEF Shapes
<1>4. Reads'
  <2>1. ASSUME NEW j \in Run PROVE UpToDate(run[j])' BY <1>2 DEF UpToDate, Reads
  <2>2. ASSUME NEW x \in Request PROVE UpToDate(req[x])' BY <1>1, <1>2 DEF UpToDate, Reads
  <2> QED BY <2>1, <2>2 DEF Reads
<1>5. Accounted' BY <1>1 DEF Accounted, Owes
<1>6. Prose' BY <1>1 DEF Prose
<1> QED BY <1>3, <1>4, <1>5, <1>6

LEMMA ReadQuestionsStep == ASSUME IInv, NEW r \in Request, ReadQuestions(r) PROVE IInv'
<1>1. PICK e : e = [req[r] EXCEPT !.at = "results", !.qs = ListForReview] OBVIOUS
<1>2. /\ req' = [req EXCEPT ![r] = e]
      /\ UNCHANGED <<tables, summary, run, raced, neglected>>
  BY <1>1 DEF ReadQuestions
<1>3. ReqShape(req[r]) BY DEF IInv, Shapes
<1>4. ReqShape(e) /\ e.at = "results" /\ e.qs = ListForReview BY <1>1, <1>3 DEF ReqShape
<1>5. UpToDate(e) BY <1>4 DEF UpToDate
<1> QED BY <1>2, <1>4, <1>5, RequestMoves

LEMMA ReadResultsStep == ASSUME IInv, NEW r \in Request, ReadResults(r) PROVE IInv'
<1>1. PICK f : f = Aggregate(req[r].qs, LatestByAssessment) OBVIOUS
<1>2. PICK e : e = [req[r] EXCEPT !.at = "existing", !.qs = <<>>, !.figures = f] OBVIOUS
<1>3. /\ req' = [req EXCEPT ![r] = e]
      /\ UNCHANGED <<tables, summary, run, raced, neglected>>
  BY <1>1, <1>2 DEF ReadResults
<1>4. ReqShape(req[r]) BY DEF IInv, Shapes
<1>5. ReqShape(e) /\ e.at = "existing" /\ e.figures = f /\ e.overtaken = req[r].overtaken
  BY <1>2, <1>4 DEF ReqShape
<1>6. UpToDate(e)
  <2>1. req[r].at = "results" /\ UpToDate(req[r]) BY DEF ReadResults, IInv, Reads
  <2>2. ~req[r].overtaken => f = Due BY <1>1, <2>1 DEF UpToDate, Due
  <2> QED BY <1>5, <2>2 DEF UpToDate
<1> QED BY <1>3, <1>5, <1>6, RequestMoves

LEMMA ReadExistingStep == ASSUME IInv, NEW r \in Request, ReadExisting(r) PROVE IInv'
<1>1. PICK e : e = [req[r] EXCEPT !.at = "upsert", !.run = summary.run,
                                  !.narrative = summary.narrative] OBVIOUS
<1>2. /\ req' = [req EXCEPT ![r] = e]
      /\ UNCHANGED <<tables, summary, run, raced, neglected>>
  BY <1>1 DEF ReadExisting
<1>3. ReqShape(req[r]) BY DEF IInv, Shapes
<1>4. /\ ReqShape(e) /\ e.at = "upsert" /\ e.figures = req[r].figures
      /\ e.overtaken = req[r].overtaken /\ e.narrative = summary.narrative
  BY <1>1, <1>3 DEF ReqShape
<1>5. UpToDate(e)
  <2>1. req[r].at = "existing" /\ UpToDate(req[r]) BY DEF ReadExisting, IInv, Reads
  <2> QED BY <1>4, <2>1 DEF UpToDate
<1> QED BY <1>2, <1>4, <1>5, RequestMoves

\* The row now holds what the tables add up to, unless its writer was overtaken.
LEMMA Upserted ==
  ASSUME NEW p, Upsert(p), UpToDate(p), p.at \in {"summarize", "upsert"},
         p.overtaken \in BOOLEAN, neglected \in BOOLEAN,
         row' = row, results' = results
  PROVE  Accounted' /\ raced' \in BOOLEAN /\ neglected' \in BOOLEAN /\ summary'.narrative = p.narrative
<1>1. /\ summary'.figures = p.figures /\ summary'.narrative = p.narrative
      /\ raced' = p.overtaken /\ neglected' \in BOOLEAN
  BY DEF Upsert
<1>2. Due' = Due BY SameTables
<1>3. CASE p.overtaken BY <1>1, <1>3 DEF Accounted
<1>4. CASE ~p.overtaken
  <2>1. p.figures = Due BY <1>4 DEF UpToDate
  <2>2. summary'.figures = Due' BY <1>1, <1>2, <2>1
  <2> QED BY <2>2, <1>1 DEF Accounted, Current, Due
<1> QED BY <1>1, <1>3, <1>4

LEMMA RecomputeStep == ASSUME IInv, NEW r \in Request, RecomputeSummary(r) PROVE IInv'
<1> USE DEF IInv
<1>1. PICK p : p = req[r] OBVIOUS
<1>2. /\ ReqShape(p) /\ UpToDate(p) /\ p.at = "upsert" /\ Upsert(p)
      /\ UNCHANGED <<row, results, run>> /\ req' = [Bypassed(p.narrative) EXCEPT ![r] = NoReq]
  BY <1>1 DEF RecomputeSummary, Shapes, Reads, tables
<1>3. /\ Accounted' /\ raced' \in BOOLEAN /\ neglected' \in BOOLEAN
      /\ summary'.narrative = p.narrative
  BY <1>2, Upserted DEF ReqShape, Shapes
<1>4. /\ Bypassed(p.narrative) = [x \in Request |-> Bypassed(p.narrative)[x]]
      /\ \A x \in Request :
              /\ ReqShape(Bypassed(p.narrative)[x])
              /\ Bypassed(p.narrative)[x].at = req[x].at
              /\ Bypassed(p.narrative)[x].qs = req[x].qs
              /\ Bypassed(p.narrative)[x].figures = req[x].figures
              /\ Bypassed(p.narrative)[x].narrative = req[x].narrative
              /\ Bypassed(p.narrative)[x].overtaken = req[x].overtaken
              /\ req[x].at = "upsert" /\ ~Bypassed(p.narrative)[x].bypassed
                   => req[x].narrative = p.narrative
  BY Bypassing
<1>5. PICK B : B = Bypassed(p.narrative) OBVIOUS
<1>6. \A x \in Request : req'[x] = IF x = r THEN NoReq ELSE B[x] BY <1>2, <1>4, <1>5
<1>7. Shapes'
  <2>1. req' = [x \in Request |-> req'[x]] BY <1>2, <1>4
  <2>2. \A x \in Request : ReqShape(req'[x]) BY <1>4, <1>5, <1>6, IdleShape
  <2> QED BY <1>2, <1>3, <2>1, <2>2 DEF Shapes
<1>8. Reads'
  <2>1. ListForReview' = ListForReview /\ Due' = Due BY <1>2, SameTables
  <2>2. ASSUME NEW j \in Run PROVE UpToDate(run[j])' BY <1>2, <2>1 DEF UpToDate, Reads
  <2>3. ASSUME NEW x \in Request PROVE UpToDate(req[x])'
    BY <1>4, <1>5, <1>6, <2>1, IdleShape DEF UpToDate, Reads
  <2> QED BY <2>2, <2>3 DEF Reads
<1>9. Prose' BY <1>3, <1>4, <1>5, <1>6, IdleShape DEF Prose
<1> QED BY <1>3, <1>7, <1>8, <1>9

LEMMA GiveUpStep == ASSUME IInv, NEW r \in Request, GiveUp(r) PROVE IInv'
<1> USE DEF IInv
<1>1. /\ req' = [req EXCEPT ![r] = NoReq] /\ neglected' = TRUE
      /\ UNCHANGED <<tables, summary, run, raced>>
  BY DEF GiveUp
<1>2. \A x \in Request : req'[x] = IF x = r THEN NoReq ELSE req[x] BY <1>1 DEF Shapes
<1>3. Shapes' BY <1>1, <1>2, IdleShape DEF Shapes
<1>4. Reads'
  <2>1. ListForReview' = ListForReview /\ Due' = Due BY <1>1, SameTables DEF tables
  <2>2. ASSUME NEW j \in Run PROVE UpToDate(run[j])' BY <1>1, <2>1 DEF UpToDate, Reads
  <2>3. ASSUME NEW x \in Request PROVE UpToDate(req[x])'
    BY <1>2, <2>1, IdleShape DEF UpToDate, Reads
  <2> QED BY <2>2, <2>3 DEF Reads
<1>5. Accounted' BY <1>1 DEF Accounted
<1>6. Prose' BY <1>1, <1>2, IdleShape DEF Prose
<1> QED BY <1>3, <1>4, <1>5, <1>6

LEMMA ConfirmMappingStep == ASSUME IInv, ConfirmMapping PROVE IInv'
<1> USE Overtaking DEF IInv
<1>1. /\ run' = OvertakenRuns /\ req' = OvertakenReqs /\ neglected' = TRUE
      /\ UNCHANGED <<summary, raced>>
  BY DEF ConfirmMapping
<1>2. Shapes' BY <1>1 DEF Shapes
<1>3. Reads'
  <2>1. ASSUME NEW j \in Run PROVE UpToDate(run[j])' BY <1>1 DEF UpToDate, Reading
  <2>2. ASSUME NEW x \in Request PROVE UpToDate(req[x])' BY <1>1 DEF UpToDate, Reading
  <2> QED BY <2>1, <2>2 DEF Reads
<1>4. Accounted' BY <1>1 DEF Accounted
<1>5. Prose' BY <1>1 DEF Prose
<1> QED BY <1>2, <1>3, <1>4, <1>5

----------------------------------------------------------------------------
(* Runs, one action after another.                                         *)

\* A run with something kept owes a summary.
OwesIt(e) == e.at \notin {"none", "done"} /\ e.some

\* A run goes on, or ends, and writes nothing; a summary it owed is owed still, or
\* has been neglected.
LEMMA RunMoves ==
  ASSUME IInv, NEW j \in Run, NEW e,
         run' = [run EXCEPT ![j] = e], UNCHANGED <<row, results, summary, req, raced>>,
         neglected' \in BOOLEAN, neglected => neglected',
         RunShape(e), UpToDate(e), OwesIt(run[j]) => neglected' \/ OwesIt(e)
  PROVE  IInv'
<1> USE DEF IInv
<1>1. \A x \in Run : run'[x] = IF x = j THEN e ELSE run[x] BY DEF Shapes
<1>2. /\ ListForReview' = ListForReview /\ Due' = Due
      /\ Untouched' = Untouched
  BY SameTables
<1>3. Shapes' BY <1>1 DEF Shapes
<1>4. Reads'
  <2>1. ASSUME NEW r \in Request PROVE UpToDate(req[r])' BY <1>2 DEF UpToDate, Reads
  <2>2. ASSUME NEW x \in Run PROVE UpToDate(run[x])' BY <1>1, <1>2 DEF UpToDate, Reads
  <2> QED BY <2>1, <2>2 DEF Reads
<1>5. Accounted'
  <2>1. Current' <=> Current BY <1>2 DEF Current, Due
  <2>2. CASE raced \/ neglected BY <2>2 DEF Accounted
  <2>3. CASE Owes
    <3>1. CASE \E r \in Request : req[r].at # "idle" BY <3>1 DEF Accounted, Owes
    <3>2. CASE \E x \in Run : OwesIt(run[x])
      BY <1>1, <3>2 DEF Accounted, Owes, OwesIt
    <3> QED BY <2>3, <3>1, <3>2 DEF Owes, OwesIt
  <2>4. CASE Current \/ (summary = NoSummary /\ Untouched)
    BY <1>2, <2>1, <2>4 DEF Accounted
  <2> QED BY <2>2, <2>3, <2>4 DEF Accounted
<1>6. Prose' BY DEF Prose
<1> QED BY <1>3, <1>4, <1>5, <1>6

LEMMA NewRunShape == RunShape(NoRun)
BY DEF RunShape, NoRun

LEMMA OverShape == ASSUME NEW j PROVE RunShape(Over(j)) /\ Over(j).at = "done"
<1>1. Over(j) = [NoRun EXCEPT !.at = "done"] BY DEF Over
<1> QED BY <1>1, NewRunShape DEF RunShape

LEMMA LoadStep == ASSUME IInv, NEW j \in Run, Load(j) PROVE IInv'
<1>1. PICK qs : run' = [run EXCEPT ![j] =
          [NoRun EXCEPT !.at = IF qs = <<>> THEN "done" ELSE "review",
                        !.mapping = mapping, !.todo = Chunks(qs, BatchSize)]]
  BY Zenon DEF Load
<1>2. PICK at, m, todo : /\ at = (IF qs = <<>> THEN "done" ELSE "review")
                         /\ m = mapping /\ todo = Chunks(qs, BatchSize)
  OBVIOUS
<1>3. PICK e : e = [NoRun EXCEPT !.at = at, !.mapping = m, !.todo = todo] OBVIOUS
<1>4. run' = [run EXCEPT ![j] = e] BY <1>1, <1>2, <1>3, Zenon
<1>5. RunShape(e) /\ e.at \in {"done", "review"}
  <2>1. at \in {"done", "review"} BY <1>2
  <2> QED BY <1>3, <2>1, NewRunShape DEF RunShape
<1>6. ~OwesIt(run[j]) /\ UNCHANGED <<row, results, summary, req, raced, neglected>>
  BY DEF Load, tables, OwesIt
<1>7. neglected \in BOOLEAN BY DEF IInv, Shapes
<1>8. UpToDate(e) BY <1>5 DEF UpToDate
<1> QED BY <1>4, <1>5, <1>6, <1>7, <1>8, RunMoves

LEMMA NoResultsStep == ASSUME IInv, NEW j \in Run, NoResults(j) PROVE IInv'
<1>1. PICK e : e = Over(j) OBVIOUS
<1>2. RunShape(e) /\ e.at = "done" BY <1>1, OverShape
<1>3. UpToDate(e) BY <1>2 DEF UpToDate
<1>4. neglected \in BOOLEAN BY DEF IInv, Shapes
<1> QED BY <1>1, <1>2, <1>3, <1>4, RunMoves DEF NoResults, OwesIt, tables

LEMMA RunReadsQuestionsStep == ASSUME IInv, NEW j \in Run, RunReadsQuestions(j) PROVE IInv'
<1>1. PICK e : e = [run[j] EXCEPT !.at = "results", !.qs = ListForReview, !.met = {}] OBVIOUS
<1>2. RunShape(run[j]) /\ run[j].some BY DEF IInv, Shapes, RunReadsQuestions
<1>3. RunShape(e) /\ e.at = "results" /\ e.qs = ListForReview /\ e.some
  BY <1>1, <1>2 DEF RunShape
<1>4. UpToDate(e) /\ OwesIt(e) BY <1>3 DEF UpToDate, OwesIt
<1>5. neglected \in BOOLEAN BY DEF IInv, Shapes
<1> QED BY <1>1, <1>3, <1>4, <1>5, RunMoves DEF RunReadsQuestions, tables

LEMMA RunReadsResultsStep == ASSUME IInv, NEW j \in Run, RunReadsResults(j) PROVE IInv'
<1>1. PICK f : f = Aggregate(run[j].qs, LatestByAssessment) OBVIOUS
<1>2. PICK e : e = [run[j] EXCEPT !.at = "summarize", !.qs = <<>>, !.figures = f] OBVIOUS
<1>3. /\ RunShape(run[j]) /\ UpToDate(run[j]) /\ run[j].at = "results"
      /\ run' = [run EXCEPT ![j] = e]
      /\ UNCHANGED <<row, results, summary, req, raced, neglected>>
  BY <1>1, <1>2 DEF IInv, Shapes, Reads, RunReadsResults, tables
<1>4. /\ RunShape(e) /\ e.at = "summarize" /\ e.figures = f /\ e.some = run[j].some
      /\ e.overtaken = run[j].overtaken
  BY <1>2, <1>3 DEF RunShape
<1>5. UpToDate(e)
  <2>1. ~run[j].overtaken => f = Due BY <1>1, <1>3 DEF UpToDate, Due
  <2> QED BY <1>4, <2>1 DEF UpToDate
<1>6. OwesIt(run[j]) => OwesIt(e) BY <1>4 DEF OwesIt
<1>7. neglected \in BOOLEAN BY DEF IInv, Shapes
<1> QED BY <1>3, <1>4, <1>5, <1>6, <1>7, RunMoves

LEMMA StopStep == ASSUME IInv, NEW j \in Run, Stop(j) PROVE IInv'
<1>1. PICK e : e = Over(j) OBVIOUS
<1>2. RunShape(e) /\ e.at = "done" BY <1>1, OverShape
<1>3. UpToDate(e) BY <1>2 DEF UpToDate
<1>4. neglected \in BOOLEAN /\ run[j].some \in BOOLEAN BY DEF IInv, Shapes, RunShape
<1> QED BY <1>1, <1>2, <1>3, <1>4, RunMoves DEF Stop, OwesIt, tables

LEMMA CrashStep == ASSUME IInv, NEW j \in Run, Crash(j) PROVE IInv'
<1>1. PICK e : e = NoRun OBVIOUS
<1>2. RunShape(e) /\ e.at = "none" BY <1>1, NewRunShape DEF NoRun
<1>3. UpToDate(e) BY <1>2 DEF UpToDate
<1>4. neglected \in BOOLEAN /\ run[j].some \in BOOLEAN BY DEF IInv, Shapes, RunShape
<1> QED BY <1>1, <1>2, <1>3, <1>4, RunMoves DEF Crash, OwesIt, tables

LEMMA BuildSummaryStep == ASSUME IInv, NEW j \in Run, BuildSummary(j) PROVE IInv'
<1> USE DEF IInv
<1>1. PICK n \in {j, None} :
        /\ Upsert([run |-> j, narrative |-> n, figures |-> run[j].figures,
                   overtaken |-> run[j].overtaken])
        /\ req' = Bypassed(n)
  BY DEF BuildSummary
<1>2. PICK p : p = [run |-> j, narrative |-> n, figures |-> run[j].figures,
                    overtaken |-> run[j].overtaken, at |-> "summarize"] OBVIOUS
<1>3. /\ RunShape(run[j]) /\ UpToDate(run[j]) /\ run[j].at = "summarize"
      /\ run' = [run EXCEPT ![j] = Over(j)] /\ UNCHANGED <<row, results>>
  BY DEF BuildSummary, Shapes, Reads, tables
<1>4. Upsert(p) /\ UpToDate(p) /\ p.overtaken \in BOOLEAN /\ p.at = "summarize" /\ p.narrative = n
  BY <1>1, <1>2, <1>3 DEF Upsert, UpToDate, RunShape
<1>5. Accounted' /\ raced' \in BOOLEAN /\ neglected' \in BOOLEAN /\ summary'.narrative = n
  BY <1>3, <1>4, Upserted DEF Shapes
<1>6. PICK B : B = Bypassed(n) OBVIOUS
<1>7. /\ B = [x \in Request |-> B[x]]
      /\ \A x \in Request :
           /\ ReqShape(B[x]) /\ B[x].at = req[x].at /\ B[x].qs = req[x].qs
           /\ B[x].figures = req[x].figures /\ B[x].narrative = req[x].narrative
           /\ B[x].overtaken = req[x].overtaken
           /\ req[x].at = "upsert" /\ ~B[x].bypassed => req[x].narrative = n
  BY <1>6, Bypassing
<1>8. \A x \in Run : run'[x] = IF x = j THEN Over(j) ELSE run[x] BY <1>3 DEF Shapes
<1>9. Shapes' BY <1>1, <1>3, <1>5, <1>6, <1>7, <1>8, OverShape DEF Shapes
<1>10. Reads'
  <2>1. ListForReview' = ListForReview /\ Due' = Due BY <1>3, SameTables
  <2>2. ASSUME NEW x \in Run PROVE UpToDate(run[x])'
    BY <1>8, <2>1, OverShape DEF UpToDate, Reads
  <2>3. ASSUME NEW x \in Request PROVE UpToDate(req[x])'
    BY <1>1, <1>6, <1>7, <2>1 DEF UpToDate, Reads
  <2> QED BY <2>2, <2>3 DEF Reads
<1>11. Prose' BY <1>1, <1>5, <1>6, <1>7 DEF Prose
<1> QED BY <1>5, <1>9, <1>10, <1>11

\* Meeting a run that stores its results changes no more than being overtaken.
LEMMA Meeting ==
  ASSUME Shapes, NEW j, NEW Q
  PROVE  /\ MeetRuns(j, Q) = [i \in Run |-> MeetRuns(j, Q)[i]]
         /\ \A i \in Run :
              /\ RunShape(MeetRuns(j, Q)[i])
              /\ MeetRuns(j, Q)[i].at = run[i].at /\ MeetRuns(j, Q)[i].some = run[i].some
              /\ run[i].at \in Reading => MeetRuns(j, Q)[i].overtaken
<1>1. MeetRuns(j, Q) = [i \in Run |-> MeetRuns(j, Q)[i]] BY DEF MeetRuns
<1>2. ASSUME NEW i \in Run
      PROVE  /\ RunShape(MeetRuns(j, Q)[i])
             /\ MeetRuns(j, Q)[i].at = run[i].at /\ MeetRuns(j, Q)[i].some = run[i].some
             /\ run[i].at \in Reading => MeetRuns(j, Q)[i].overtaken
  <2>1. CASE run[i].at = "review" /\ run[i].todo # <<>>
    <3>1. PICK met : met = run[i].met \cup ({j} \X Q) OBVIOUS
    <3>2. MeetRuns(j, Q)[i] = [run[i] EXCEPT !.met = met] BY <2>1, <3>1 DEF MeetRuns
    <3>3. RunShape(run[i]) BY DEF Shapes
    <3> QED BY <2>1, <3>2, <3>3 DEF RunShape, Reading
  <2>2. CASE ~(run[i].at = "review" /\ run[i].todo # <<>>)
    <3>1. MeetRuns(j, Q)[i] = OvertakenRuns[i] BY <2>2 DEF MeetRuns
    <3> QED BY <3>1, Overtaking
  <2> QED BY <2>1, <2>2
<1> QED BY <1>1, <1>2

\* What a chunk comes to: nothing, a transaction, or the end of the run.
LEMMA ChunkOutcomes ==
  ASSUME NEW j \in Run, ReviewChunk(j)
  PROVE  /\ run[j].at = "review" /\ UNCHANGED <<summary, raced>>
         /\ \/ /\ run' = [run EXCEPT ![j].todo = Tail(@), ![j].met = {}]
               /\ UNCHANGED <<row, results, req, neglected>>
            \/ /\ \E Q : run' = [MeetRuns(j, Q) EXCEPT
                     ![j] = [run[j] EXCEPT !.todo = Tail(@), !.some = TRUE, !.met = {}]]
               /\ req' = OvertakenReqs /\ UNCHANGED neglected
            \/ /\ run' = [run EXCEPT ![j] = Over(j)]
               /\ neglected' = (neglected \/ run[j].some)
               /\ UNCHANGED <<row, results, req>>
BY Zenon DEF ReviewChunk

LEMMA ReviewChunkStep == ASSUME IInv, NEW j \in Run, ReviewChunk(j) PROVE IInv'
<1> USE DEF IInv
<1>1. run[j].at = "review" /\ UNCHANGED <<summary, raced>> BY ChunkOutcomes
<1>2. RunShape(run[j]) /\ neglected \in BOOLEAN /\ run[j].some \in BOOLEAN
  BY DEF Shapes, RunShape
<1>3. CASE /\ run' = [run EXCEPT ![j].todo = Tail(@), ![j].met = {}]
           /\ UNCHANGED <<row, results, req, neglected>>
  <2>1. PICK e : e = [run[j] EXCEPT !.todo = Tail(@), !.met = {}] OBVIOUS
  <2>2. RunShape(e) /\ e.at = "review" /\ e.some = run[j].some BY <1>1, <1>2, <2>1 DEF RunShape
  <2>3. UpToDate(e) /\ (OwesIt(run[j]) => OwesIt(e)) BY <2>2 DEF UpToDate, OwesIt
  <2>4. run' = [run EXCEPT ![j] = e] BY <1>3, <2>1
  <2> QED BY <1>1, <1>2, <1>3, <2>2, <2>3, <2>4, RunMoves
<1>4. CASE /\ \E Q : run' = [MeetRuns(j, Q) EXCEPT
                  ![j] = [run[j] EXCEPT !.todo = Tail(@), !.some = TRUE, !.met = {}]]
           /\ req' = OvertakenReqs /\ UNCHANGED neglected
  <2> USE Overtaking
  <2>1. PICK e : e = [run[j] EXCEPT !.todo = Tail(@), !.some = TRUE, !.met = {}] OBVIOUS
  <2>2. RunShape(e) /\ e.at = "review" /\ e.some BY <1>1, <1>2, <2>1 DEF RunShape
  <2>3. PICK Q : run' = [MeetRuns(j, Q) EXCEPT ![j] = e] BY <1>4, <2>1
  <2>4. PICK M : M = MeetRuns(j, Q) OBVIOUS
  <2>5. /\ M = [x \in Run |-> M[x]]
        /\ \A x \in Run : /\ RunShape(M[x]) /\ M[x].at = run[x].at
                          /\ run[x].at \in Reading => M[x].overtaken
    BY <2>4, Meeting
  <2>6. \A x \in Run : run'[x] = IF x = j THEN e ELSE M[x] BY <2>3, <2>4, <2>5
  <2>7. Shapes'
    <3>1. run' = [x \in Run |-> run'[x]] BY <2>3, <2>4, <2>5
    <3>2. \A x \in Run : RunShape(run'[x]) BY <2>2, <2>5, <2>6
    <3> QED BY <1>1, <1>4, <3>1, <3>2 DEF Shapes
  <2>8. Reads'
    <3>1. ASSUME NEW x \in Run PROVE UpToDate(run[x])' BY <2>2, <2>5, <2>6 DEF UpToDate, Reading
    <3>2. ASSUME NEW x \in Request PROVE UpToDate(req[x])' BY <1>4 DEF UpToDate, Reading
    <3> QED BY <3>1, <3>2 DEF Reads
  <2>9. Accounted' BY <2>2, <2>6 DEF Accounted, Owes
  <2>10. Prose' BY <1>1, <1>4 DEF Prose
  <2> QED BY <2>7, <2>8, <2>9, <2>10
<1>5. CASE /\ run' = [run EXCEPT ![j] = Over(j)] /\ neglected' = (neglected \/ run[j].some)
           /\ UNCHANGED <<row, results, req>>
  <2>1. PICK e : e = Over(j) OBVIOUS
  <2>2. RunShape(e) /\ e.at = "done" BY <2>1, OverShape
  <2>3. UpToDate(e) BY <2>2 DEF UpToDate
  <2>4. OwesIt(run[j]) => neglected' BY <1>2, <1>5 DEF OwesIt
  <2> QED BY <1>1, <1>2, <1>5, <2>1, <2>2, <2>3, <2>4, RunMoves
<1> QED BY <1>3, <1>4, <1>5, ChunkOutcomes

----------------------------------------------------------------------------
(* The theorems.                                                           *)

LEMMA IInvStep == IInv /\ [Next]_vars => IInv'
<1> SUFFICES ASSUME IInv, [Next]_vars PROVE IInv' OBVIOUS
<1>1. CASE UNCHANGED vars
  BY <1>1, SameTables
  DEF vars, IInv, Shapes, Reads, Accounted, Prose, UpToDate, Owes, Current, Due
<1>2. ASSUME NEW r \in Request, RequestStep(r) PROVE IInv'
  BY <1>2, ChangeStep, ReadQuestionsStep, ReadResultsStep, ReadExistingStep, RecomputeStep,
     GiveUpStep DEF RequestStep
<1>3. ASSUME NEW j \in Run, RunStep(j) PROVE IInv'
  BY <1>3, LoadStep, ReviewChunkStep, NoResultsStep, RunReadsQuestionsStep,
     RunReadsResultsStep, BuildSummaryStep, StopStep, CrashStep DEF RunStep
<1> QED BY <1>1, <1>2, <1>3, ConfirmMappingStep DEF Next

LEMMA AlwaysIInv == Spec => []IInv
BY InitIInv, IInvStep, PTL DEF Spec

\* The figures on record: whatever the order of the statements of any number of
\* requests and runs, once all is quiet the summary is what the tables add up to,
\* unless its last writer was overtaken or a change was never followed up.
THEOREM FiguresAreCurrent == Spec => []SummaryIsCurrent
<1>1. IInv => SummaryIsCurrent
  <2> SUFFICES ASSUME IInv, Quiet, ~raced, ~neglected
               PROVE  Current \/ (summary = NoSummary /\ Untouched)
    BY DEF SummaryIsCurrent
  <2>1. ~Owes BY DEF Quiet, Owes
  <2> QED BY <2>1 DEF IInv, Accounted
<1> QED BY <1>1, AlwaysIInv, PTL

\* The narrative on record changes by the run the row then names, or by a request that was bypassed.
THEOREM RecomputingKeepsTheProse == Spec => NarrativeIsTheRuns
<1> DEFINE Theirs ==
      summary'.narrative # summary.narrative =>
       \/ \E j \in Run : run[j].at = "summarize" /\ run'[j].at = "done" /\ summary'.run = j
       \/ \E r \in Request : req[r].at = "upsert" /\ req'[r].at = "idle" /\ req[r].bypassed
<1>1. ASSUME IInv, [Next]_vars PROVE [Theirs]_vars
  <2> SUFFICES ASSUME summary'.narrative # summary.narrative
               PROVE  \/ \E j \in Run :
                           run[j].at = "summarize" /\ run'[j].at = "done" /\ summary'.run = j
                      \/ \E r \in Request :
                           req[r].at = "upsert" /\ req'[r].at = "idle" /\ req[r].bypassed
    OBVIOUS
  <2>1. summary' # summary OBVIOUS
  <2>2. \/ \E r \in Request : RecomputeSummary(r)
        \/ \E j \in Run : BuildSummary(j)
    BY <1>1, <2>1
    DEF Next, RequestStep, RunStep, vars, Change, ReadQuestions, ReadResults, ReadExisting,
        GiveUp, ConfirmMapping, Load, ReviewChunk, NoResults, RunReadsQuestions,
        RunReadsResults, Stop, Crash
  <2>3. ASSUME NEW r \in Request, RecomputeSummary(r)
        PROVE  req[r].at = "upsert" /\ req'[r].at = "idle" /\ req[r].bypassed
    <3>1. req[r].at = "upsert" /\ summary'.narrative = req[r].narrative
      BY <2>3 DEF RecomputeSummary, Upsert
    <3>2. req[r].bypassed BY <1>1, <3>1 DEF IInv, Prose
    <3>3. req'[r] = NoReq BY <2>3 DEF RecomputeSummary, Bypassed
    <3> QED BY <3>1, <3>2, <3>3, IdleShape
  <2>4. ASSUME NEW j \in Run, BuildSummary(j)
        PROVE  run[j].at = "summarize" /\ run'[j].at = "done" /\ summary'.run = j
    <3>1. run'[j] = Over(j) BY <1>1, <2>4 DEF BuildSummary, IInv, Shapes
    <3>2. summary'.run = j BY <2>4 DEF BuildSummary, Upsert
    <3> QED BY <2>4, <3>1, <3>2, OverShape DEF BuildSummary
  <2> QED BY <2>2, <2>3, <2>4
<1> QED BY <1>1, AlwaysIInv, PTL DEF Spec, NarrativeIsTheRuns

----------------------------------------------------------------------------
(* The rows of review_results.                                             *)

\* A row as it is stored.
Result == [run : Run, score : Scale, flags : Nat,
           completeness : {"complete", "partial", "missing", "non_responsive", "unknown"}]

\* Every row is on the scale, whatever a provider answered.
ResultsOnTheScale == results \in [Question -> Seq(Result)]

Rows == ResultsOnTheScale /\ OneResultPerRun

LEMMA StoredIsResult ==
  ASSUME NEW j \in Run, NEW x \in Reply
  PROVE  Stored(j, x) \in Result /\ Stored(j, x).run = j
<1>1. /\ x.score \in Int /\ x.flags \in Nat /\ x.completeness \in STRING
  BY ReplyAssumption
<1>2. PICK e : e = [run |-> j, score |-> x.score, flags |-> x.flags,
                    completeness |-> x.completeness] OBVIOUS
<1>3. e \in [run : Run, score : Int, flags : Nat, completeness : STRING] /\ e.run = j
  BY <1>1, <1>2
<1>4. PICK c, s : c = e.completeness /\ s = e.score OBVIOUS
<1>5. PICK clamped : clamped = ClampRiskScore(s) OBVIOUS
<1>6. PICK kept : kept = IF ValidCompleteness(c) THEN c ELSE "unknown" OBVIOUS
<1>7. clamped \in Scale
  BY <1>3, <1>4, <1>5 DEF ClampRiskScore, Scale, RiskMin, RiskMax
<1>8. kept \in {"complete", "partial", "missing", "non_responsive", "unknown"}
  BY <1>6 DEF ValidCompleteness, Incomplete
<1>9. Stored(j, x) = [e EXCEPT !.score = clamped, !.completeness = kept]
  BY <1>2, <1>4, <1>5, <1>6, Zenon DEF Stored, NormalizeResult
<1> QED BY <1>3, <1>7, <1>8, <1>9 DEF Result

\* A sequence without its i-th element.
LEMMA Removing ==
  ASSUME NEW S, NEW s \in Seq(S), NEW i \in DOMAIN s
  PROVE  /\ RemoveAt(s, i) \in Seq(S) /\ Len(RemoveAt(s, i)) = Len(s) - 1
         /\ \A k \in DOMAIN RemoveAt(s, i) :
              /\ RemoveAt(s, i)[k] = s[IF k < i THEN k ELSE k + 1]
              /\ (IF k < i THEN k ELSE k + 1) \in DOMAIN s
<1> DEFINE a == SubSeq(s, 1, i - 1)
           b == SubSeq(s, i + 1, Len(s))
<1>1. i \in 1 .. Len(s) OBVIOUS
<1>2. /\ a \in Seq(S) /\ Len(a) = i - 1
      /\ \A k \in 1 .. i - 1 : a[k] = s[k]
  BY <1>1, SubSeqProperties
<1>3. /\ b \in Seq(S) /\ Len(b) = Len(s) - i
      /\ \A k \in 1 .. Len(s) - i : b[k] = s[k + i]
  BY <1>1, SubSeqProperties
<1>4. RemoveAt(s, i) = a \o b BY DEF RemoveAt
<1> HIDE DEF a, b
<1>5. a \o b \in Seq(S) /\ Len(a \o b) = Len(s) - 1 BY <1>1, <1>2, <1>3
<1>6. ASSUME NEW k \in DOMAIN (a \o b)
      PROVE  /\ (a \o b)[k] = s[IF k < i THEN k ELSE k + 1]
             /\ (IF k < i THEN k ELSE k + 1) \in DOMAIN s
  <2>1. k \in 1 .. Len(s) - 1 BY <1>5
  <2>2. CASE k < i BY <1>1, <1>2, <1>3, <2>1, <2>2
  <2>3. CASE ~(k < i)
    <3>1. (a \o b)[k] = b[k - (i - 1)] BY <1>1, <1>2, <1>3, <2>1, <2>3
    <3>2. k - (i - 1) \in 1 .. Len(s) - i BY <1>1, <2>1, <2>3
    <3>3. b[k - (i - 1)] = s[k - (i - 1) + i] BY <1>3, <3>2
    <3>4. k - (i - 1) + i = k + 1 /\ k + 1 \in 1 .. Len(s) BY <1>1, <2>1, <2>3
    <3> QED BY <1>1, <2>3, <3>1, <3>3, <3>4
  <2> QED BY <2>2, <2>3
<1> QED BY <1>4, <1>5, <1>6

\* A sequence with an element before its i-th.
LEMMA Placing ==
  ASSUME NEW S, NEW s \in Seq(S), NEW e \in S, NEW i \in 1 .. Len(s) + 1
  PROVE  /\ InsertAt(s, i, e) \in Seq(S)
         /\ \A k \in DOMAIN InsertAt(s, i, e) :
              /\ k \in Nat
              /\ InsertAt(s, i, e)[k] = IF k = i THEN e ELSE s[IF k < i THEN k ELSE k - 1]
              /\ k # i => (IF k < i THEN k ELSE k - 1) \in DOMAIN s
<1>0. PICK n \in Nat : n = Len(s) /\ DOMAIN s = 1 .. n OBVIOUS
<1>1. i \in Nat /\ 1 <= i /\ i <= n + 1 BY <1>0
<1> DEFINE a == SubSeq(s, 1, i - 1)
           b == SubSeq(s, i, Len(s))
<1>2. a \in Seq(S) /\ Len(a) = i - 1 /\ \A k \in 1 .. i - 1 : a[k] = s[k]
  BY <1>0, <1>1, SubSeqProperties
<1>3. b \in Seq(S) /\ Len(b) = n - i + 1 /\ \A k \in 1 .. n - i + 1 : b[k] = s[k + i - 1]
  BY <1>0, <1>1, SubSeqProperties
<1>4. InsertAt(s, i, e) = a \o <<e>> \o b BY DEF InsertAt
<1> HIDE DEF a, b
<1>5. PICK c : c = a \o <<e>> OBVIOUS
<1>6. /\ c \in Seq(S) /\ Len(c) = i /\ c[i] = e /\ \A k \in 1 .. i - 1 : c[k] = s[k]
  BY <1>1, <1>2, <1>5
<1>7. PICK t : t = c \o b OBVIOUS
<1>8. /\ t \in Seq(S) /\ Len(t) = n + 1 /\ \A k \in 1 .. i : t[k] = c[k]
      /\ \A k \in i + 1 .. n + 1 : t[k] = b[k - i]
  <2>1. PICK m \in Nat : m = Len(b) /\ m = n - i + 1 BY <1>1, <1>3
  <2>2. t \in Seq(S) /\ Len(t) = i + m
    <3>1. Len(c \o b) = Len(c) + Len(b) /\ c \o b \in Seq(S) BY <1>3, <1>6, ConcatProperties
    <3> QED BY <1>6, <1>7, <2>1, <3>1
  <2>3. \A k \in 1 .. i + m : t[k] = IF k <= i THEN c[k] ELSE b[k - i]
    <3>1. \A k \in 1 .. Len(c) + Len(b) : (c \o b)[k] = IF k <= Len(c) THEN c[k] ELSE b[k - Len(c)]
      BY <1>3, <1>6, ConcatProperties
    <3> QED BY <1>6, <1>7, <2>1, <3>1
  <2>4. i + m = n + 1 BY <1>1, <2>1
  <2> QED BY <1>1, <2>2, <2>3, <2>4
<1>9. ASSUME NEW k \in DOMAIN t
      PROVE  /\ k \in Nat /\ t[k] = IF k = i THEN e ELSE s[IF k < i THEN k ELSE k - 1]
             /\ k # i => (IF k < i THEN k ELSE k - 1) \in DOMAIN s
  <2>1. k \in Nat /\ 1 <= k /\ k <= n + 1 BY <1>8
  <2>2. CASE k < i
    <3>1. t[k] = c[k] /\ c[k] = s[k] BY <1>1, <1>6, <1>8, <2>1, <2>2
    <3> QED BY <1>0, <1>1, <2>1, <2>2, <3>1
  <2>3. CASE k = i BY <1>1, <1>6, <1>8, <2>1, <2>3
  <2>4. CASE k > i
    <3>1. k \in i + 1 .. n + 1 /\ k - i \in 1 .. n - i + 1 BY <1>1, <2>1, <2>4
    <3>2. t[k] = b[k - i] /\ b[k - i] = s[k - i + i - 1] BY <1>3, <1>8, <3>1
    <3>3. k - i + i - 1 = k - 1 /\ k - 1 \in 1 .. n BY <1>1, <2>1, <2>4
    <3> QED BY <1>0, <1>1, <2>1, <2>4, <3>2, <3>3
  <2> QED BY <1>1, <2>1, <2>2, <2>3, <2>4
<1> QED BY <1>4, <1>5, <1>7, <1>8, <1>9

\* What is inserted, wherever it is placed, replaces the row of the same run.
LEMMA Inserting ==
  ASSUME Rows, NEW q \in Question, NEW new \in Result,
         NEW place \in 1 .. Len(OfOthers(q, new.run)) + 1
  PROVE  /\ BulkCreate(q, new, place) \in Seq(Result)
         /\ \A i, k \in DOMAIN BulkCreate(q, new, place) :
              BulkCreate(q, new, place)[i].run = BulkCreate(q, new, place)[k].run => i = k
<1> DEFINE same == {i \in DOMAIN results[q] : results[q][i].run = new.run}
           old == IF same = {} THEN results[q] ELSE RemoveAt(results[q], CHOOSE i \in same : TRUE)
<1>1. results[q] \in Seq(Result) BY DEF Rows, ResultsOnTheScale
<1>2. \A i, k \in DOMAIN results[q] : results[q][i].run = results[q][k].run => i = k
  BY DEF Rows, OneResultPerRun
<1>3. /\ old \in Seq(Result)
      /\ \A i \in DOMAIN old : old[i].run # new.run
      /\ \A i, k \in DOMAIN old : old[i].run = old[k].run => i = k
  <2>1. CASE same = {} BY <1>1, <1>2, <2>1
  <2>2. CASE same # {}
    <3>1. PICK m : m = CHOOSE i \in same : TRUE OBVIOUS
    <3>2. m \in same BY <2>2, <3>1
    <3>3. m \in DOMAIN results[q] /\ results[q][m].run = new.run BY <3>2
    <3>4. old = RemoveAt(results[q], m) BY <2>2, <3>1
    <3> HIDE DEF old, same
    <3>5. /\ old \in Seq(Result)
          /\ \A k \in DOMAIN old : /\ old[k] = results[q][IF k < m THEN k ELSE k + 1]
                                   /\ (IF k < m THEN k ELSE k + 1) \in DOMAIN results[q]
      BY <1>1, <3>3, <3>4, Removing
    <3>6. m \in Nat /\ \A k \in DOMAIN old : k \in Nat BY <1>1, <3>3, <3>5
    <3> DEFINE from(k) == IF k < m THEN k ELSE k + 1
    <3>7. \A k \in DOMAIN old : from(k) # m BY <3>6
    <3>8. \A i, k \in DOMAIN old : from(i) = from(k) => i = k BY <3>6
    <3>9. \A k \in DOMAIN old : from(k) \in DOMAIN results[q] /\ old[k] = results[q][from(k)]
      BY <3>5
    <3> HIDE DEF from
    <3>10. \A k \in DOMAIN old : old[k].run # new.run BY <1>2, <3>3, <3>7, <3>9
    <3>11. \A i, k \in DOMAIN old : old[i].run = old[k].run => i = k BY <1>2, <3>8, <3>9
    <3> QED BY <3>5, <3>10, <3>11
  <2> QED BY <2>1, <2>2
<1>4. old = OfOthers(q, new.run) /\ BulkCreate(q, new, place) = InsertAt(old, place, new)
  BY DEF BulkCreate, OfOthers
<1> HIDE DEF old
<1>5. PICK t : t = InsertAt(old, place, new) OBVIOUS
<1>6. /\ t \in Seq(Result)
      /\ \A k \in DOMAIN t :
           /\ k \in Nat
           /\ t[k] = IF k = place THEN new ELSE old[IF k < place THEN k ELSE k - 1]
           /\ k # place => (IF k < place THEN k ELSE k - 1) \in DOMAIN old
  BY <1>3, <1>4, <1>5, Placing
<1>7. place \in Nat /\ new \in Result BY <1>3, <1>4
<1>8. ASSUME NEW i \in DOMAIN t, NEW k \in DOMAIN t, t[i].run = t[k].run PROVE i = k
  <2>1. CASE i = place \/ k = place BY <1>3, <1>6, <1>8, <2>1
  <2>2. CASE i # place /\ k # place
    <3>1. PICK x, y \in DOMAIN old : /\ x = (IF i < place THEN i ELSE i - 1) /\ t[i] = old[x]
                                     /\ y = (IF k < place THEN k ELSE k - 1) /\ t[k] = old[y]
      BY <1>6, <2>2
    <3>2. x = y BY <1>3, <1>8, <3>1
    <3> QED BY <1>6, <1>7, <2>2, <3>1, <3>2
  <2> QED BY <2>1, <2>2
<1> QED BY <1>4, <1>5, <1>6, <1>8

\* A transaction stores a result of the run for some questions, and nothing else does.
LEMMA ChunkRows ==
  ASSUME NEW j \in Run, ReviewChunk(j), results' # results
  PROVE  \E got, place :
           /\ \A q \in DOMAIN got : got[q] \in Result /\ place[q] \in Places(q, got[q].run)
           /\ results' = [q \in Question |->
                IF q \in DOMAIN got THEN BulkCreate(q, got[q], place[q]) ELSE results[q]]
<1> DEFINE chunk == Head(run[j].todo)
           ids == {chunk[i].id : i \in DOMAIN chunk}
           Replies == [ids -> Reply \cup {NoReply}]
           said(b, s) == ReviewChunkReplies(chunk, b, s)
           kept(b, s) == {i \in DOMAIN chunk : said(b, s)[i] # NoReply}
           got(b, s) == [q \in {chunk[i].id : i \in kept(b, s)} |->
             Stored(j, said(b, s)[CHOOSE i \in kept(b, s) : chunk[i].id = q])]
<1>1. \E b, s \in Replies : UNCHANGED results \/ StoreResults(j, got(b, s))
  BY Zenon DEF ReviewChunk
<1>2. PICK b \in Replies, s \in Replies : UNCHANGED results \/ StoreResults(j, got(b, s))
  BY <1>1
<1>3. PICK place :
        /\ \A q \in DOMAIN got(b, s) : place[q] \in Places(q, j)
        /\ results' = [q \in Question |->
             IF q \in DOMAIN got(b, s) THEN BulkCreate(q, got(b, s)[q], place[q]) ELSE results[q]]
  <2> HIDE DEF got, Replies
  <2> QED BY <1>2, Zenon DEF StoreResults
<1>4. \A i \in kept(b, s) : said(b, s)[i] \in Reply
  BY DEF ReviewChunkReplies, Settle
<1>5. \A q \in DOMAIN got(b, s) : got(b, s)[q] \in Result /\ got(b, s)[q].run = j
  <2> SUFFICES ASSUME NEW q \in DOMAIN got(b, s)
               PROVE  got(b, s)[q] \in Result /\ got(b, s)[q].run = j OBVIOUS
  <2>1. PICK i : i = CHOOSE x \in kept(b, s) : chunk[x].id = q OBVIOUS
  <2>2. \E x \in kept(b, s) : chunk[x].id = q OBVIOUS
  <2>3. i \in kept(b, s) BY <2>1, <2>2
  <2>4. got(b, s)[q] = Stored(j, said(b, s)[i]) BY <2>1
  <2> QED BY <1>4, <2>3, <2>4, StoredIsResult
<1>6. PICK g : g = got(b, s) OBVIOUS
<1> HIDE DEF got
<1> QED BY <1>3, <1>5, <1>6

LEMMA InitRows == Init => Rows
BY DEF Init, Rows, ResultsOnTheScale, OneResultPerRun

LEMMA RowsStep == Rows /\ [Next]_vars => Rows'
<1> SUFFICES ASSUME Rows, [Next]_vars PROVE Rows' OBVIOUS
<1>1. CASE results' = results BY <1>1 DEF Rows, ResultsOnTheScale, OneResultPerRun
<1>2. CASE ConfirmMapping
  BY <1>2 DEF ConfirmMapping, Rows, ResultsOnTheScale, OneResultPerRun
<1>3. ASSUME NEW j \in Run, ReviewChunk(j), results' # results PROVE Rows'
  <2>1. PICK got, place :
          /\ \A q \in DOMAIN got : got[q] \in Result /\ place[q] \in Places(q, got[q].run)
          /\ results' = [q \in Question |->
               IF q \in DOMAIN got THEN BulkCreate(q, got[q], place[q]) ELSE results[q]]
    BY <1>3, ChunkRows
  <2>2. ASSUME NEW q \in Question
        PROVE  /\ results'[q] \in Seq(Result)
               /\ \A i, k \in DOMAIN results'[q] : results'[q][i].run = results'[q][k].run => i = k
    <3>1. CASE q \in DOMAIN got
      <4>1. PICK new, at : new = got[q] /\ at = place[q] OBVIOUS
      <4>2. new \in Result /\ results'[q] = BulkCreate(q, new, at) BY <2>1, <3>1, <4>1
      <4>3. at \in 1 .. Len(OfOthers(q, new.run)) + 1 BY <2>1, <3>1, <4>1 DEF Places
      <4>4. PICK t : t = BulkCreate(q, new, at) OBVIOUS
      <4>5. t \in Seq(Result) /\ \A i, k \in DOMAIN t : t[i].run = t[k].run => i = k
        BY <4>2, <4>3, <4>4, Inserting
      <4> QED BY <4>2, <4>4, <4>5
    <3>2. CASE q \notin DOMAIN got
      BY <2>1, <3>2 DEF Rows, ResultsOnTheScale, OneResultPerRun
    <3> QED BY <3>1, <3>2
  <2>3. results' = [q \in Question |-> results'[q]] BY <2>1
  <2> QED BY <2>2, <2>3 DEF Rows, ResultsOnTheScale, OneResultPerRun
<1>4. results' = results \/ ConfirmMapping \/ \E j \in Run : ReviewChunk(j)
  BY DEF Next, RequestStep, RunStep, vars, tables, Change, ReadQuestions, ReadResults,
     ReadExisting, RecomputeSummary, GiveUp, Load, NoResults, RunReadsQuestions,
     RunReadsResults, BuildSummary, Stop, Crash
<1> QED BY <1>1, <1>2, <1>3, <1>4

\* However often a job is repeated, a question keeps one result of each run.
THEOREM OneRowPerRun == Spec => []OneResultPerRun
<1>1. Rows => OneResultPerRun BY DEF Rows
<1> QED BY <1>1, InitRows, RowsStep, PTL DEF Spec

\* Whatever the providers reply, what is stored is a score of the scale and a known
\* completeness.
THEOREM StoredOnTheScale == Spec => []ResultsOnTheScale
<1>1. Rows => ResultsOnTheScale BY DEF Rows
<1> QED BY <1>1, InitRows, RowsStep, PTL DEF Spec
=============================================================================
