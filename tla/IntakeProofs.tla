---------------------------- MODULE IntakeProofs ----------------------------
(***************************************************************************)
(* Theorems about Intake.                                                  *)
(*                                                                         *)
(* What leaves the program as signed was signed: the question rows and the *)
(* ghost of what people stood by agree through every mapping, draft,       *)
(* signature, reopening and returned answer.                               *)
(*                                                                         *)
(* The mapping page says where each question belongs: an invariant of the  *)
(* loop over a sheet's rows (Known), carried down the sheet, gives what    *)
(* DetectSections returns (Settled), and the page keeps to it (Pages).     *)
(* What is confirmed is what the page showed (Synced), and a returned      *)
(* answer lands on the question it was shown beside (Paired, Offered).     *)
(*                                                                         *)
(* What AutoMap pairs is the best there is: it goes down an order of all   *)
(* pairs (BestPaired). An exported workbook is read back as it was: where  *)
(* each line is laid out (Laid), what the sheet then holds (Reread), and   *)
(* that its questions fall under their own headings (Spaced, Filed), since *)
(* what is stored, sent and returned says texts only (Worded).             *)
(* A returned row finds its own text because rows of a text are no more    *)
(* than its questions, and each has taken one of them (OneIsFree).         *)
(***************************************************************************)
EXTENDS Intake, OrdersProofs

\* A row of table questions.
IsRow(q) ==
  \E id, row, position, values, domain, draft, final, status :
    q = [id |-> id, row |-> row, position |-> position, values |-> values, domain |-> domain,
         draft |-> draft, final |-> final, status |-> status]

\* A signed row holds the text a person stands by.
StandsBy(q, by) == q.status = "finalized" => q.final # Blank /\ by[q.id] = q.final

\* Ids are told apart, and every question's signature is on record.
Rows == /\ \A q \in questions : IsRow(q)
        /\ \A p, q \in questions : p.id = q.id => p = q
        /\ signed = [id \in Ids |-> signed[id]]
        /\ \A q \in questions : StandsBy(q, signed)

-----------------------------------------------------------------------------
\* What is written in place.
Texted(q, text, st)  == [q EXCEPT !.final = text, !.status = st]
Drafted(q, text, st) == [q EXCEPT !.draft = text, !.status = st]
Moved(q, st)         == [q EXCEPT !.status = st]
Revised(q, text, st) == [q EXCEPT !.values.answer = text, !.status = st]

\* A row like q, with this text and status.
Becomes(new, q, final, st) == IsRow(new) /\ new.id = q.id /\ new.final = final /\ new.status = st

\* A statement writes the columns it names of one row, and no others.
LEMMA Rewritten ==
  ASSUME NEW q, IsRow(q), NEW text, NEW st
  PROVE  /\ Becomes(Texted(q, text, st), q, text, st)
         /\ Becomes(Drafted(q, text, st), q, q.final, st)
         /\ Becomes(Moved(q, st), q, q.final, st)
         /\ Becomes(Revised(q, text, st), q, q.final, st)
<1>1. PICK id, row, position, values, domain, draft, final, status :
        q = [id |-> id, row |-> row, position |-> position, values |-> values, domain |-> domain,
             draft |-> draft, final |-> final, status |-> status]
  BY DEF IsRow
<1> DEFINE Row(v, a, f, s) ==
      [id |-> id, row |-> row, position |-> position, values |-> v, domain |-> domain,
       draft |-> a, final |-> f, status |-> s]
<1>2. \A v, a, f, s : /\ IsRow(Row(v, a, f, s)) /\ Row(v, a, f, s).id = id
                      /\ Row(v, a, f, s).final = f /\ Row(v, a, f, s).status = s
  <2> TAKE v, a, f, s
  <2>1. \E x : x = Row(v, a, f, s) OBVIOUS
  <2>2. IsRow(Row(v, a, f, s)) BY Zenon DEF IsRow
  <2> QED BY <2>2
<1>3. q.id = id /\ q.final = final BY <1>1
<1>4. [q EXCEPT !.final = text, !.status = st] = Row(values, draft, text, st)
  <2>1. PICK r : r = [q EXCEPT !.final = text] OBVIOUS
  <2>2. r = Row(values, draft, text, status) BY <1>1, <2>1
  <2>3. [q EXCEPT !.final = text, !.status = st] = [r EXCEPT !.status = st] BY <2>1
  <2> QED BY <2>2, <2>3
<1>5. [q EXCEPT !.draft = text, !.status = st] = Row(values, text, final, st)
  <2>1. PICK r : r = [q EXCEPT !.draft = text] OBVIOUS
  <2>2. r = Row(values, text, final, status) BY <1>1, <2>1
  <2>3. [q EXCEPT !.draft = text, !.status = st] = [r EXCEPT !.status = st] BY <2>1
  <2> QED BY <2>2, <2>3
<1>6. [q EXCEPT !.status = st] = Row(values, draft, final, st) BY <1>1
<1>7. PICK v : v = [values EXCEPT !.answer = text] OBVIOUS
<1>8. [q EXCEPT !.values.answer = text, !.status = st] = Row(v, draft, final, st)
  <2>1. PICK r : r = [q EXCEPT !.values.answer = text] OBVIOUS
  <2>2. r = Row(v, draft, final, status) BY <1>1, <1>7, <2>1
  <2>3. [q EXCEPT !.values.answer = text, !.status = st] = [r EXCEPT !.status = st] BY <2>1
  <2> QED BY <2>2, <2>3
<1> HIDE DEF Row
<1>9. /\ Becomes(Row(values, draft, text, st), q, text, st)
      /\ Becomes(Row(values, text, final, st), q, final, st)
      /\ Becomes(Row(values, draft, final, st), q, final, st)
      /\ Becomes(Row(v, draft, final, st), q, final, st)
  BY <1>2, <1>3 DEF Becomes
<1> QED BY <1>3, <1>4, <1>5, <1>6, <1>8, <1>9 DEF Texted, Drafted, Moved, Revised

\* The question an id stands for.
LEMMA ById ==
  ASSUME Rows
  PROVE  /\ \A id \in Ids : Question(id) \in questions /\ Question(id).id = id
         /\ \A q \in questions : q.id \in Ids /\ Question(q.id) = q
<1>1. ASSUME NEW id \in Ids PROVE Question(id) \in questions /\ Question(id).id = id
  <2>1. \E q \in questions : q.id = id BY DEF Ids
  <2> QED BY <2>1 DEF Question
<1>2. ASSUME NEW q \in questions PROVE q.id \in Ids /\ Question(q.id) = q
  <2>1. q.id \in Ids BY DEF Ids
  <2> QED BY <1>1, <2>1 DEF Rows
<1> QED BY <1>1, <1>2

\* No question is stored at first.
LEMMA InitRows == Init => Rows
BY DEF Init, Rows, Ids

\* Statements that write other tables, or pages of the browser.
LEMMA OtherTables ==
  ASSUME Rows, UNCHANGED <<questions, signed>>
  PROVE  Rows'
BY DEF Rows, Ids, StandsBy

\* What a mapping stores is not signed, and its ids are its places in the file.
LEMMA IngestRows ==
  ASSUME Rows, NEW grid, NEW bound, NEW override, Ingest(grid, bound, override)
  PROVE  Rows'
<1> DEFINE rows == QuestionRows(DetectSections(grid.rows, page.header, bound).rows)
           dom(i) == IF rows[i].index \in DOMAIN override THEN override[rows[i].index] ELSE rows[i].domain
           New(i) == [id |-> <<mapped + 1, i>>, row |-> rows[i].index, position |-> i,
                      values |-> rows[i].values, domain |-> dom(i), draft |-> rows[i].values.feedback,
                      final |-> Blank, status |-> "pending"]
<1>1. Apply(grid.rows, page.header, bound, override) = {Ingested(rows[i], i, dom(i)) : i \in DOMAIN rows}
  BY Zenon DEF Apply, IngestAll
<1>2. questions' = {[q EXCEPT !.id = <<mapped + 1, q.position>>] :
                      q \in Apply(grid.rows, page.header, bound, override)}
  BY Zenon DEF Ingest
<1>3. signed' = [id \in {q.id : q \in questions'} |-> Blank] BY Zenon DEF Ingest
<1> HIDE DEF rows, dom
<1>4. \A i : [Ingested(rows[i], i, dom(i)) EXCEPT !.id = <<mapped + 1, Ingested(rows[i], i, dom(i)).position>>]
             = New(i)
  BY DEF Ingested
<1>5. ASSUME NEW q \in questions' PROVE \E i \in DOMAIN rows : q = New(i)
  <2>1. PICK x \in Apply(grid.rows, page.header, bound, override) :
          q = [x EXCEPT !.id = <<mapped + 1, x.position>>]
    BY <1>2, Zenon
  <2>2. PICK i \in DOMAIN rows : x = Ingested(rows[i], i, dom(i)) BY <1>1, <2>1, Zenon
  <2>3. q = New(i) BY <1>4, <2>1, <2>2
  <2> QED BY <2>3
<1>6. \A i : /\ IsRow(New(i)) /\ New(i).id = <<mapped + 1, i>> /\ New(i).status = "pending"
  BY DEF IsRow
<1> HIDE DEF New
<1>7. \A q \in questions' : IsRow(q) /\ q.status = "pending" BY <1>5, <1>6
<1>8. ASSUME NEW p \in questions', NEW q \in questions', p.id = q.id PROVE p = q
  <2>1. PICK i \in DOMAIN rows : p = New(i) BY <1>5
  <2>2. PICK k \in DOMAIN rows : q = New(k) BY <1>5
  <2>3. <<mapped + 1, i>> = <<mapped + 1, k>> BY <1>6, <1>8, <2>1, <2>2
  <2>4. i = k BY <2>3
  <2> QED BY <2>1, <2>2, <2>4
<1>9. signed' = [id \in Ids' |-> signed'[id]] BY <1>3 DEF Ids
<1>10. \A q \in questions' : StandsBy(q, signed') BY <1>7 DEF StandsBy
<1> QED BY <1>7, <1>8, <1>9, <1>10 DEF Rows

\* A row written in place: its id is what it was, the others are as they were.
LEMMA OneRow ==
  ASSUME Rows, NEW id \in Ids, NEW new, IsRow(new), new.id = id, Rewrite(id, new),
         signed' = [signed EXCEPT ![id] = signed'[id]], StandsBy(new, signed')
  PROVE  Rows'
<1>1. Question(id) \in questions /\ Question(id).id = id /\ \A q \in questions : Question(q.id) = q
  BY ById
<1>2. questions' = (questions \ {Question(id)}) \cup {new} BY DEF Rewrite
<1>3. ASSUME NEW q \in questions', q # new
      PROVE  q \in questions /\ q.id # id /\ signed'[q.id] = signed[q.id]
  <2>1. q \in questions /\ q # Question(id) BY <1>2, <1>3
  <2>2. q.id # id BY <1>1, <2>1
  <2>3. q.id \in Ids BY <2>1 DEF Ids
  <2> QED BY <2>1, <2>2, <2>3 DEF Rows
<1>4. \A q \in questions' : IsRow(q) BY <1>3 DEF Rows
<1>5. \A p, q \in questions' : p.id = q.id => p = q BY <1>3 DEF Rows
<1>6. Ids' = Ids
  <2>1. \A x \in Ids' : x \in Ids BY <1>3 DEF Ids
  <2>2. ASSUME NEW x \in Ids PROVE x \in Ids'
    <3>1. Question(x) \in questions /\ Question(x).id = x BY ById
    <3>2. CASE x = id BY <1>2, <3>2 DEF Ids
    <3>3. CASE x # id
      <4>1. Question(x) \in questions' BY <1>1, <1>2, <3>1, <3>3
      <4> QED BY <3>1, <4>1 DEF Ids
    <3> QED BY <3>2, <3>3
  <2> QED BY <2>1, <2>2
<1>7. signed' = [x \in Ids' |-> signed'[x]] BY <1>6 DEF Rows
<1>8. \A q \in questions' : StandsBy(q, signed') BY <1>3 DEF Rows, StandsBy
<1> QED BY <1>4, <1>5, <1>7, <1>8 DEF Rows

\* A person's signature, and its withdrawal.
LEMMA SignedRow ==
  ASSUME Rows, NEW id \in Ids, NEW text, Finalize(id, text)
  PROVE  Rows'
<1>1. Question(id) \in questions /\ Question(id).id = id BY ById
<1>2. IsRow(Question(id)) BY <1>1 DEF Rows
<1> DEFINE new == Texted(Question(id), text, "finalized")
<1>3. IsRow(new) /\ new.id = id /\ new.final = text
  <2>1. Becomes(new, Question(id), text, "finalized") BY <1>2, Rewritten
  <2> QED BY <1>1, <2>1 DEF Becomes
<1>4. Rewrite(id, new) /\ signed' = [signed EXCEPT ![id] = text] /\ text # Blank
  BY DEF Finalize, Texted
<1>5. signed'[id] = text BY <1>4 DEF Rows
<1> HIDE DEF new
<1>6. StandsBy(new, signed') BY <1>3, <1>4, <1>5 DEF StandsBy
<1> QED BY <1>3, <1>4, <1>5, <1>6, OneRow

\* A signature withdrawn leaves the question open, and its signature off the record.
LEMMA OpenedRow ==
  ASSUME Rows, NEW id \in Ids, Unfinalize(id)
  PROVE  Rows'
<1>1. Question(id) \in questions /\ Question(id).id = id BY ById
<1>2. IsRow(Question(id)) BY <1>1 DEF Rows
<1>3. PICK st : st = IF Question(id).draft = Blank THEN "pending" ELSE "ai_drafted" OBVIOUS
<1>4. st # "finalized" BY <1>3
<1> DEFINE new == Moved(Question(id), st)
<1>5. IsRow(new) /\ new.id = id /\ new.status = st
  <2>1. Becomes(new, Question(id), Question(id).final, st) BY <1>2, Rewritten
  <2> QED BY <1>1, <2>1 DEF Becomes
<1>6. Rewrite(id, new) /\ signed' = [signed EXCEPT ![id] = Blank]
  BY <1>3 DEF Unfinalize, Moved
<1>7. signed'[id] = Blank BY <1>6 DEF Rows
<1> HIDE DEF new
<1>8. StandsBy(new, signed') BY <1>4, <1>5 DEF StandsBy
<1> QED BY <1>5, <1>6, <1>7, <1>8, OneRow

-----------------------------------------------------------------------------
(* Statements that write every row.                                        *)

\* Every question gets a new row, with its id and the text that was signed, if any.
LEMMA EveryRow ==
  ASSUME Rows, NEW new, questions' = {new[q] : q \in questions},
         \A q \in questions : IsRow(new[q]) /\ new[q].id = q.id /\ StandsBy(new[q], signed'),
         signed' = [id \in Ids |-> signed'[id]]
  PROVE  Rows'
<1>1. \A p \in questions' : \E q \in questions : p = new[q] /\ p.id = q.id /\ IsRow(p) /\ StandsBy(p, signed')
  OBVIOUS
<1>2. \A p, q \in questions' : p.id = q.id => p = q BY <1>1 DEF Rows
<1>3. Ids' = Ids
  <2>1. \A x \in Ids' : x \in Ids BY <1>1 DEF Ids
  <2>2. ASSUME NEW x \in Ids PROVE x \in Ids'
    <3>1. PICK q \in questions : q.id = x BY DEF Ids
    <3>2. new[q] \in questions' /\ new[q].id = x BY <3>1
    <3> QED BY <3>2 DEF Ids
  <2> QED BY <2>1, <2>2
<1>4. signed' = [id \in Ids' |-> signed'[id]] BY <1>3
<1> QED BY <1>1, <1>2, <1>4 DEF Rows

\* A draft is written to signed rows too, beside what was signed.
LEMMA DraftedRows ==
  ASSUME Rows, ApplyDraft
  PROVE  Rows'
<1> DEFINE New(q) == [q EXCEPT !.draft = Said, !.status = IF @ = "finalized" THEN @ ELSE "ai_drafted"]
<1>1. questions' = {New(q) : q \in questions} /\ signed' = signed BY DEF ApplyDraft
<1>2. ASSUME NEW q \in questions PROVE IsRow(New(q)) /\ New(q).id = q.id /\ StandsBy(New(q), signed')
  <2>1. IsRow(q) /\ StandsBy(q, signed) BY DEF Rows
  <2>2. PICK st : st = IF q.status = "finalized" THEN q.status ELSE "ai_drafted" OBVIOUS
  <2>3. New(q) = Drafted(q, Said, st) BY <2>2 DEF Drafted
  <2>4. Becomes(New(q), q, q.final, st) BY <2>1, <2>3, Rewritten
  <2>5. st = "finalized" => q.status = "finalized" BY <2>2
  <2> HIDE DEF New
  <2> QED BY <1>1, <2>1, <2>4, <2>5 DEF StandsBy, Becomes
<1> HIDE DEF New
<1>3. signed' = [id \in Ids |-> signed'[id]] BY <1>1 DEF Rows
<1>4. PICK new : new = [q \in questions |-> New(q)] OBVIOUS
<1>5. \A q \in questions : new[q] = New(q) BY <1>4
<1>6. questions' = {new[q] : q \in questions} BY <1>1, <1>5
<1> QED BY <1>2, <1>3, <1>5, <1>6, EveryRow

\* A revised answer opens its question, and its alone.
LEMMA RevisedRows ==
  ASSUME Rows, NEW ids, ApplyAnswerRevisions(ids)
  PROVE  Rows'
<1> DEFINE new(id) == (CHOOSE row \in ToSet(returned.rows) : row.id = id).answer
           hit(q)  == q.id \in ids /\ new(q.id) # Blank /\ new(q.id) # q.values.answer
           New(q)  == IF hit(q) THEN ReviseAnswer(q, new(q.id)) ELSE q
<1>1. /\ questions' = {New(q) : q \in questions}
      /\ signed' = [id \in Ids |-> IF hit(Question(id)) THEN Blank ELSE signed[id]]
  BY Zenon DEF ApplyAnswerRevisions
<1> HIDE DEF new, hit
<1>2. ASSUME NEW q \in questions PROVE IsRow(New(q)) /\ New(q).id = q.id /\ StandsBy(New(q), signed')
  <2>1. IsRow(q) /\ StandsBy(q, signed) /\ q.id \in Ids /\ Question(q.id) = q BY ById DEF Rows
  <2>2. CASE hit(q)
    <3>1. PICK text : text = new(q.id) OBVIOUS
    <3>2. New(q) = Revised(q, text, "pending") BY <2>2, <3>1 DEF ReviseAnswer, Revised
    <3>3. Becomes(New(q), q, q.final, "pending") BY <2>1, <3>2, Rewritten
    <3> QED BY <3>3 DEF StandsBy, Becomes
  <2>3. CASE ~hit(q)
    <3>1. New(q) = q BY <2>3
    <3>2. signed'[q.id] = signed[q.id] BY <1>1, <2>1, <2>3
    <3> QED BY <2>1, <3>1, <3>2 DEF StandsBy
  <2> QED BY <2>2, <2>3
<1> HIDE DEF New
<1>3. signed' = [id \in Ids |-> signed'[id]] BY <1>1
<1>4. PICK row : row = [q \in questions |-> New(q)] OBVIOUS
<1>5. \A q \in questions : row[q] = New(q) BY <1>4
<1>6. questions' = {row[q] : q \in questions} BY <1>1, <1>5
<1> QED BY <1>2, <1>3, <1>5, <1>6, EveryRow

\* Whatever the step, ids stay apart and signatures on record.
LEMMA NextRows == Rows /\ [Next]_vars => Rows'
<1> SUFFICES ASSUME Rows, [Next]_vars PROVE Rows' OBVIOUS
<1>1. CASE UNCHANGED <<questions, signed>> BY <1>1, OtherTables
<1>2. CASE MapStep
  <2>1. ASSUME NEW sheet, MappingPage(sheet) PROVE UNCHANGED <<questions, signed>>
    BY <2>1, Zenon DEF MappingPage
  <2>2. ASSUME NEW c, NEW f, RepreviewMapping(c, f) PROVE UNCHANGED <<questions, signed>>
    BY <2>2, Zenon DEF RepreviewMapping
  <2>3. ASSUME NEW r, NEW d, ConfirmMapping(r, d) PROVE Rows'
    BY <2>3, IngestRows DEF ConfirmMapping
  <2> QED BY <1>1, <1>2, <2>1, <2>2, <2>3, Zenon DEF MapStep
<1>3. CASE SignOffStep
  <2>1. CASE ApplyDraft BY <2>1, DraftedRows
  <2>2. CASE \E id \in Ids : Finalize(id, Own) \/ Finalize(id, Question(id).draft) \/ Unfinalize(id)
    BY <2>2, SignedRow, OpenedRow
  <2> QED BY <1>3, <2>1, <2>2 DEF SignOffStep
<1>4. CASE ReturnStep
  <2>1. CASE Export BY <1>1, <2>1, Zenon DEF Export
  <2>2. CASE UploadAnswerRevisions BY <1>1, <2>2, Zenon DEF UploadAnswerRevisions
  <2>3. CASE Upload BY <2>3 DEF Upload, Rows, Ids
  <2>4. CASE \E ids \in SUBSET Checked : ApplyAnswerRevisions(ids) BY <2>4, RevisedRows, Zenon
  <2> QED BY <1>4, <2>1, <2>2, <2>3, <2>4, Zenon DEF ReturnStep
<1>5. CASE UNCHANGED vars BY <1>1, <1>5 DEF vars
<1> QED BY <1>2, <1>3, <1>4, <1>5 DEF Next

-----------------------------------------------------------------------------
\* Whatever people map, sign, open again, export and bring back, no text leaves as signed
\* off, or unmarked in the workbook, but the one a person stands by.
THEOREM NothingPassesAsSigned == Spec => []UnsignedIsMarked
<1>1. ASSUME Rows PROVE UnsignedIsMarked
  <2> SUFFICES ASSUME NEW q \in questions
               PROVE  /\ CSVLine(q).state = "signed off" =>
                           signed[q.id] # Blank /\ CSVLine(q).feedback = signed[q.id]
                      /\ ShownFeedback(q) # Blank =>
                           ShownFeedback(q) \in {signed[q.id], Marked[EffectiveFeedback(q).text]}
    BY DEF UnsignedIsMarked
  <2>1. StandsBy(q, signed) BY <1>1 DEF Rows
  <2>2. CASE q.status = "finalized"
    <3>1. q.final # Blank /\ signed[q.id] = q.final BY <2>1, <2>2 DEF StandsBy
    <3>2. EffectiveFeedback(q).text = q.final /\ ~EffectiveFeedback(q).unconfirmed
      BY <2>2, <3>1 DEF EffectiveFeedback
    <3>3. CSVLine(q).feedback = q.final BY <3>2 DEF CSVLine
    <3>4. ShownFeedback(q) = q.final BY <3>2 DEF ShownFeedback
    <3> QED BY <3>1, <3>3, <3>4
  <2>3. CASE q.status # "finalized"
    <3>1. EffectiveFeedback(q).unconfirmed BY <2>3 DEF EffectiveFeedback
    <3>2. PICK text : text = EffectiveFeedback(q).text OBVIOUS
    <3>3. CSVLine(q).state # "signed off"
      <4>1. CASE text = Blank
        <5>1. CSVLine(q).state = "not reviewed" BY <2>3, <3>2, <4>1 DEF CSVLine
        <5> QED BY <5>1
      <4>2. CASE text # Blank
        <5>1. CSVLine(q).state = "unconfirmed" BY <2>3, <3>2, <4>2 DEF CSVLine
        <5> QED BY <5>1
      <4> QED BY <4>1, <4>2
    <3>4. ShownFeedback(q) # Blank => ShownFeedback(q) = Marked[text]
      BY <3>1, <3>2 DEF ShownFeedback
    <3> QED BY <3>2, <3>3, <3>4
  <2> QED BY <2>2, <2>3
<1> QED BY <1>1, InitRows, NextRows, PTL DEF Spec

(***************************************************************************)
(* Grids                                                                   *)
(***************************************************************************)
\* Rows of one width.
IsGrid(g) == \E X : \E w \in Nat : g \in Seq([1 .. w -> X])

\* Lists of cells.
IsBook(book) ==
  /\ \E n \in Nat : book.sheets = [i \in 1 .. n |-> book.sheets[i]]
  /\ \E X : \A i \in DOMAIN book.sheets : book.sheets[i].rows \in Seq(Seq(X))

\* Rows of any widths come out as wide as the widest.
LEMMA NormalGrid ==
  ASSUME NEW X, NEW rows \in Seq(Seq(X))
  PROVE  IsGrid(NormalizeRows(rows))
<1> DEFINE wide == {0} \cup {Len(rows[r]) : r \in DOMAIN rows}
           used == {0} \cup {r \in DOMAIN rows : ~IsBlankRow(rows[r])}
<1>1. PICK n \in Nat : n = Len(rows) /\ DOMAIN rows = 1 .. n OBVIOUS
<1>2. \A r \in 1 .. n : Len(rows[r]) \in Nat BY <1>1
<1>3. Max(wide) \in Nat
  <2>1. PICK f : f = [r \in 1 .. n |-> Len(rows[r])] OBVIOUS
  <2>2. \A r \in 1 .. n : f[r] \in Nat BY <1>2, <2>1
  <2>3. PICK b \in Nat : \A r \in 1 .. n : f[r] <= b BY <2>2, Bounded
  <2>4. \A r \in 1 .. n : Len(rows[r]) <= b BY <2>1, <2>3
  <2>5. wide \in SUBSET Nat /\ wide # {} /\ \A x \in wide : x <= b BY <1>1, <1>2, <2>4
  <2> HIDE DEF wide
  <2> QED BY <2>5, MaxIs
<1>4. Max(used) \in Nat
  <2>1. used \in SUBSET Nat /\ used # {} /\ \A r \in used : r <= n BY <1>1
  <2> HIDE DEF used
  <2>2. Max(used) \in used BY <1>1, <2>1, MaxIs
  <2> QED BY <2>1, <2>2
<1>11. PICK w \in Nat : w = Max(wide) BY <1>3
<1>12. PICK l \in Nat : l = Max(used) BY <1>4
<1>5. PICK C : C = [r \in 1 .. l |-> [c \in 1 .. w |-> Cell(rows, r, c)]] OBVIOUS
<1>6. NormalizeRows(rows) = C BY <1>5, <1>11, <1>12 DEF NormalizeRows
<1>7. PICK Y : Y = UNION {{C[r][c] : c \in 1 .. w} : r \in 1 .. l} OBVIOUS
<1>8. \A r \in 1 .. l : C[r] \in [1 .. w -> Y]
  <2> TAKE r \in 1 .. l
  <2>1. \A c \in 1 .. w : C[r][c] \in Y BY <1>7
  <2>2. C[r] = [c \in 1 .. w |-> Cell(rows, r, c)] BY <1>5
  <2> QED BY <2>1, <2>2
<1>9. C \in [1 .. l -> [1 .. w -> Y]] BY <1>5, <1>8
<1>10. C \in Seq([1 .. w -> Y]) BY <1>9
<1> QED BY <1>6, <1>10 DEF IsGrid

\* A merged region's value changes cells, not the shape.
LEMMA MergedGrid ==
  ASSUME NEW sheet, NEW g, IsGrid(g)
  PROVE  IsGrid(ExpandMerged(sheet, g))
<1>1. PICK X : \E w \in Nat : g \in Seq([1 .. w -> X]) BY DEF IsGrid
<1>9. PICK w \in Nat : g \in Seq([1 .. w -> X]) BY <1>1
<1>2. PICK n \in Nat : n = Len(g) /\ g \in [1 .. n -> [1 .. w -> X]] BY <1>9
<1> DEFINE value(m)  == Cell(sheet.rows, m.top, m.left)
           over(r, c) == {m \in sheet.merged : /\ r \in m.top .. m.bottom /\ c \in m.left .. m.right
                                               /\ value(m) # Blank}
           shown(r, c) == IF g[r][c] = Blank /\ over(r, c) # {} THEN value(CHOOSE m \in over(r, c) : TRUE)
                          ELSE g[r][c]
           h == ExpandMerged(sheet, g)
<1>10. h = [r \in DOMAIN g |-> [c \in DOMAIN g[r] |-> shown(r, c)]] BY Zenon DEF ExpandMerged
<1> HIDE DEF h, shown
<1>3. DOMAIN h = 1 .. n /\ \A r \in 1 .. n : DOMAIN h[r] = 1 .. w /\ h[r] = [c \in 1 .. w |-> h[r][c]]
  BY <1>2, <1>10
<1>4. h = [r \in 1 .. n |-> h[r]] BY <1>2, <1>10
<1>5. PICK Y : Y = UNION {{h[r][c] : c \in 1 .. w} : r \in 1 .. n} OBVIOUS
<1>6. \A r \in 1 .. n : h[r] \in [1 .. w -> Y]
  <2> TAKE r \in 1 .. n
  <2>1. \A c \in 1 .. w : h[r][c] \in Y BY <1>5
  <2> QED BY <1>3, <2>1
<1>7. h \in [1 .. n -> [1 .. w -> Y]] BY <1>4, <1>6
<1>8. h \in Seq([1 .. w -> Y]) BY <1>7
<1> QED BY <1>8 DEF IsGrid, h

\* A file without rows is a grid.
LEMMA EmptyGrid == IsGrid(<<>>)
<1>1. <<>> \in Seq([1 .. 0 -> {}]) OBVIOUS
<1> QED BY <1>1 DEF IsGrid

\* The worksheet named, the fullest, or delimited text.
LEMMA GridsRead ==
  ASSUME NEW book, IsBook(book)
  PROVE  /\ IsGrid(ReadGrid(book).rows)
         /\ \A name : IsGrid(ReadExcelSheet(book, name).rows)
<1>1. PICK n \in Nat : book.sheets = [i \in 1 .. n |-> book.sheets[i]] BY DEF IsBook
<1>2. PICK X : \A i \in 1 .. n : book.sheets[i].rows \in Seq(Seq(X)) BY <1>1 DEF IsBook
<1>3. \A i \in 1 .. n : IsGrid(GridOf(book.sheets[i]).rows)
  BY <1>2, NormalGrid, MergedGrid DEF GridOf
<1>4. IsGrid(NoGrid.rows) BY EmptyGrid DEF NoGrid
<1>5. ASSUME NEW S \in SUBSET (1 .. n), S # {} PROVE Min(S) \in 1 .. n
  <2>1. S \in SUBSET Nat OBVIOUS
  <2>2. Min(S) \in S BY <1>5, <2>1, MinIs
  <2> QED BY <2>2
<1>6. IsGrid(ReadCSV(book).rows)
  <2>1. CASE book.sheets = <<>> BY <1>4, <2>1 DEF ReadCSV
  <2>2. CASE book.sheets # <<>>
    <3>1. n # 0 BY <1>1, <2>2
    <3>2. ReadCSV(book).rows = NormalizeRows(book.sheets[1].rows) BY <2>2 DEF ReadCSV
    <3>3. 1 \in 1 .. n BY <3>1
    <3> QED BY <1>2, <3>2, <3>3, NormalGrid
  <2> QED BY <2>1, <2>2
<1>7. ASSUME NEW name PROVE IsGrid(ReadExcelSheet(book, name).rows)
  <2> DEFINE named == {i \in DOMAIN book.sheets : book.sheets[i].name = name}
  <2>1. named \in SUBSET (1 .. n) BY <1>1
  <2>2. ReadExcelSheet(book, name) = IF named = {} THEN NoGrid ELSE GridOf(book.sheets[Min(named)])
    BY DEF ReadExcelSheet
  <2> HIDE DEF named
  <2> QED BY <1>3, <1>4, <1>5, <2>1, <2>2
<1>8. IsGrid(ReadExcel(book).rows)
  <2> DEFINE fill(i) == CountFilled(book.sheets[i].rows)
             fullest == {i \in DOMAIN book.sheets :
                           fill(i) > 0 /\ \A j \in DOMAIN book.sheets : fill(j) <= fill(i)}
  <2>1. fullest \in SUBSET (1 .. n) BY <1>1
  <2>2. ReadExcel(book) = IF fullest = {} THEN NoGrid ELSE GridOf(book.sheets[Min(fullest)])
    BY DEF ReadExcel
  <2> HIDE DEF fullest
  <2> QED BY <1>3, <1>4, <1>5, <2>1, <2>2
<1> QED BY <1>6, <1>7, <1>8 DEF ReadGrid

\* The exported workbook can be read.
LEMMA ExportedBook ==
  ASSUME NEW S, NEW list \in Seq(S)
  PROVE  IsBook(ExportXLSX(list))
<1> DEFINE heading(i) == <<NameOf[list[i].domain]>>
           row(i)     == [c \in DOMAIN Fields |-> IF Fields[c] = "feedback" THEN ShownFeedback(list[i])
                                                  ELSE list[i].values[Fields[c]]]
           lines(i)   == IF OpensDomain(list, i) THEN <<heading(i), row(i)>> ELSE <<row(i)>>
           titles     == [c \in DOMAIN Fields |-> Label[Fields[c]]]
           rows       == <<titles>> \o FlattenSeq([i \in DOMAIN list |-> lines(i)])
           merged     == {r \in DOMAIN rows : Len(rows[r]) < Len(Fields)}
           regions    == {[top |-> r, bottom |-> r, left |-> 1, right |-> Len(Fields)] : r \in merged}
<1>1. ExportXLSX(list) = [csv |-> FALSE, sheets |-> <<[name |-> "Sheet1", rows |-> rows, merged |-> regions]>>]
  BY DEF ExportXLSX
<1>2. PICK m \in Nat : m = Len(Fields) /\ DOMAIN Fields = 1 .. m BY FieldsAssumption
<1>3. PICK n \in Nat : n = Len(list) /\ DOMAIN list = 1 .. n OBVIOUS
<1>4. PICK X : X = {titles[c] : c \in 1 .. m} \cup {NameOf[list[i].domain] : i \in 1 .. n}
                   \cup UNION {{row(i)[c] : c \in 1 .. m} : i \in 1 .. n}
  OBVIOUS
<1>5. titles \in Seq(X)
  <2>1. \A c \in 1 .. m : titles[c] \in X BY <1>4
  <2>2. titles = [c \in 1 .. m |-> titles[c]] BY <1>2
  <2> HIDE DEF titles
  <2>3. titles \in [1 .. m -> X] BY <2>1, <2>2
  <2> QED BY <2>3
<1>6. \A i \in 1 .. n : heading(i) \in Seq(X)
  <2> TAKE i \in 1 .. n
  <2>1. NameOf[list[i].domain] \in X BY <1>4
  <2> QED BY <2>1
<1>7. \A i \in 1 .. n : row(i) \in Seq(X)
  <2> TAKE i \in 1 .. n
  <2>1. row(i) = [c \in 1 .. m |-> row(i)[c]] BY <1>2
  <2> HIDE DEF row, titles
  <2>2. \A c \in 1 .. m : row(i)[c] \in X BY <1>4
  <2>3. row(i) \in [1 .. m -> X] BY <2>1, <2>2
  <2> QED BY <2>3
<1> HIDE DEF heading, row, titles
<1>8. \A i \in 1 .. n : lines(i) \in Seq(Seq(X)) BY <1>6, <1>7
<1> HIDE DEF lines
<1>9. [i \in DOMAIN list |-> lines(i)] \in Seq(Seq(Seq(X))) BY <1>3, <1>8
<1>10. FlattenSeq([i \in DOMAIN list |-> lines(i)]) \in Seq(Seq(X)) BY <1>9, FlattenPlaces
<1>11. rows \in Seq(Seq(X)) BY <1>5, <1>10
<1> HIDE DEF rows, regions
<1>12. PICK sheet : sheet = [name |-> "Sheet1", rows |-> rows, merged |-> regions] OBVIOUS
<1>13. ExportXLSX(list).sheets = <<sheet>> /\ sheet.rows = rows BY <1>1, <1>12
<1>14. <<sheet>> = [i \in 1 .. 1 |-> <<sheet>>[i]] /\ \A i \in DOMAIN <<sheet>> : <<sheet>>[i].rows = rows
  BY <1>13
<1>15. PICK sheets : sheets = <<sheet>> OBVIOUS
<1>16. /\ \E k \in Nat : sheets = [i \in 1 .. k |-> sheets[i]]
       /\ \E Y : \A i \in DOMAIN sheets : sheets[i].rows \in Seq(Seq(Y))
  BY <1>11, <1>14, <1>15
<1> QED BY <1>13, <1>15, <1>16 DEF IsBook

(***************************************************************************)
(* Headings                                                                *)
(***************************************************************************)
LEMMA HeaderRow == ASSUME NEW g, IsGrid(g) PROVE DetectHeaderRow(g) \in Nat /\ DetectHeaderRow(g) > 0
<1>1. PICK n \in Nat : DOMAIN g = 1 .. n
  <2>1. PICK X : \E w \in Nat : g \in Seq([1 .. w -> X]) BY DEF IsGrid
  <2>2. PICK w \in Nat : g \in Seq([1 .. w -> X]) BY <2>1
  <2> QED BY <2>2
<1> DEFINE near == {r \in DOMAIN g : r <= HeaderScanRows /\ ScoreHeaderRow(g[r]) > 0}
           best == {r \in near : \A s \in near : ScoreHeaderRow(g[s]) <= ScoreHeaderRow(g[r])}
<1>2. best \in SUBSET (1 .. n) BY <1>1
<1>3. DetectHeaderRow(g) = IF best = {} THEN 1 ELSE Min(best) BY DEF DetectHeaderRow
<1> HIDE DEF best
<1>4. ASSUME best # {} PROVE Min(best) \in 1 .. n
  <2>1. best \in SUBSET Nat BY <1>2
  <2> QED BY <1>2, <1>4, <2>1, MinIs
<1> QED BY <1>3, <1>4

\* A row reads as the heading of a domain, or of none.
LEMMA Headings ==
  ASSUME NEW X, NEW w \in Nat, NEW row \in [1 .. w -> X]
  PROVE  Heading(row) \in DomainSet \cup {NoDomain}
<1> DEFINE like(p) == DomainLike[row[p.col]][Domains[p.at]]
           places  == {p \in [col : DOMAIN row, at : DOMAIN Domains] : like(p) >= DividerThreshold}
           best    == {p \in places : \A q \in places : like(q) <= like(p)}
           first(p, q) == p.col < q.col \/ (p.col = q.col /\ p.at <= q.at)
           chosen == CHOOSE x \in best : \A q \in best : first(x, q)
<1>1. MatchDivider(row) = IF best = {} THEN [domain |-> NoDomain, col |-> 0]
                          ELSE [domain |-> Domains[chosen.at], col |-> chosen.col]
  BY DEF MatchDivider
<1>2. PICK m \in Nat : DOMAIN Domains = 1 .. m BY DomainsAssumption
<1>3. best \in SUBSET [col : 1 .. w, at : 1 .. m] BY <1>2
<1> HIDE DEF best
<1>4. ASSUME best # {} PROVE chosen \in best
  <2>1. PICK cols : cols = {p.col : p \in best} OBVIOUS
  <2>2. cols \in SUBSET Nat /\ cols # {} BY <1>3, <1>4, <2>1
  <2>3. PICK c \in cols : \A d \in cols : c <= d BY <2>2, LeastNatural
  <2>4. PICK ats : ats = {p.at : p \in {q \in best : q.col = c}} OBVIOUS
  <2>5. ats \in SUBSET Nat /\ ats # {} BY <1>3, <2>1, <2>3, <2>4
  <2>6. PICK a \in ats : \A b \in ats : a <= b BY <2>5, LeastNatural
  <2>7. PICK p \in best : p.col = c /\ p.at = a BY <2>4, <2>6
  <2>8. ASSUME NEW q \in best PROVE first(p, q)
    <3>1. q.col \in Nat /\ q.at \in Nat /\ p.col \in Nat /\ p.at \in Nat BY <1>3
    <3>2. q.col \in cols /\ c <= q.col BY <2>1, <2>3
    <3>3. q.col = c => a <= q.at BY <2>4, <2>6
    <3> QED BY <2>7, <3>1, <3>2, <3>3
  <2> HIDE DEF first
  <2> QED BY <2>8
<1>5. best # {} => chosen.at \in 1 .. m BY <1>3, <1>4
<1>6. best # {} => Domains[chosen.at] \in DomainSet BY <1>2, <1>5 DEF DomainSet
<1> HIDE DEF chosen
<1>7. MatchDivider(row).domain \in DomainSet \cup {NoDomain} BY <1>1, <1>6
<1> QED BY <1>7 DEF Heading, Unmixed

(***************************************************************************)
(* Sections: row h + i of the sheet reads as heading head[i], or carries   *)
(* the values val[i].                                                      *)
(***************************************************************************)
\* Row j is the nearest heading above row i; there is none above row i.
Top(head, i, j) == j \in 1 .. i /\ head[j] # NoDomain /\ \A l \in (j + 1) .. i : head[l] = NoDomain
Loose(head, i)  == \A l \in 1 .. i : head[l] = NoDomain

\* What row i is: a heading, a row without a question, or a question.
KindAt(head, val, i) ==
  IF head[i] # NoDomain THEN "divider" ELSE IF val[i].question = Blank THEN "blank" ELSE "question"

\* The questions under heading j, of the first k rows.
Under(head, val, k, j) == {i \in 1 .. k : KindAt(head, val, i) = "question" /\ Top(head, i, j)}

\* Row i as it is classified: a question carries the domain of the heading above it, if any.
RowIs(row, h, head, val, i) ==
  /\ row = [index |-> h + i, kind |-> KindAt(head, val, i), domain |-> row.domain, values |-> val[i]]
  /\ KindAt(head, val, i) = "question" =>
       \/ Loose(head, i) /\ row.domain = NoDomain
       \/ \E j \in 1 .. i : Top(head, i, j) /\ row.domain = head[j]

\* The first k rows are.
RowsAre(rows, h, head, val, k) ==
  rows = [i \in 1 .. k |-> rows[i]] /\ \A i \in 1 .. k : RowIs(rows[i], h, head, val, i)

\* The section of heading j, as far as the first k rows.
SectionIs(s, h, head, val, k, j) ==
  /\ s = [domain |-> head[j], divider |-> h + j, first |-> h + j + 1, last |-> s.last,
          count |-> Cardinality(Under(head, val, k, j)), inferred |-> FALSE]
  /\ Under(head, val, k, j) # {} =>
       \E i \in Under(head, val, k, j) : s.last = h + i /\ \A l \in Under(head, val, k, j) : l <= i

\* The sections of the headings up to row c that have questions, in their order.
Lists(tops, secs, h, head, val, k, c) ==
  /\ \E m \in Nat : secs = [a \in 1 .. m |-> secs[a]] /\ tops \in [1 .. m -> 1 .. c]
  /\ \A a \in DOMAIN tops : /\ head[tops[a]] # NoDomain /\ Under(head, val, k, tops[a]) # {}
                            /\ SectionIs(secs[a], h, head, val, k, tops[a])
  /\ \A a, b \in DOMAIN tops : a < b => tops[a] < tops[b]
  /\ \A j \in 1 .. c : head[j] # NoDomain /\ Under(head, val, k, j) # {} => \E a \in DOMAIN tops : tops[a] = j

\* The sections closed so far stand under headings above row c.
Listed(secs, h, head, val, k, c) == \E tops : Lists(tops, secs, h, head, val, k, c)

\* What is known of the first k rows.
Known(s, h, head, val, k) ==
  /\ s = [rows |-> s.rows, sections |-> s.sections, current |-> s.current]
  /\ RowsAre(s.rows, h, head, val, k)
  /\ \/ Loose(head, k) /\ s.current = NoSection /\ s.sections = <<>>
     \/ \E j \in 1 .. k : /\ Top(head, k, j) /\ SectionIs(s.current, h, head, val, k, j)
                          /\ Listed(s.sections, h, head, val, k, j - 1)

\* The questions under a heading can be counted.
LEMMA UnderFinite ==
  ASSUME NEW head, NEW val, NEW k \in Nat, NEW j
  PROVE  /\ IsFiniteSet(Under(head, val, k, j)) /\ Cardinality(Under(head, val, k, j)) \in Nat
         /\ Cardinality(Under(head, val, k, j)) = 0 <=> Under(head, val, k, j) = {}
<1>1. IsFiniteSet(1 .. k) BY FS_Interval
<1>2. Under(head, val, k, j) \in SUBSET (1 .. k) BY DEF Under
<1>3. IsFiniteSet(Under(head, val, k, j)) BY <1>1, <1>2, FS_Subset
<1> QED BY <1>3, FS_CardinalityType, FS_EmptySet

\* A row has one nearest heading.
LEMMA TopOnce ==
  ASSUME NEW head, NEW i \in Nat, NEW j, NEW l, Top(head, i, j), Top(head, i, l)
  PROVE  j = l
<1>1. j \in 1 .. i /\ l \in 1 .. i BY DEF Top
<1>2. ~(j < l) /\ ~(l < j) BY <1>1 DEF Top
<1> QED BY <1>1, <1>2

\* The section closed by a heading, or by the end of the sheet.
LEMMA Flushed ==
  ASSUME NEW s, NEW h \in Nat, NEW head, NEW val, NEW k \in Nat, Known(s, h, head, val, k)
  PROVE  Listed(Flush(s), h, head, val, k, k)
<1>1. CASE Loose(head, k) /\ s.current = NoSection /\ s.sections = <<>>
  <2>1. NoSection.count = 0 BY DEF NoSection
  <2>2. Flush(s) = <<>> BY <1>1, <2>1 DEF Flush
  <2>3. Lists(<<>>, <<>>, h, head, val, k, k)
    <3>1. <<>> = [a \in 1 .. 0 |-> <<>>[a]] /\ <<>> \in [1 .. 0 -> 1 .. k] /\ DOMAIN <<>> = {} OBVIOUS
    <3>2. \A j \in 1 .. k : head[j] = NoDomain BY <1>1 DEF Loose
    <3> QED BY <3>1, <3>2 DEF Lists
  <2> QED BY <2>2, <2>3 DEF Listed
<1>2. ASSUME NEW j \in 1 .. k, Top(head, k, j), SectionIs(s.current, h, head, val, k, j),
             Listed(s.sections, h, head, val, k, j - 1)
      PROVE  Listed(Flush(s), h, head, val, k, k)
  <2> DEFINE U(x) == Under(head, val, k, x)
             Is(t, x) == SectionIs(t, h, head, val, k, x)
  <2>1. PICK tops : Lists(tops, s.sections, h, head, val, k, j - 1) BY <1>2 DEF Listed
  <2>2. PICK m \in Nat : s.sections = [a \in 1 .. m |-> s.sections[a]] /\ tops \in [1 .. m -> 1 .. (j - 1)]
    BY <2>1 DEF Lists
  <2>3. s.current.count = Cardinality(U(j)) BY <1>2 DEF SectionIs
  <2>4. Cardinality(U(j)) \in Nat /\ (Cardinality(U(j)) = 0 <=> U(j) = {}) BY UnderFinite
  <2>5. /\ \A a \in 1 .. m : head[tops[a]] # NoDomain /\ U(tops[a]) # {} /\ Is(s.sections[a], tops[a])
        /\ \A a, b \in 1 .. m : a < b => tops[a] < tops[b]
        /\ \A x \in 1 .. (j - 1) : head[x] # NoDomain /\ U(x) # {} => \E a \in 1 .. m : tops[a] = x
    BY <2>1, <2>2, Zenon DEF Lists
  <2>6. \A x \in 1 .. k : head[x] # NoDomain => x \in 1 .. (j - 1) \/ x = j BY <1>2 DEF Top
  <2>7. head[j] # NoDomain BY <1>2 DEF Top
  <2>8. CASE U(j) = {}
    <3>1. Flush(s) = s.sections BY <2>3, <2>4, <2>8 DEF Flush
    <3>2. \A x \in 1 .. k : head[x] # NoDomain /\ U(x) # {} => \E a \in DOMAIN tops : tops[a] = x
      BY <2>2, <2>5, <2>6, <2>8
    <3>3. tops \in [1 .. m -> 1 .. k] BY <2>2
    <3>4. DOMAIN tops = 1 .. m BY <2>2
    <3>5. Lists(tops, s.sections, h, head, val, k, k) BY <2>2, <2>5, <3>2, <3>3, <3>4, Zenon DEF Lists
    <3> QED BY <3>1, <3>5 DEF Listed
  <2>9. CASE U(j) # {}
    <3> DEFINE more == [a \in 1 .. (m + 1) |-> IF a = m + 1 THEN j ELSE tops[a]]
               secs == Flush(s)
    <3>1. secs = Append(s.sections, s.current) BY <2>3, <2>4, <2>9 DEF Flush
    <3>2. secs = [a \in 1 .. (m + 1) |-> IF a = m + 1 THEN s.current ELSE s.sections[a]] BY <2>2, <3>1
    <3>3. secs = [a \in 1 .. (m + 1) |-> secs[a]] BY <3>2
    <3>4. more \in [1 .. (m + 1) -> 1 .. k] /\ DOMAIN more = 1 .. (m + 1) BY <2>2
    <3>5. \A a \in 1 .. (m + 1) : head[more[a]] # NoDomain /\ U(more[a]) # {} /\ Is(secs[a], more[a])
      <4> TAKE a \in 1 .. (m + 1)
      <4>1. CASE a = m + 1
        <5>1. more[a] = j /\ secs[a] = s.current BY <3>2, <4>1
        <5> QED BY <1>2, <2>7, <2>9, <5>1
      <4>2. CASE a # m + 1
        <5>1. a \in 1 .. m BY <4>2
        <5>2. more[a] = tops[a] /\ secs[a] = s.sections[a] BY <3>2, <4>2
        <5> QED BY <2>5, <5>1, <5>2
      <4> QED BY <4>1, <4>2
    <3>6. \A a, b \in 1 .. (m + 1) : a < b => more[a] < more[b]
      <4> TAKE a, b \in 1 .. (m + 1)
      <4> HAVE a < b
      <4>1. a \in 1 .. m /\ more[a] = tops[a] OBVIOUS
      <4>2. CASE b = m + 1 BY <2>2, <4>1, <4>2
      <4>3. CASE b # m + 1
        <5>1. b \in 1 .. m /\ more[b] = tops[b] BY <4>3
        <5> QED BY <2>5, <4>1, <5>1
      <4> QED BY <4>2, <4>3
    <3>7. \A x \in 1 .. k : head[x] # NoDomain /\ U(x) # {} => \E a \in 1 .. (m + 1) : more[a] = x
      <4> TAKE x \in 1 .. k
      <4> HAVE head[x] # NoDomain /\ U(x) # {}
      <4>1. CASE x = j
        <5>1. more[m + 1] = j /\ m + 1 \in 1 .. (m + 1) OBVIOUS
        <5> QED BY <4>1, <5>1
      <4>2. CASE x # j
        <5>1. PICK a \in 1 .. m : tops[a] = x BY <2>5, <2>6, <4>2
        <5>2. more[a] = x /\ a \in 1 .. (m + 1) BY <5>1
        <5> QED BY <5>2
      <4> QED BY <4>1, <4>2
    <3> HIDE DEF more, secs
    <3>8. Lists(more, secs, h, head, val, k, k)
      <4>1. m + 1 \in Nat OBVIOUS
      <4> QED BY <3>3, <3>4, <3>5, <3>6, <3>7, <4>1, Zenon DEF Lists
    <3> QED BY <3>8 DEF Listed, secs
  <2> QED BY <2>8, <2>9
<1> QED BY <1>1, <1>2 DEF Known

\* One more row that is right keeps the rows right.
LEMMA OneMoreRow ==
  ASSUME NEW rows, NEW h, NEW head, NEW val, NEW k \in Nat, RowsAre(rows, h, head, val, k),
         NEW row, RowIs(row, h, head, val, k + 1)
  PROVE  RowsAre(Append(rows, row), h, head, val, k + 1)
<1>1. rows = [i \in 1 .. k |-> rows[i]] /\ \A i \in 1 .. k : RowIs(rows[i], h, head, val, i) BY DEF RowsAre
<1>2. Append(rows, row) = [i \in 1 .. (k + 1) |-> IF i = k + 1 THEN row ELSE rows[i]] BY <1>1
<1>3. Append(rows, row) = [i \in 1 .. (k + 1) |-> Append(rows, row)[i]] BY <1>2
<1>4. \A i \in 1 .. (k + 1) : RowIs(Append(rows, row)[i], h, head, val, i)
  <2> TAKE i \in 1 .. (k + 1)
  <2>1. CASE i = k + 1 BY <1>2, <2>1
  <2>2. CASE i # k + 1
    <3>1. i \in 1 .. k /\ Append(rows, row)[i] = rows[i] BY <1>2, <2>2
    <3> QED BY <1>1, <3>1
  <2> QED BY <2>1, <2>2
<1> QED BY <1>3, <1>4 DEF RowsAre

\* What row k + 1 adds to the questions under a heading.
LEMMA UnderStep ==
  ASSUME NEW head, NEW val, NEW k \in Nat, NEW j
  PROVE  /\ KindAt(head, val, k + 1) = "question" /\ Top(head, k + 1, j) =>
              Under(head, val, k + 1, j) = Under(head, val, k, j) \cup {k + 1}
         /\ ~(KindAt(head, val, k + 1) = "question" /\ Top(head, k + 1, j)) =>
              Under(head, val, k + 1, j) = Under(head, val, k, j)
<1>1. 1 .. (k + 1) = (1 .. k) \cup {k + 1} BY SMT
<1> QED BY <1>1, Zenon DEF Under

\* A row under another heading adds nothing to the questions under this one.
LEMMA UnderSame ==
  ASSUME NEW head, NEW val, NEW k \in Nat, NEW j, ~Top(head, k + 1, j)
  PROVE  Under(head, val, k + 1, j) = Under(head, val, k, j)
<1>1. 1 .. (k + 1) = (1 .. k) \cup {k + 1} BY SMT
<1> QED BY <1>1, Zenon DEF Under

\* Below a row that is no heading, the nearest heading is what it was.
LEMMA TopStep ==
  ASSUME NEW head, NEW k \in Nat, head[k + 1] = NoDomain
  PROVE  /\ \A j : Top(head, k + 1, j) <=> Top(head, k, j)
         /\ Loose(head, k + 1) <=> Loose(head, k)
<1>1. \A l : l \in 1 .. (k + 1) <=> l \in 1 .. k \/ l = k + 1 BY SMT
<1>2. ASSUME NEW j PROVE Top(head, k + 1, j) <=> Top(head, k, j)
  <2>1. ASSUME Top(head, k + 1, j) PROVE Top(head, k, j)
    <3>1. j \in 1 .. k BY <1>1, <2>1 DEF Top
    <3>2. \A l \in (j + 1) .. k : l \in (j + 1) .. (k + 1) BY <3>1
    <3> QED BY <2>1, <3>1, <3>2 DEF Top
  <2>2. ASSUME Top(head, k, j) PROVE Top(head, k + 1, j)
    <3>1. j \in 1 .. k /\ j \in 1 .. (k + 1) BY <2>2 DEF Top
    <3>2. \A l \in (j + 1) .. (k + 1) : l \in (j + 1) .. k \/ l = k + 1 BY <3>1
    <3> QED BY <2>2, <3>1, <3>2 DEF Top
  <2> QED BY <2>1, <2>2
<1>3. Loose(head, k + 1) <=> Loose(head, k) BY <1>1 DEF Loose
<1> QED BY <1>2, <1>3

\* Sections whose questions are the same are the same sections.
LEMMA ListedOn ==
  ASSUME NEW secs, NEW h, NEW head, NEW val, NEW k, NEW n, NEW c \in Int,
         \A x \in 1 .. c : Under(head, val, n, x) = Under(head, val, k, x),
         Listed(secs, h, head, val, k, c)
  PROVE  Listed(secs, h, head, val, n, c)
<1>1. PICK tops : Lists(tops, secs, h, head, val, k, c) BY DEF Listed
<1>2. PICK m \in Nat : secs = [a \in 1 .. m |-> secs[a]] /\ tops \in [1 .. m -> 1 .. c] BY <1>1 DEF Lists
<1>3. DOMAIN tops = 1 .. m /\ \A a \in 1 .. m : tops[a] \in 1 .. c BY <1>2
<1>4. \A x \in 1 .. c : \A t : SectionIs(t, h, head, val, k, x) <=> SectionIs(t, h, head, val, n, x)
  BY DEF SectionIs
<1>5. Lists(tops, secs, h, head, val, n, c)
  <2>1. \A a \in DOMAIN tops : /\ head[tops[a]] # NoDomain /\ Under(head, val, n, tops[a]) # {}
                               /\ SectionIs(secs[a], h, head, val, n, tops[a])
    BY <1>1, <1>3, <1>4 DEF Lists
  <2>2. \A j \in 1 .. c : head[j] # NoDomain /\ Under(head, val, n, j) # {} => \E a \in DOMAIN tops : tops[a] = j
    BY <1>1 DEF Lists
  <2> QED BY <1>1, <1>2, <2>1, <2>2, Zenon DEF Lists
<1> QED BY <1>5 DEF Listed

\* Another question under the last heading.
LEMMA MoreOfASection ==
  ASSUME NEW rows, NEW sections, NEW domain, NEW divider, NEW first, NEW last, NEW count, NEW r,
         NEW u, NEW t,
         u = [rows |-> rows, sections |-> sections,
              current |-> [domain |-> domain, divider |-> divider, first |-> first, last |-> last,
                           count |-> count, inferred |-> FALSE]],
         t = [u EXCEPT !.current.last = r, !.current.count = @ + 1]
  PROVE  t = [rows |-> rows, sections |-> sections,
              current |-> [domain |-> domain, divider |-> divider, first |-> first, last |-> r,
                           count |-> count + 1, inferred |-> FALSE]]
<1>1. PICK old : old = u.current OBVIOUS
<1>2. old = [domain |-> domain, divider |-> divider, first |-> first, last |-> last,
             count |-> count, inferred |-> FALSE]
  BY <1>1
<1>3. PICK mid : mid = [old EXCEPT !.last = r] OBVIOUS
<1>4. mid = [domain |-> domain, divider |-> divider, first |-> first, last |-> r,
             count |-> count, inferred |-> FALSE]
  BY <1>2, <1>3
<1>5. PICK cur : cur = [mid EXCEPT !.count = @ + 1] OBVIOUS
<1>6. cur = [domain |-> domain, divider |-> divider, first |-> first, last |-> r,
             count |-> count + 1, inferred |-> FALSE]
  BY <1>4, <1>5
<1>7. PICK v : v = [u EXCEPT !.current.last = r] OBVIOUS
<1>8. v = [u EXCEPT !.current = mid] BY <1>1, <1>3, <1>7
<1>9. v = [rows |-> rows, sections |-> sections, current |-> mid] BY <1>8
<1>10. t = [v EXCEPT !.current.count = @ + 1] BY <1>7
<1>11. t = [v EXCEPT !.current = cur] BY <1>5, <1>9, <1>10
<1>12. t = [rows |-> rows, sections |-> sections, current |-> cur] BY <1>9, <1>11
<1> QED BY <1>6, <1>12

\* Classifying row k + 1 keeps what is known true of k + 1 rows.
LEMMA KnownStep ==
  ASSUME NEW s, NEW h \in Nat, NEW head, NEW val, NEW k \in Nat, Known(s, h, head, val, k),
         NEW t, t = Classify(s, h + (k + 1), val[k + 1], head[k + 1])
  PROVE  Known(t, h, head, val, k + 1)
<1> DEFINE r == h + (k + 1)
           U(n, x) == Under(head, val, n, x)
           Row(kind, d) == [index |-> r, kind |-> kind, domain |-> d, values |-> val[k + 1]]
<1>1. /\ s = [rows |-> s.rows, sections |-> s.sections, current |-> s.current]
      /\ RowsAre(s.rows, h, head, val, k)
      /\ \/ Loose(head, k) /\ s.current = NoSection /\ s.sections = <<>>
         \/ \E j \in 1 .. k : /\ Top(head, k, j) /\ SectionIs(s.current, h, head, val, k, j)
                              /\ Listed(s.sections, h, head, val, k, j - 1)
  BY DEF Known
<1>2. CASE head[k + 1] # NoDomain
  <2>1. KindAt(head, val, k + 1) = "divider" BY <1>2 DEF KindAt
  <2>2. \A x : U(k + 1, x) = U(k, x) BY <2>1, UnderStep
  <2> DEFINE cur == [domain |-> head[k + 1], divider |-> r, first |-> r + 1, last |-> r + 1,
                     count |-> 0, inferred |-> FALSE]
  <2>20. PICK row : row = Row("divider", head[k + 1]) OBVIOUS
  <2>3. t = [rows |-> Append(s.rows, row), sections |-> Flush(s), current |-> cur]
    BY <1>1, <1>2, <2>20 DEF Classify, NoSection
  <2>4. RowIs(row, h, head, val, k + 1) BY <2>1, <2>20 DEF RowIs
  <2>5. RowsAre(t.rows, h, head, val, k + 1)
    <3>1. t.rows = Append(s.rows, row) BY <2>3
    <3>2. RowsAre(Append(s.rows, row), h, head, val, k + 1) BY <1>1, <2>4, OneMoreRow
    <3> QED BY <3>1, <3>2
  <2>6. Top(head, k + 1, k + 1) BY <1>2 DEF Top
  <2>7. U(k + 1, k + 1) = {}
    <3>1. \A i \in 1 .. k : ~Top(head, i, k + 1) BY DEF Top
    <3> QED BY <2>2, <3>1 DEF Under
  <2>8. SectionIs(cur, h, head, val, k + 1, k + 1)
    <3>1. Cardinality(U(k + 1, k + 1)) = 0 BY <2>7, FS_EmptySet
    <3> QED BY <2>7, <3>1 DEF SectionIs
  <2>9. Listed(Flush(s), h, head, val, k, k) BY Flushed
  <2>10. Listed(Flush(s), h, head, val, k + 1, k) BY <2>2, <2>9, ListedOn
  <2>11. k + 1 \in 1 .. (k + 1) /\ (k + 1) - 1 = k OBVIOUS
  <2> HIDE DEF cur
  <2>12. t.current = cur /\ t.sections = Flush(s)
         /\ t = [rows |-> t.rows, sections |-> t.sections, current |-> t.current]
    BY <2>3
  <2>13. \E j \in 1 .. (k + 1) : /\ Top(head, k + 1, j) /\ SectionIs(t.current, h, head, val, k + 1, j)
                                 /\ Listed(t.sections, h, head, val, k + 1, j - 1)
    BY <2>6, <2>8, <2>10, <2>11, <2>12
  <2>14. Known(t, h, head, val, k + 1) BY <2>5, <2>12, <2>13 DEF Known
  <2> QED BY <2>14
<1>3. CASE head[k + 1] = NoDomain
  <2>1. /\ \A j : Top(head, k + 1, j) <=> Top(head, k, j)
        /\ Loose(head, k + 1) <=> Loose(head, k)
    BY <1>3, TopStep
  <2>2. CASE val[k + 1].question = Blank
    <3>1. KindAt(head, val, k + 1) = "blank" BY <1>3, <2>2 DEF KindAt
    <3>2. \A x : U(k + 1, x) = U(k, x) BY <3>1, UnderStep
    <3>20. PICK row : row = Row("blank", NoDomain) OBVIOUS
    <3>3. t = [rows |-> Append(s.rows, row), sections |-> s.sections, current |-> s.current]
      BY <1>1, <1>3, <2>2, <3>20 DEF Classify
    <3>4. RowIs(row, h, head, val, k + 1) BY <3>1, <3>20 DEF RowIs
    <3>5. RowsAre(t.rows, h, head, val, k + 1)
      <4>1. t.rows = Append(s.rows, row) BY <3>3
      <4>2. RowsAre(Append(s.rows, row), h, head, val, k + 1) BY <1>1, <3>4, OneMoreRow
      <4> QED BY <4>1, <4>2
    <3>6. t.current = s.current /\ t.sections = s.sections
          /\ t = [rows |-> t.rows, sections |-> t.sections, current |-> t.current]
      BY <3>3
    <3>7. ASSUME NEW j \in 1 .. k, Top(head, k, j), SectionIs(s.current, h, head, val, k, j),
                 Listed(s.sections, h, head, val, k, j - 1)
          PROVE  Known(t, h, head, val, k + 1)
      <4>1. j \in 1 .. (k + 1) /\ j - 1 \in Int OBVIOUS
      <4>2. Listed(s.sections, h, head, val, k + 1, j - 1) BY <3>2, <3>7, <4>1, ListedOn
      <4>3. SectionIs(s.current, h, head, val, k + 1, j) BY <3>2, <3>7 DEF SectionIs
      <4> QED BY <2>1, <3>5, <3>6, <3>7, <4>1, <4>2, <4>3 DEF Known
    <3>8. CASE Loose(head, k) /\ s.current = NoSection /\ s.sections = <<>>
      <4>1. Loose(head, k + 1) /\ t.current = NoSection /\ t.sections = <<>> BY <2>1, <3>6, <3>8
      <4> QED BY <3>5, <3>6, <4>1 DEF Known
    <3> QED BY <1>1, <3>7, <3>8
  <2>3. CASE val[k + 1].question # Blank
    <3>1. KindAt(head, val, k + 1) = "question" BY <1>3, <2>3 DEF KindAt
    <3>2. CASE Loose(head, k) /\ s.current = NoSection /\ s.sections = <<>>
      <4>20. PICK row : row = Row("question", NoDomain) OBVIOUS
      <4>1. t = [rows |-> Append(s.rows, row), sections |-> s.sections, current |-> s.current]
        BY <1>1, <1>3, <2>3, <3>2, <4>20 DEF Classify
      <4>2. RowIs(row, h, head, val, k + 1) BY <2>1, <3>1, <3>2, <4>20 DEF RowIs
      <4>3. RowsAre(t.rows, h, head, val, k + 1)
        <5>1. t.rows = Append(s.rows, row) BY <4>1
        <5>2. RowsAre(Append(s.rows, row), h, head, val, k + 1) BY <1>1, <4>2, OneMoreRow
        <5> QED BY <5>1, <5>2
      <4>4. t.current = s.current /\ t.sections = s.sections
            /\ t = [rows |-> t.rows, sections |-> t.sections, current |-> t.current]
        BY <4>1
      <4>5. Loose(head, k + 1) /\ t.current = NoSection /\ t.sections = <<>> BY <2>1, <3>2, <4>4
      <4> QED BY <4>3, <4>4, <4>5 DEF Known
    <3>3. ASSUME NEW j \in 1 .. k, Top(head, k, j), SectionIs(s.current, h, head, val, k, j),
                 Listed(s.sections, h, head, val, k, j - 1)
          PROVE  Known(t, h, head, val, k + 1)
      <4>1. j \in 1 .. (k + 1) /\ j - 1 \in Int /\ Top(head, k + 1, j) /\ head[j] # NoDomain
        BY <2>1, <3>3 DEF Top
      <4>2. U(k + 1, j) = U(k, j) \cup {k + 1} BY <3>1, <4>1, UnderStep
      <4>3. \A x \in 1 .. (j - 1) : U(k + 1, x) = U(k, x)
        <5> TAKE x \in 1 .. (j - 1)
        <5>1. ~Top(head, k + 1, x)
          <6>1. x # j /\ k + 1 \in Nat OBVIOUS
          <6> QED BY <4>1, <6>1, TopOnce
        <5> QED BY <5>1, UnderSame
      <4>4. Listed(s.sections, h, head, val, k + 1, j - 1) BY <3>3, <4>1, <4>3, ListedOn
      <4>5. s.current = [domain |-> head[j], divider |-> h + j, first |-> h + j + 1, last |-> s.current.last,
                         count |-> Cardinality(U(k, j)), inferred |-> FALSE]
        BY <3>3 DEF SectionIs
      <4>6. s.current # NoSection /\ s.current.domain = head[j] /\ s.current.count = Cardinality(U(k, j))
        BY <4>1, <4>5 DEF NoSection
      <4>21. PICK c, l : c = Cardinality(U(k, j)) /\ l = s.current.last OBVIOUS
      <4>22. PICK old, cur : /\ old = [domain |-> head[j], divider |-> h + j, first |-> h + j + 1, last |-> l,
                                       count |-> c, inferred |-> FALSE]
                            /\ cur = [domain |-> head[j], divider |-> h + j, first |-> h + j + 1, last |-> r,
                                      count |-> c + 1, inferred |-> FALSE]
        OBVIOUS
      <4>23. s.current = old BY <4>5, <4>21, <4>22
      <4>20. PICK row : row = Row("question", head[j]) OBVIOUS
      <4>7. t = [rows |-> Append(s.rows, row), sections |-> s.sections, current |-> cur]
        <5>2. PICK u : u = [s EXCEPT !.rows = Append(@, row)] OBVIOUS
        <5>3. u = [rows |-> Append(s.rows, row), sections |-> s.sections, current |-> old]
          BY <1>1, <4>23, <5>2
        <5>4. t = [u EXCEPT !.current.last = r, !.current.count = @ + 1]
          BY <1>3, <2>3, <4>6, <4>20, <5>2 DEF Classify
        <5> QED BY <4>22, <5>3, <5>4, MoreOfASection
      <4>8. RowIs(row, h, head, val, k + 1) BY <3>1, <4>1, <4>20 DEF RowIs
      <4>9. RowsAre(t.rows, h, head, val, k + 1)
        <5>1. t.rows = Append(s.rows, row) BY <4>7
        <5>2. RowsAre(Append(s.rows, row), h, head, val, k + 1) BY <1>1, <4>8, OneMoreRow
        <5> QED BY <5>1, <5>2
      <4>10. SectionIs(cur, h, head, val, k + 1, j)
        <5>1. k + 1 \notin U(k, j) /\ \A i \in U(k, j) : i <= k BY DEF Under
        <5>2. IsFiniteSet(U(k, j)) /\ Cardinality(U(k, j)) \in Nat BY UnderFinite
        <5>3. Cardinality(U(k + 1, j)) = Cardinality(U(k, j)) + 1 BY <4>2, <5>1, <5>2, FS_AddElement
        <5>7. cur = [domain |-> head[j], divider |-> h + j, first |-> h + j + 1, last |-> r,
                     count |-> Cardinality(U(k + 1, j)), inferred |-> FALSE]
          BY <4>21, <4>22, <5>3
        <5>8. k + 1 \in U(k + 1, j) /\ \A i \in U(k + 1, j) : i <= k + 1 BY <4>2, <5>1 DEF Under
        <5> QED BY <5>7, <5>8 DEF SectionIs
      <4>11. t.current = cur /\ t.sections = s.sections
             /\ t = [rows |-> t.rows, sections |-> t.sections, current |-> t.current]
        BY <4>7
      <4> QED BY <4>1, <4>4, <4>9, <4>10, <4>11 DEF Known
    <3> QED BY <1>1, <3>2, <3>3
  <2> QED BY <2>2, <2>3
<1> QED BY <1>2, <1>3

\* f gives what is found after each row.
Found(f, n, h, head, val) ==
  f = [k \in 0 .. n |->
         IF k = 0 THEN [rows |-> <<>>, sections |-> <<>>, current |-> NoSection]
         ELSE Classify(f[k - 1], h + k, val[k], head[k])]

\* The rows can be classified one after another.
LEMMA FoundOn ==
  ASSUME NEW n \in Nat, NEW h, NEW head, NEW val
  PROVE  \E f : Found(f, n, h, head, val)
<1> DEFINE P == {m \in 0 .. n : \E f : Found(f, m, h, head, val)}
           start == [rows |-> <<>>, sections |-> <<>>, current |-> NoSection]
<1>1. 0 \in P
  <2>1. PICK f : f = [k \in 0 .. 0 |-> start] OBVIOUS
  <2>2. Found(f, 0, h, head, val) BY <2>1 DEF Found
  <2> QED BY <2>2
<1>2. ASSUME NEW m \in 0 .. (n - 1), m \in P PROVE m + 1 \in P
  <2>1. PICK f : Found(f, m, h, head, val) BY <1>2
  <2>2. PICK last : last = Classify(f[m], h + (m + 1), val[m + 1], head[m + 1]) OBVIOUS
  <2>3. PICK g : g = [k \in 0 .. (m + 1) |-> IF k = m + 1 THEN last ELSE f[k]] OBVIOUS
  <2>4. \A k \in 0 .. (m + 1) : g[k] = IF k = 0 THEN start ELSE Classify(g[k - 1], h + k, val[k], head[k])
    <3> TAKE k \in 0 .. (m + 1)
    <3>1. CASE k = m + 1
      <4>1. g[k - 1] = f[m] /\ g[k] = last /\ k # 0 BY <2>3, <3>1
      <4> QED BY <2>2, <3>1, <4>1
    <3>2. CASE k # m + 1
      <4>1. k \in 0 .. m /\ g[k] = f[k] BY <2>3, <3>2
      <4>2. k # 0 => g[k - 1] = f[k - 1] BY <2>3, <4>1
      <4>3. f[k] = IF k = 0 THEN start ELSE Classify(f[k - 1], h + k, val[k], head[k])
        BY <2>1, <4>1 DEF Found
      <4> QED BY <4>1, <4>2, <4>3
    <3> QED BY <3>1, <3>2
  <2>5. g = [k \in 0 .. (m + 1) |-> IF k = 0 THEN start ELSE Classify(g[k - 1], h + k, val[k], head[k])]
    BY <2>3, <2>4
  <2>6. Found(g, m + 1, h, head, val) BY <2>5 DEF Found
  <2>7. m + 1 \in 0 .. n OBVIOUS
  <2> QED BY <2>6, <2>7
<1>3. P \in SUBSET (0 .. n) OBVIOUS
<1> HIDE DEF P
<1>4. P = 0 .. n BY <1>1, <1>2, <1>3, UpTo
<1>5. n \in P BY <1>4
<1> QED BY <1>5 DEF P

\* So what is known is true of all of them.
LEMMA FoundKnown ==
  ASSUME NEW n \in Nat, NEW h \in Nat, NEW head, NEW val, NEW f, Found(f, n, h, head, val)
  PROVE  Known(f[n], h, head, val, n)
<1> DEFINE P == {k \in 0 .. n : Known(f[k], h, head, val, k)}
<1>1. 0 \in P
  <2>1. f[0] = [rows |-> <<>>, sections |-> <<>>, current |-> NoSection] BY DEF Found
  <2>2. Loose(head, 0) BY DEF Loose
  <2>3. RowsAre(<<>>, h, head, val, 0) BY DEF RowsAre
  <2>4. PICK s : s = f[0] OBVIOUS
  <2>5. s.rows = <<>> /\ s.sections = <<>> /\ s.current = NoSection
        /\ s = [rows |-> s.rows, sections |-> s.sections, current |-> s.current]
    BY <2>1, <2>4
  <2>6. Known(s, h, head, val, 0) BY <2>2, <2>3, <2>5 DEF Known
  <2> QED BY <2>4, <2>6
<1>2. ASSUME NEW k \in 0 .. (n - 1), k \in P PROVE k + 1 \in P
  <2>1. k + 1 \in 0 .. n /\ k + 1 # 0 /\ (k + 1) - 1 = k /\ k \in Nat OBVIOUS
  <2>2. PICK s, t : s = f[k] /\ t = f[k + 1] OBVIOUS
  <2>3. t = Classify(s, h + (k + 1), val[k + 1], head[k + 1]) BY <2>1, <2>2 DEF Found
  <2>4. Known(s, h, head, val, k) BY <1>2, <2>2
  <2>5. Known(t, h, head, val, k + 1) BY <2>1, <2>3, <2>4, KnownStep
  <2> QED BY <2>1, <2>2, <2>5
<1>3. P \in SUBSET (0 .. n) OBVIOUS
<1> HIDE DEF P
<1>4. P = 0 .. n BY <1>1, <1>2, <1>3, UpTo
<1>5. n \in P BY <1>4
<1> QED BY <1>5 DEF P

\* The rows below the header, what they say and what they read as.
Below(g, h)      == IF h < Len(g) THEN Len(g) - h ELSE 0
Heads(g, h)      == [k \in 1 .. Below(g, h) |-> Heading(g[h + k])]
Vals(g, h, bound) == [k \in 1 .. Below(g, h) |-> ExtractValues(g, h + k, bound)]

\* A sheet has a number of rows, and a number of rows below the header.
LEMMA BelowNat == ASSUME NEW g, IsGrid(g), NEW h \in Nat PROVE Len(g) \in Nat /\ Below(g, h) \in Nat
<1>1. PICK X : \E w \in Nat : g \in Seq([1 .. w -> X]) BY DEF IsGrid
<1>2. PICK w \in Nat : g \in Seq([1 .. w -> X]) BY <1>1
<1>3. Len(g) \in Nat BY <1>2
<1> QED BY <1>3 DEF Below

\* DetectSections is the classification of every row below the header, settled.
LEMMA Detection ==
  ASSUME NEW g, IsGrid(g), NEW h \in Nat, NEW bound
  PROVE  \E s : /\ Known(s, h, Heads(g, h), Vals(g, h, bound), Below(g, h))
                /\ DetectSections(g, h, bound) = Attribute(s.rows, Flush(s))
<1>1. PICK n, head, val : n = Below(g, h) /\ head = Heads(g, h) /\ val = Vals(g, h, bound) OBVIOUS
<1>2. n \in Nat BY <1>1, BelowNat
<1> DEFINE start == [rows |-> <<>>, sections |-> <<>>, current |-> NoSection]
           Body(f) == f = [k \in 0 .. Below(g, h) |->
                             IF k = 0 THEN start
                             ELSE Classify(f[k - 1], h + k, ExtractValues(g, h + k, bound), Heading(g[h + k]))]
           found == CHOOSE f : Body(f)
<1>3. DetectSections(g, h, bound) = Attribute(found[Below(g, h)].rows, Flush(found[Below(g, h)]))
  BY DEF DetectSections, Below
<1>4. ASSUME NEW f PROVE Body(f) <=> Found(f, n, h, head, val)
  <2>1. \A k \in 1 .. n : head[k] = Heading(g[h + k]) /\ val[k] = ExtractValues(g, h + k, bound)
    BY <1>1 DEF Heads, Vals
  <2>2. \A k \in 0 .. n : k # 0 => k \in 1 .. n BY <1>2
  <2>3. [k \in 0 .. n |->
           IF k = 0 THEN start
           ELSE Classify(f[k - 1], h + k, ExtractValues(g, h + k, bound), Heading(g[h + k]))]
        = [k \in 0 .. n |-> IF k = 0 THEN start ELSE Classify(f[k - 1], h + k, val[k], head[k])]
    BY <2>1, <2>2
  <2> QED BY <1>1, <2>3 DEF Found
<1> HIDE DEF Body, found
<1>5. \E f : Body(f) BY <1>2, <1>4, FoundOn
<1>6. Body(found) BY <1>5 DEF found
<1>7. Known(found[n], h, head, val, n)
  <2>1. PICK f : f = found OBVIOUS
  <2>2. Found(f, n, h, head, val) BY <1>4, <1>6, <2>1
  <2>3. Known(f[n], h, head, val, n) BY <1>2, <2>2, FoundKnown
  <2> QED BY <2>1, <2>3
<1>8. PICK s : s = found[n] OBVIOUS
<1> QED BY <1>1, <1>3, <1>7, <1>8

\* The questions above the first heading, and the domain they go with.
Strays(head, val, n) == {i \in 1 .. n : KindAt(head, val, i) = "question" /\ Loose(head, i)}
Home(secs) == IF secs # <<>> THEN secs[1].domain ELSE Domains[1]

\* A row at its place, with what it says; a question's domain is its heading's.
HasDomain(row, h, head, val, i, home) ==
  /\ row.index = h + i /\ row.kind = KindAt(head, val, i) /\ row.values = val[i]
  /\ row.kind = "question" =>
       \/ Loose(head, i) /\ row.domain = home
       \/ \E j \in 1 .. i : Top(head, i, j) /\ row.domain = head[j]

\* The section of the strays, before the others.
FirstSection(home, h, L) ==
  [domain |-> home, divider |-> 0, first |-> h + Min(L), last |-> h + Max(L),
   count |-> Cardinality(L), inferred |-> TRUE]

\* What is found on a sheet.
Settled(d, secs, h, head, val, n) ==
  /\ d.rows = [i \in 1 .. n |-> d.rows[i]]
  /\ \A i \in 1 .. n : HasDomain(d.rows[i], h, head, val, i, Home(secs))
  /\ Listed(secs, h, head, val, n, n)
  /\ d.sections = IF Strays(head, val, n) = {} THEN secs
                  ELSE <<FirstSection(Home(secs), h, Strays(head, val, n))>> \o secs

\* The questions above the first heading can be counted, and have a first and a last.
LEMMA StraysFinite ==
  ASSUME NEW head, NEW val, NEW n \in Nat
  PROVE  /\ IsFiniteSet(Strays(head, val, n)) /\ Cardinality(Strays(head, val, n)) \in Nat
         /\ Strays(head, val, n) # {} =>
              /\ Min(Strays(head, val, n)) \in Strays(head, val, n)
              /\ Max(Strays(head, val, n)) \in Strays(head, val, n)
              /\ \A i \in Strays(head, val, n) : Min(Strays(head, val, n)) <= i /\ i <= Max(Strays(head, val, n))
<1>1. IsFiniteSet(1 .. n) BY FS_Interval
<1>2. Strays(head, val, n) \in SUBSET (1 .. n) BY DEF Strays
<1>3. IsFiniteSet(Strays(head, val, n)) BY <1>1, <1>2, FS_Subset
<1>4. PICK L : L = Strays(head, val, n) OBVIOUS
<1>5. L \in SUBSET Nat /\ \A i \in L : i <= n BY <1>2, <1>4
<1>6. L # {} => Min(L) \in L /\ Max(L) \in L /\ \A i \in L : Min(L) <= i /\ i <= Max(L)
  BY <1>5, MinIs, MaxIs
<1> QED BY <1>3, <1>4, <1>6, FS_CardinalityType

\* The questions above the first heading go with the first section's domain.
LEMMA Settles ==
  ASSUME NEW s, NEW h \in Nat, NEW head, NEW val, NEW n \in Nat, Known(s, h, head, val, n)
  PROVE  Settled(Attribute(s.rows, Flush(s)), Flush(s), h, head, val, n)
<1>1. PICK rows, secs, d, home : /\ rows = s.rows /\ secs = Flush(s) /\ d = Attribute(rows, secs)
                                 /\ home = Home(secs)
  OBVIOUS
<1>2. /\ rows = [i \in 1 .. n |-> rows[i]]
      /\ \A i \in 1 .. n : RowIs(rows[i], h, head, val, i)
  BY <1>1 DEF Known, RowsAre
<1>3. Listed(secs, h, head, val, n, n) BY <1>1, Flushed
<1>4. PICK L : L = Strays(head, val, n) OBVIOUS
<1>5. ASSUME NEW i \in 1 .. n
      PROVE  /\ rows[i].index = h + i /\ rows[i].kind = KindAt(head, val, i) /\ rows[i].values = val[i]
             /\ i \in L <=> rows[i].kind = "question" /\ rows[i].domain = NoDomain
             /\ rows[i].kind = "question" /\ i \notin L =>
                  \E j \in 1 .. i : Top(head, i, j) /\ rows[i].domain = head[j]
  <2>1. RowIs(rows[i], h, head, val, i) BY <1>2
  <2>2. PICK row : row = rows[i] OBVIOUS
  <2>3. row = [index |-> h + i, kind |-> KindAt(head, val, i), domain |-> row.domain, values |-> val[i]]
    BY <2>1, <2>2 DEF RowIs
  <2>4. row.index = h + i /\ row.kind = KindAt(head, val, i) /\ row.values = val[i] BY <2>3
  <2>5. i \in L <=> row.kind = "question" /\ Loose(head, i) BY <1>4, <2>4 DEF Strays
  <2>6. row.kind = "question" => \/ Loose(head, i) /\ row.domain = NoDomain
                                 \/ \E j \in 1 .. i : Top(head, i, j) /\ row.domain = head[j]
    BY <2>1, <2>2, <2>4 DEF RowIs
  <2>7. \A j \in 1 .. i : Top(head, i, j) => head[j] # NoDomain /\ ~Loose(head, i)
    BY DEF Top, Loose
  <2> QED BY <2>2, <2>4, <2>5, <2>6, <2>7
<1>6. L = {i \in DOMAIN rows : rows[i].kind = "question" /\ rows[i].domain = NoDomain}
  <2>1. DOMAIN rows = 1 .. n BY <1>2
  <2>2. \A i \in L : i \in 1 .. n BY <1>4 DEF Strays
  <2> QED BY <1>5, <2>1, <2>2
<1>7. d = IF L = {} THEN [rows |-> rows, sections |-> secs]
          ELSE [rows |-> [i \in DOMAIN rows |-> IF i \in L THEN [rows[i] EXCEPT !.domain = home] ELSE rows[i]],
                sections |-> <<[domain |-> home, divider |-> 0, first |-> rows[Min(L)].index,
                                last |-> rows[Max(L)].index, count |-> Cardinality(L),
                                inferred |-> TRUE]>> \o secs]
  BY <1>1, <1>6 DEF Attribute, Home
<1>8. \A i \in 1 .. n : i \in L => KindAt(head, val, i) = "question" /\ Loose(head, i)
  BY <1>4 DEF Strays
<1>9. CASE L = {}
  <2>1. d.rows = rows /\ d.sections = secs BY <1>7, <1>9
  <2>2. \A i \in 1 .. n : HasDomain(rows[i], h, head, val, i, home)
    BY <1>5, <1>9 DEF HasDomain
  <2> QED BY <1>1, <1>2, <1>3, <1>4, <1>9, <2>1, <2>2 DEF Settled
<1>10. CASE L # {}
  <2>1. PICK new : new = [i \in 1 .. n |-> IF i \in L THEN [rows[i] EXCEPT !.domain = home] ELSE rows[i]]
    OBVIOUS
  <2>2. DOMAIN rows = 1 .. n BY <1>2
  <2>3. d.rows = new BY <1>7, <1>10, <2>1, <2>2
  <2>4. Min(L) \in 1 .. n /\ Max(L) \in 1 .. n
    <3>1. Min(L) \in L /\ Max(L) \in L BY <1>4, <1>10, StraysFinite
    <3> QED BY <1>4, <3>1 DEF Strays
  <2>5. rows[Min(L)].index = h + Min(L) /\ rows[Max(L)].index = h + Max(L) BY <1>5, <2>4
  <2>6. d.sections = <<FirstSection(home, h, L)>> \o secs
    BY <1>7, <1>10, <2>5 DEF FirstSection
  <2>7. ASSUME NEW i \in 1 .. n PROVE HasDomain(new[i], h, head, val, i, home)
    <3>1. CASE i \in L
      <4>1. PICK row, old : row = new[i] /\ old = rows[i] OBVIOUS
      <4>2. row = [old EXCEPT !.domain = home] BY <2>1, <3>1, <4>1
      <4>3. RowIs(old, h, head, val, i) BY <1>2, <4>1
      <4>4. old = [index |-> h + i, kind |-> KindAt(head, val, i), domain |-> old.domain, values |-> val[i]]
        BY <4>3 DEF RowIs
      <4>5. row = [index |-> h + i, kind |-> KindAt(head, val, i), domain |-> home, values |-> val[i]]
        BY <4>2, <4>4
      <4>6. row.index = h + i /\ row.kind = KindAt(head, val, i) /\ row.values = val[i] /\ row.domain = home
        BY <4>5
      <4> QED BY <1>8, <3>1, <4>1, <4>6 DEF HasDomain
    <3>2. CASE i \notin L
      <4>1. new[i] = rows[i] BY <2>1, <3>2
      <4> QED BY <1>5, <3>2, <4>1 DEF HasDomain
    <3> QED BY <3>1, <3>2
  <2>8. new = [i \in 1 .. n |-> new[i]] BY <2>1
  <2> QED BY <1>1, <1>3, <1>4, <1>10, <2>3, <2>6, <2>7, <2>8 DEF Settled
<1> QED BY <1>1, <1>9, <1>10

\* The sections go down the sheet, from heading to heading with questions.
Rises(tops, secs, h, head, val, n, m) ==
  /\ secs = [a \in 1 .. m |-> secs[a]] /\ tops \in [1 .. m -> 1 .. n]
  /\ \A a \in 1 .. m : /\ head[tops[a]] # NoDomain /\ Under(head, val, n, tops[a]) # {}
                       /\ SectionIs(secs[a], h, head, val, n, tops[a])
  /\ \A a, b \in 1 .. m : a < b => tops[a] < tops[b]
  /\ \A j \in 1 .. n : head[j] # NoDomain /\ Under(head, val, n, j) # {} => \E a \in 1 .. m : tops[a] = j

\* The sections can be numbered by the headings they stand under.
LEMMA Rising ==
  ASSUME NEW secs, NEW h, NEW head, NEW val, NEW n, Listed(secs, h, head, val, n, n)
  PROVE  \E tops : \E m \in Nat : Rises(tops, secs, h, head, val, n, m)
<1>0. PICK tops : Lists(tops, secs, h, head, val, n, n) BY DEF Listed
<1>1. PICK m \in Nat : secs = [a \in 1 .. m |-> secs[a]] /\ tops \in [1 .. m -> 1 .. n] BY <1>0 DEF Lists
<1>2. DOMAIN tops = 1 .. m BY <1>1
<1>3. Rises(tops, secs, h, head, val, n, m) BY <1>0, <1>1, <1>2, Zenon DEF Lists, Rises
<1> QED BY <1>3

\* So every question of the page is under the heading it is filed under.
LEMMA UnderHeadings ==
  ASSUME NEW g, IsGrid(g), g = GridFor(page.sheet).rows, NEW h \in Nat, h = page.header,
         NEW n, n = Below(g, h), NEW head, head = Heads(g, h), NEW val,
         NEW secs, NEW d, Settled(d, secs, h, head, val, n), d.rows = page.rows
  PROVE  EachUnderItsHeading
<1> DEFINE headings == {r \in (page.header + 1) .. Len(GridFor(page.sheet).rows) :
                          Heading(GridFor(page.sheet).rows[r]) # NoDomain}
           asked    == {page.rows[i].index : i \in {j \in DOMAIN page.rows : page.rows[j].kind = "question"}}
           over(r)  == {x \in headings : x < r}
           opened   == {Max(over(r)) : r \in {x \in asked : over(x) # {}}}
           home(r)  == CASE over(r) # {} -> Heading(GridFor(page.sheet).rows[Max(over(r))])
                         [] over(r) = {} /\ opened # {} -> Heading(GridFor(page.sheet).rows[Min(opened)])
                         [] OTHER -> Domains[1]
<1>1. n \in Nat /\ Len(g) \in Nat BY BelowNat
<1>2. \A k \in 1 .. n : head[k] = Heading(g[h + k]) BY DEF Heads
<1>3. \A r : r \in (h + 1) .. Len(g) <=> \E k \in 1 .. n : r = h + k
  <2>1. CASE h < Len(g)
    <3>1. n = Len(g) - h BY <2>1 DEF Below
    <3>2. ASSUME NEW r \in (h + 1) .. Len(g) PROVE \E k \in 1 .. n : r = h + k
      <4>1. r - h \in 1 .. n /\ r = h + (r - h) BY <1>1, <3>1
      <4> QED BY <4>1
    <3>3. \A k \in 1 .. n : h + k \in (h + 1) .. Len(g) BY <1>1, <3>1
    <3> QED BY <3>2, <3>3
  <2>2. CASE ~(h < Len(g))
    <3>1. n = 0 BY <2>2 DEF Below
    <3> QED BY <1>1, <2>2, <3>1
  <2> QED BY <2>1, <2>2
<1>4. \A r : r \in headings <=> \E k \in 1 .. n : r = h + k /\ head[k] # NoDomain BY <1>2, <1>3
<1>5. headings \in SUBSET Nat /\ \A r \in headings : r <= h + n
  BY <1>1, <1>4
<1>6. ASSUME NEW i \in 1 .. n, NEW j \in 1 .. i, Top(head, i, j), head[i] = NoDomain
      PROVE  over(h + i) # {} /\ Max(over(h + i)) = h + j
  <2>1. j \in 1 .. n /\ j # i /\ head[j] # NoDomain /\ h + j < h + i /\ j \in Nat BY <1>1, <1>6 DEF Top
  <2>2. h + j \in over(h + i) BY <1>4, <2>1
  <2>3. ASSUME NEW x \in over(h + i) PROVE x <= h + j
    <3>1. PICK k \in 1 .. n : x = h + k /\ head[k] # NoDomain BY <1>4
    <3>2. x < h + i OBVIOUS
    <3>3. k < i /\ k \in Nat BY <3>1, <3>2
    <3>4. ~(j < k) BY <1>1, <1>6, <3>1, <3>3 DEF Top
    <3> QED BY <2>1, <3>1, <3>3, <3>4
  <2>4. over(h + i) \in SUBSET Nat BY <1>5
  <2>9. PICK S : S = over(h + i) OBVIOUS
  <2>5. PICK b \in Nat : b = h + j BY <2>1
  <2>6. b \in S /\ S \in SUBSET Nat /\ \A x \in S : x <= b BY <2>2, <2>3, <2>4, <2>5, <2>9
  <2>7. Max(S) \in S /\ \A x \in S : x <= Max(S) BY <2>6, MaxIs
  <2>10. PICK l \in Nat : l = Max(S) BY <2>6, <2>7
  <2>8. Max(S) = b BY <2>5, <2>6, <2>7, <2>10
  <2> QED BY <2>5, <2>6, <2>8, <2>9
<1>7. ASSUME NEW i \in 1 .. n, Loose(head, i) PROVE over(h + i) = {}
  <2>1. ASSUME NEW x \in over(h + i) PROVE FALSE
    <3>1. PICK k \in 1 .. n : x = h + k /\ head[k] # NoDomain BY <1>4
    <3>2. x < h + i OBVIOUS
    <3>3. k \in 1 .. i BY <3>1, <3>2
    <3> QED BY <1>7, <3>1, <3>3 DEF Loose
  <2> QED BY <2>1
<1>8. DOMAIN page.rows = 1 .. n /\ \A i \in 1 .. n : HasDomain(page.rows[i], h, head, val, i, Home(secs))
  <2>1. d.rows = [i \in 1 .. n |-> d.rows[i]] BY DEF Settled
  <2>2. DOMAIN d.rows = 1 .. n BY <2>1
  <2> QED BY <2>2 DEF Settled
<1>9. \A i \in 1 .. n : KindAt(head, val, i) = "question" => head[i] = NoDomain BY DEF KindAt
<1>10. \A r : r \in asked <=> \E i \in 1 .. n : r = h + i /\ KindAt(head, val, i) = "question"
  BY <1>8 DEF HasDomain
<1>11. ASSUME NEW x PROVE x \in opened <=> \E j \in 1 .. n : /\ x = h + j /\ head[j] # NoDomain
                                                           /\ Under(head, val, n, j) # {}
  <2>1. ASSUME x \in opened
        PROVE  \E j \in 1 .. n : x = h + j /\ head[j] # NoDomain /\ Under(head, val, n, j) # {}
    <3>1. PICK r \in asked : over(r) # {} /\ x = Max(over(r)) BY <2>1
    <3> HIDE DEF asked, over, opened
    <3>2. PICK i \in 1 .. n : r = h + i /\ KindAt(head, val, i) = "question" BY <1>10, <3>1
    <3>3. ~Loose(head, i) BY <1>7, <3>1, <3>2
    <3>4. PICK j \in 1 .. i : Top(head, i, j) BY <1>8, <3>2, <3>3 DEF HasDomain
    <3>5. x = h + j BY <1>6, <1>9, <3>1, <3>2, <3>4
    <3>6. j \in 1 .. n /\ head[j] # NoDomain BY <1>1, <3>4 DEF Top
    <3>7. i \in Under(head, val, n, j) BY <3>2, <3>4 DEF Under
    <3> QED BY <3>5, <3>6, <3>7
  <2>2. ASSUME NEW j \in 1 .. n, x = h + j, head[j] # NoDomain, Under(head, val, n, j) # {}
        PROVE  x \in opened
    <3>1. PICK i \in 1 .. n : KindAt(head, val, i) = "question" /\ Top(head, i, j) BY <2>2 DEF Under
    <3>2. j \in 1 .. i BY <3>1 DEF Top
    <3>3. over(h + i) # {} /\ Max(over(h + i)) = h + j BY <1>6, <1>9, <3>1, <3>2
    <3>4. h + i \in asked BY <1>10, <3>1
    <3> HIDE DEF asked, over
    <3> QED BY <2>2, <3>3, <3>4
  <2> HIDE DEF opened
  <2> QED BY <2>1, <2>2
<1> HIDE DEF over, asked, headings, opened
<1>12. PICK tops : \E m \in Nat : Rises(tops, secs, h, head, val, n, m)
  <2>1. Listed(secs, h, head, val, n, n) BY DEF Settled
  <2> QED BY <2>1, Rising
<1>17. PICK m \in Nat : Rises(tops, secs, h, head, val, n, m) BY <1>12
<1>13. /\ secs = [a \in 1 .. m |-> secs[a]] /\ tops \in [1 .. m -> 1 .. n]
       /\ \A a \in 1 .. m : /\ head[tops[a]] # NoDomain /\ Under(head, val, n, tops[a]) # {}
                            /\ SectionIs(secs[a], h, head, val, n, tops[a])
       /\ \A a, b \in 1 .. m : a < b => tops[a] < tops[b]
       /\ \A j \in 1 .. n : head[j] # NoDomain /\ Under(head, val, n, j) # {} => \E a \in 1 .. m : tops[a] = j
  BY <1>17, Zenon DEF Rises
<1>14. opened = {} => Home(secs) = Domains[1]
  <2>1. ASSUME m # 0 PROVE opened # {}
    <3>1. 1 \in 1 .. m /\ tops[1] \in 1 .. n BY <1>13, <2>1
    <3>2. PICK t \in 1 .. n : t = tops[1] /\ head[t] # NoDomain /\ Under(head, val, n, t) # {} BY <1>13, <3>1
    <3>3. h + t \in opened BY <1>11, <3>2
    <3> QED BY <3>3
  <2>2. m = 0 => secs = <<>> BY <1>13
  <2> QED BY <2>1, <2>2 DEF Home
<1>15. opened # {} => Home(secs) = Heading(g[Min(opened)])
  <2> SUFFICES ASSUME opened # {} PROVE Home(secs) = Heading(g[Min(opened)]) OBVIOUS
  <2>1. m # 0 /\ 1 \in 1 .. m
    <3>1. PICK x \in opened : TRUE OBVIOUS
    <3>2. PICK j \in 1 .. n : head[j] # NoDomain /\ Under(head, val, n, j) # {} BY <1>11, <3>1
    <3>3. PICK a \in 1 .. m : tops[a] = j BY <1>13, <3>2
    <3> QED BY <3>3
  <2>2. PICK t \in 1 .. n : t = tops[1] BY <1>13, <2>1
  <2>3. h + t \in opened BY <1>11, <1>13, <2>1, <2>2
  <2>4. ASSUME NEW x \in opened PROVE x \in Nat /\ h + t <= x
    <3>1. PICK j \in 1 .. n : x = h + j /\ head[j] # NoDomain /\ Under(head, val, n, j) # {} BY <1>11
    <3>2. PICK a \in 1 .. m : tops[a] = j BY <1>13, <3>1
    <3>3. a = 1 \/ 1 < a BY <3>2
    <3>4. t <= j BY <1>13, <2>1, <2>2, <3>2, <3>3
    <3> QED BY <3>1, <3>4
  <2>5. Min(opened) = h + t
    <3>1. opened \in SUBSET Nat BY <2>4
    <3>2. Min(opened) \in opened /\ \A x \in opened : Min(opened) <= x BY <3>1, MinIs
    <3>3. PICK l \in Nat : l = Min(opened) BY <3>1, <3>2
    <3>4. PICK b \in Nat : b = h + t BY <2>2
    <3>5. l <= b /\ b <= l BY <2>3, <2>4, <3>2, <3>3, <3>4
    <3> QED BY <3>3, <3>4, <3>5
  <2>6. SectionIs(secs[1], h, head, val, n, t) BY <1>13, <2>1, <2>2
  <2>7. PICK sec : sec = secs[1] OBVIOUS
  <2>8. sec.domain = head[t]
    <3>1. sec = [domain |-> head[t], divider |-> h + t, first |-> h + t + 1, last |-> sec.last,
                 count |-> Cardinality(Under(head, val, n, t)), inferred |-> FALSE]
      BY <2>6, <2>7 DEF SectionIs
    <3> QED BY <3>1
  <2>9. secs # <<>> BY <1>13, <2>1
  <2>10. Home(secs) = head[t] BY <2>7, <2>8, <2>9 DEF Home
  <2> QED BY <1>2, <2>2, <2>5, <2>10
<1>16. ASSUME NEW i \in DOMAIN page.rows, page.rows[i].kind = "question"
       PROVE  page.rows[i].domain = home(page.rows[i].index)
  <2>1. i \in 1 .. n /\ HasDomain(page.rows[i], h, head, val, i, Home(secs)) BY <1>8
  <2>2. page.rows[i].index = h + i /\ head[i] = NoDomain BY <1>9, <1>16, <2>1 DEF HasDomain
  <2>3. CASE Loose(head, i) /\ page.rows[i].domain = Home(secs)
    <3>1. over(h + i) = {} BY <1>7, <2>1, <2>3
    <3>2. CASE opened = {} BY <1>14, <2>2, <2>3, <3>1, <3>2
    <3>3. CASE opened # {} BY <1>15, <2>2, <2>3, <3>1, <3>3
    <3> QED BY <3>2, <3>3
  <2>4. ASSUME NEW j \in 1 .. i, Top(head, i, j), page.rows[i].domain = head[j]
        PROVE  page.rows[i].domain = home(page.rows[i].index)
    <3>1. over(h + i) # {} /\ Max(over(h + i)) = h + j BY <1>6, <2>1, <2>2, <2>4
    <3>2. j \in 1 .. n BY <1>1, <2>1, <2>4
    <3>3. head[j] = Heading(g[h + j]) BY <1>2, <3>2
    <3>4. home(h + i) = Heading(g[h + j]) BY <3>1
    <3> QED BY <2>2, <2>4, <3>3, <3>4
  <2> QED BY <1>16, <2>1, <2>3, <2>4 DEF HasDomain
<1> QED BY <1>16, Zenon DEF EachUnderItsHeading, home, over, opened, headings, asked

\* The questions between a section's first and last row.
Within(sec, h, head, val, n) ==
  {i \in 1 .. n : KindAt(head, val, i) = "question" /\ h + i \in sec.first .. sec.last}

\* A section is the questions under heading j, as many as it says.
SectionOf(sec, h, head, val, n, j) ==
  /\ Within(sec, h, head, val, n) = Under(head, val, n, j)
  /\ sec.domain = head[j] /\ sec.count = Cardinality(Under(head, val, n, j))
  /\ sec.first = h + j + 1
  /\ \E i \in Under(head, val, n, j) : sec.last = h + i

\* A section under a heading spans that heading's questions and no others.
LEMMA SectionHolds ==
  ASSUME NEW sec, NEW h \in Nat, NEW head, NEW val, NEW n \in Nat, NEW j \in 1 .. n,
         SectionIs(sec, h, head, val, n, j), Under(head, val, n, j) # {}, head[j] # NoDomain
  PROVE  SectionOf(sec, h, head, val, n, j)
<1>1. PICK U : U = Under(head, val, n, j) OBVIOUS
<1>2. /\ sec = [domain |-> head[j], divider |-> h + j, first |-> h + j + 1, last |-> sec.last,
                count |-> Cardinality(U), inferred |-> FALSE]
      /\ \E i \in U : sec.last = h + i /\ \A l \in U : l <= i
  BY <1>1 DEF SectionIs
<1>3. PICK last \in U : sec.last = h + last /\ \A l \in U : l <= last BY <1>2
<1>4. sec.domain = head[j] /\ sec.count = Cardinality(U) /\ sec.first = h + j + 1 BY <1>2
<1>5. \A i : i \in U <=> i \in 1 .. n /\ KindAt(head, val, i) = "question" /\ Top(head, i, j)
  BY <1>1 DEF Under
<1>6. last \in 1 .. n /\ Top(head, last, j) BY <1>5
<1>7. ASSUME NEW i \in Within(sec, h, head, val, n) PROVE i \in U
  <2>1. i \in 1 .. n /\ KindAt(head, val, i) = "question" /\ h + i \in (h + j + 1) .. (h + last)
    BY <1>3, <1>4 DEF Within
  <2>2. i \in (j + 1) .. last BY <1>6, <2>1
  <2>3. j \in 1 .. i BY <2>1, <2>2
  <2>4. \A l \in (j + 1) .. i : l \in (j + 1) .. last BY <1>6, <2>2
  <2>5. Top(head, i, j) BY <1>6, <2>3, <2>4 DEF Top
  <2> QED BY <1>5, <2>1, <2>5
<1>8. ASSUME NEW i \in U PROVE i \in Within(sec, h, head, val, n)
  <2>1. i \in 1 .. n /\ KindAt(head, val, i) = "question" /\ Top(head, i, j) /\ i <= last BY <1>3, <1>5
  <2>2. j \in 1 .. i /\ i # j
    <3>1. head[i] = NoDomain BY <2>1 DEF KindAt
    <3> QED BY <2>1, <3>1 DEF Top
  <2>3. h + i \in (h + j + 1) .. (h + last) BY <1>6, <2>1, <2>2
  <2> QED BY <1>3, <1>4, <2>1, <2>3 DEF Within
<1>9. Within(sec, h, head, val, n) = U BY <1>7, <1>8
<1> QED BY <1>1, <1>3, <1>4, <1>9 DEF SectionOf

\* The section made for the questions above the first heading spans those.
LEMMA FirstSectionHolds ==
  ASSUME NEW home, NEW h \in Nat, NEW head, NEW val, NEW n \in Nat, Strays(head, val, n) # {},
         NEW sec, sec = FirstSection(home, h, Strays(head, val, n))
  PROVE  /\ Within(sec, h, head, val, n) = Strays(head, val, n)
         /\ sec.domain = home /\ sec.count = Cardinality(Strays(head, val, n))
         /\ \E i \in Strays(head, val, n) : sec.last = h + i
<1>1. PICK L : L = Strays(head, val, n) OBVIOUS
<1>2. PICK min, max : min = Min(L) /\ max = Max(L) OBVIOUS
<1>3. min \in L /\ max \in L /\ \A i \in L : min <= i /\ i <= max BY <1>1, <1>2, StraysFinite
<1>4. /\ sec.first = h + min /\ sec.last = h + max /\ sec.domain = home /\ sec.count = Cardinality(L)
  BY <1>1, <1>2 DEF FirstSection
<1>5. \A i : i \in L <=> i \in 1 .. n /\ KindAt(head, val, i) = "question" /\ Loose(head, i)
  BY <1>1 DEF Strays
<1>6. min \in 1 .. n /\ max \in 1 .. n /\ Loose(head, max) BY <1>3, <1>5
<1>7. ASSUME NEW i \in Within(sec, h, head, val, n) PROVE i \in L
  <2>1. i \in 1 .. n /\ KindAt(head, val, i) = "question" /\ h + i \in (h + min) .. (h + max)
    BY <1>4 DEF Within
  <2>2. \A l \in 1 .. i : l \in 1 .. max BY <1>6, <2>1
  <2>3. Loose(head, i) BY <1>6, <2>2 DEF Loose
  <2> QED BY <1>5, <2>1, <2>3
<1>8. ASSUME NEW i \in L PROVE i \in Within(sec, h, head, val, n)
  <2>1. i \in 1 .. n /\ KindAt(head, val, i) = "question" /\ min <= i /\ i <= max BY <1>3, <1>5
  <2>2. h + i \in (h + min) .. (h + max) BY <1>6, <2>1
  <2> QED BY <1>4, <2>1, <2>2 DEF Within
<1>9. Within(sec, h, head, val, n) = L BY <1>7, <1>8
<1> QED BY <1>1, <1>3, <1>4, <1>9

\* Section a of the list is as many questions as it says, of one domain.
AddsUp(rows, secs, h, head, val, n) ==
  /\ \A i \in 1 .. n : KindAt(head, val, i) = "question" =>
       \E k \in DOMAIN secs : i \in Within(secs[k], h, head, val, n)
  /\ \A k \in DOMAIN secs :
       /\ Cardinality(Within(secs[k], h, head, val, n)) = secs[k].count
       /\ \A i \in Within(secs[k], h, head, val, n) : rows[i].domain = secs[k].domain
       /\ k > 1 => secs[k - 1].last < secs[k].first

\* Every question is in a section, and the sections are as long as they say.
LEMMA Adding ==
  ASSUME NEW h \in Nat, NEW n \in Nat, NEW head, NEW val, NEW secs, NEW d,
         Settled(d, secs, h, head, val, n)
  PROVE  AddsUp(d.rows, d.sections, h, head, val, n)
<1>1. PICK L : L = Strays(head, val, n) OBVIOUS
<1>2. PICK rows : rows = d.rows OBVIOUS
<1>3. /\ \A i \in 1 .. n : HasDomain(rows[i], h, head, val, i, Home(secs))
      /\ d.sections = IF L = {} THEN secs ELSE <<FirstSection(Home(secs), h, L)>> \o secs
  BY <1>1, <1>2 DEF Settled
<1>4. PICK tops : \E m \in Nat : Rises(tops, secs, h, head, val, n, m)
  <2>1. Listed(secs, h, head, val, n, n) BY DEF Settled
  <2> QED BY <2>1, Rising
<1>5. PICK m \in Nat : Rises(tops, secs, h, head, val, n, m) BY <1>4
<1>6. /\ secs = [a \in 1 .. m |-> secs[a]] /\ tops \in [1 .. m -> 1 .. n]
      /\ \A a \in 1 .. m : /\ head[tops[a]] # NoDomain /\ Under(head, val, n, tops[a]) # {}
                           /\ SectionIs(secs[a], h, head, val, n, tops[a])
      /\ \A a, b \in 1 .. m : a < b => tops[a] < tops[b]
      /\ \A j \in 1 .. n : head[j] # NoDomain /\ Under(head, val, n, j) # {} => \E a \in 1 .. m : tops[a] = j
  BY <1>5, Zenon DEF Rises
<1>7. ASSUME NEW a \in 1 .. m
      PROVE  /\ Within(secs[a], h, head, val, n) = Under(head, val, n, tops[a])
             /\ secs[a].domain = head[tops[a]] /\ secs[a].count = Cardinality(Under(head, val, n, tops[a]))
             /\ secs[a].first = h + tops[a] + 1
             /\ \E i \in Under(head, val, n, tops[a]) : secs[a].last = h + i
  <2>0. PICK j \in 1 .. n : j = tops[a] BY <1>6
  <2>1. PICK sec : j = tops[a] /\ sec = secs[a] BY <2>0
  <2>2. SectionIs(sec, h, head, val, n, j) /\ Under(head, val, n, j) # {} /\ head[j] # NoDomain
    BY <1>6, <2>1
  <2>3. SectionOf(sec, h, head, val, n, j) BY <2>2, SectionHolds
  <2> QED BY <2>1, <2>3 DEF SectionOf
<1>8. ASSUME NEW i \in 1 .. n, KindAt(head, val, i) = "question"
      PROVE  \/ i \in L /\ rows[i].domain = Home(secs)
             \/ \E a \in 1 .. m : i \in Under(head, val, n, tops[a]) /\ rows[i].domain = head[tops[a]]
  <2>1. \/ Loose(head, i) /\ rows[i].domain = Home(secs)
        \/ \E j \in 1 .. i : Top(head, i, j) /\ rows[i].domain = head[j]
    BY <1>3, <1>8 DEF HasDomain
  <2>2. ASSUME NEW j \in 1 .. i, Top(head, i, j), rows[i].domain = head[j]
        PROVE  \E a \in 1 .. m : i \in Under(head, val, n, tops[a]) /\ rows[i].domain = head[tops[a]]
    <3>1. i \in Under(head, val, n, j) BY <1>8, <2>2 DEF Under
    <3>2. head[j] # NoDomain /\ j \in 1 .. n BY <2>2 DEF Top
    <3>3. PICK a \in 1 .. m : tops[a] = j BY <1>6, <3>1, <3>2
    <3> QED BY <2>2, <3>1, <3>3
  <2> QED BY <1>1, <1>8, <2>1, <2>2 DEF Strays
<1>9. ASSUME NEW a \in 1 .. m, NEW i \in Under(head, val, n, tops[a])
      PROVE  rows[i].domain = head[tops[a]]
  <2>1. i \in 1 .. n /\ KindAt(head, val, i) = "question" /\ Top(head, i, tops[a]) BY DEF Under
  <2>2. head[tops[a]] # NoDomain /\ tops[a] \in 1 .. i BY <1>6, <2>1 DEF Top
  <2>3. ~Loose(head, i) BY <2>2 DEF Loose
  <2>4. PICK j \in 1 .. i : Top(head, i, j) /\ rows[i].domain = head[j] BY <1>3, <2>1, <2>3 DEF HasDomain
  <2>5. j = tops[a]
    <3>1. i \in Nat BY <2>1
    <3> QED BY <2>1, <2>4, <3>1, TopOnce
  <2> QED BY <2>4, <2>5
<1>10. ASSUME NEW a \in 1 .. m, NEW b \in 1 .. m, a < b PROVE secs[a].last < secs[b].first
  <2>1. PICK i \in Under(head, val, n, tops[a]) : secs[a].last = h + i BY <1>7
  <2>2. i \in 1 .. n /\ Top(head, i, tops[a]) BY <2>1 DEF Under
  <2>3. PICK s \in 1 .. n, t \in 1 .. n : s = tops[a] /\ t = tops[b] BY <1>6
  <2>4. s < t /\ head[t] # NoDomain BY <1>6, <1>10, <2>3
  <2>5. ~(t <= i) BY <2>2, <2>3, <2>4 DEF Top
  <2>6. secs[b].first = h + t + 1 BY <1>7, <2>3
  <2> QED BY <2>1, <2>2, <2>5, <2>6
<1>11. CASE L = {}
  <2>1. d.sections = secs /\ DOMAIN secs = 1 .. m BY <1>3, <1>6, <1>11
  <2>2. \A i \in 1 .. n : KindAt(head, val, i) = "question" =>
          \E k \in 1 .. m : i \in Within(secs[k], h, head, val, n)
    BY <1>7, <1>8, <1>11
  <2>3. ASSUME NEW k \in 1 .. m
        PROVE  /\ Cardinality(Within(secs[k], h, head, val, n)) = secs[k].count
               /\ \A i \in Within(secs[k], h, head, val, n) : rows[i].domain = secs[k].domain
               /\ k > 1 => secs[k - 1].last < secs[k].first
    <3>1. Cardinality(Within(secs[k], h, head, val, n)) = secs[k].count BY <1>7
    <3>2. \A i \in Within(secs[k], h, head, val, n) : rows[i].domain = secs[k].domain BY <1>7, <1>9
    <3>3. ASSUME k > 1 PROVE secs[k - 1].last < secs[k].first
      <4>1. k - 1 \in 1 .. m /\ k - 1 < k BY <3>3
      <4> QED BY <1>10, <4>1
    <3> QED BY <3>1, <3>2, <3>3
  <2> QED BY <1>2, <2>1, <2>2, <2>3 DEF AddsUp
<1>12. CASE L # {}
  <2>1. PICK fs : fs = FirstSection(Home(secs), h, L) OBVIOUS
  <2>2. /\ Within(fs, h, head, val, n) = L
        /\ fs.domain = Home(secs) /\ fs.count = Cardinality(L)
        /\ \E i \in L : fs.last = h + i
    BY <1>1, <1>12, <2>1, FirstSectionHolds
  <2>3. PICK all : all = d.sections OBVIOUS
  <2>4. all = <<fs>> \o secs BY <1>3, <1>12, <2>1, <2>3
  <2>5. /\ DOMAIN all = 1 .. (m + 1) /\ all[1] = fs /\ \A k \in 1 .. m : all[k + 1] = secs[k]
    BY <1>6, <2>4
  <2>6. \A i \in 1 .. n : KindAt(head, val, i) = "question" =>
          \E k \in 1 .. (m + 1) : i \in Within(all[k], h, head, val, n)
    <3> SUFFICES ASSUME NEW i \in 1 .. n, KindAt(head, val, i) = "question"
                 PROVE  \E k \in 1 .. (m + 1) : i \in Within(all[k], h, head, val, n)
      OBVIOUS
    <3>1. CASE i \in L
      <4>1. 1 \in 1 .. (m + 1) OBVIOUS
      <4> QED BY <2>2, <2>5, <3>1, <4>1
    <3>2. CASE i \notin L
      <4>1. PICK a \in 1 .. m : i \in Under(head, val, n, tops[a]) BY <1>8, <3>2
      <4>2. i \in Within(all[a + 1], h, head, val, n) BY <1>7, <2>5, <4>1
      <4>3. a + 1 \in 1 .. (m + 1) OBVIOUS
      <4> QED BY <4>2, <4>3
    <3> QED BY <3>1, <3>2
  <2>7. ASSUME NEW k \in 1 .. (m + 1)
        PROVE  /\ Cardinality(Within(all[k], h, head, val, n)) = all[k].count
               /\ \A i \in Within(all[k], h, head, val, n) : rows[i].domain = all[k].domain
               /\ k > 1 => all[k - 1].last < all[k].first
    <3>1. CASE k = 1
      <4>1. ASSUME NEW i \in L PROVE rows[i].domain = Home(secs)
        <5>1. i \in 1 .. n /\ KindAt(head, val, i) = "question" /\ Loose(head, i) BY <1>1 DEF Strays
        <5>2. \A j \in 1 .. i : ~Top(head, i, j) BY <5>1 DEF Loose, Top
        <5> QED BY <1>3, <5>1, <5>2 DEF HasDomain
      <4> QED BY <2>2, <2>5, <3>1, <4>1
    <3>2. CASE k # 1
      <4>1. PICK a \in 1 .. m : k = a + 1
        <5>1. k - 1 \in 1 .. m /\ k = (k - 1) + 1 BY <3>2
        <5> QED BY <5>1
      <4>2. all[k] = secs[a] BY <2>5, <4>1
      <4>3. Cardinality(Within(all[k], h, head, val, n)) = all[k].count BY <1>7, <4>2
      <4>4. \A i \in Within(all[k], h, head, val, n) : rows[i].domain = all[k].domain BY <1>7, <1>9, <4>2
      <4>5. all[k - 1].last < all[k].first
        <5>1. CASE a = 1
          <6>1. all[k - 1] = fs BY <2>5, <4>1, <5>1
          <6>2. PICK i \in L : fs.last = h + i BY <2>2
          <6>3. i \in 1 .. n /\ Loose(head, i) BY <1>1 DEF Strays
          <6>4. PICK t \in 1 .. n : t = tops[a] BY <1>6
          <6>5. head[t] # NoDomain /\ secs[a].first = h + t + 1 BY <1>6, <1>7, <6>4
          <6>6. ~(t <= i) BY <6>3, <6>5 DEF Loose
          <6> QED BY <4>2, <6>1, <6>2, <6>3, <6>5, <6>6
        <5>2. CASE a # 1
          <6>1. a - 1 \in 1 .. m /\ a - 1 < a /\ k - 1 = (a - 1) + 1 BY <4>1, <5>2
          <6>2. all[k - 1] = secs[a - 1] BY <2>5, <6>1
          <6> QED BY <1>10, <4>2, <6>1, <6>2
        <5> QED BY <5>1, <5>2
      <4> QED BY <4>3, <4>4, <4>5
    <3> QED BY <3>1, <3>2
  <2>8. AddsUp(rows, all, h, head, val, n) BY <2>5, <2>6, <2>7 DEF AddsUp
  <2> QED BY <1>2, <2>3, <2>8
<1> QED BY <1>11, <1>12

\* So the page's summary of sections agrees with its rows.
LEMMA SectionsHold ==
  ASSUME NEW h \in Nat, NEW n \in Nat, NEW head, NEW val, NEW secs, NEW d,
         Settled(d, secs, h, head, val, n), d.rows = page.rows, d.sections = page.sections
  PROVE  SectionsAddUp
<1> DEFINE in(s) == {i \in DOMAIN page.rows : /\ page.rows[i].kind = "question"
                                              /\ page.rows[i].index \in s.first .. s.last}
           all   == {i \in DOMAIN page.rows : page.rows[i].kind = "question"}
<1>1. AddsUp(page.rows, page.sections, h, head, val, n) BY Adding
<1>2. DOMAIN page.rows = 1 .. n /\ \A i \in 1 .. n : HasDomain(page.rows[i], h, head, val, i, Home(secs))
  <2>1. d.rows = [i \in 1 .. n |-> d.rows[i]] BY DEF Settled
  <2>2. DOMAIN d.rows = 1 .. n BY <2>1
  <2> QED BY <2>2 DEF Settled
<1>3. \A s : in(s) = Within(s, h, head, val, n) BY <1>2 DEF Within, HasDomain
<1>4. \A i : i \in all <=> i \in 1 .. n /\ KindAt(head, val, i) = "question" BY <1>2 DEF HasDomain
<1>5. \A s : in(s) \in SUBSET all OBVIOUS
<1> HIDE DEF in, all
<1>6. UNION {in(page.sections[k]) : k \in DOMAIN page.sections} = all
  <2>1. \A i \in all : \E k \in DOMAIN page.sections : i \in in(page.sections[k])
    BY <1>1, <1>3, <1>4 DEF AddsUp
  <2> QED BY <1>5, <2>1
<1>7. \A k \in DOMAIN page.sections :
        /\ Cardinality(in(page.sections[k])) = page.sections[k].count
        /\ \A i \in in(page.sections[k]) : page.rows[i].domain = page.sections[k].domain
        /\ k > 1 => page.sections[k - 1].last < page.sections[k].first
  BY <1>1, <1>3 DEF AddsUp
<1> QED BY <1>6, <1>7, Zenon DEF SectionsAddUp, in, all

(***************************************************************************)
(* The mapping page                                                        *)
(***************************************************************************)
\* A file whose worksheets can be asked for by name.
Readable(book) ==
  /\ IsBook(book)
  /\ \A i \in DOMAIN book.sheets : ~book.csv => book.sheets[i].name # Blank
  /\ \A i, k \in DOMAIN book.sheets : book.sheets[i].name = book.sheets[k].name => i = k

\* The files that are uploaded can be read.
LEMMA UploadedBooks == \A book \in Books : Readable(book)
<1> SUFFICES ASSUME NEW book \in Books PROVE Readable(book) OBVIOUS
<1>1. IsBook(book)
  <2>1. PICK n \in Nat : n = Len(book.sheets) /\ book.sheets = [i \in 1 .. n |-> book.sheets[i]]
    BY BooksAssumption
  <2>2. \A i \in DOMAIN book.sheets : book.sheets[i].rows \in Seq(Seq(Texts)) BY BooksAssumption
  <2>3. PICK X : X = Texts OBVIOUS
  <2>4. \A i \in DOMAIN book.sheets : book.sheets[i].rows \in Seq(Seq(X)) BY <2>2, <2>3
  <2> QED BY <2>1, <2>4 DEF IsBook
<1> QED BY <1>1, BooksAssumption DEF Readable

\* So can the workbook that comes back from the vendor.
LEMMA ReturnedBook ==
  ASSUME NEW S, NEW list \in Seq(S)
  PROVE  Readable(ExportXLSX(list))
<1>1. IsBook(ExportXLSX(list)) BY ExportedBook
<1>2. \E rows, merged : ExportXLSX(list) = [csv |-> FALSE,
                          sheets |-> <<[name |-> "Sheet1", rows |-> rows, merged |-> merged]>>]
  BY DEF ExportXLSX
<1>3. PICK rows : \E merged : ExportXLSX(list) = [csv |-> FALSE,
                          sheets |-> <<[name |-> "Sheet1", rows |-> rows, merged |-> merged]>>]
  BY <1>2
<1>4. PICK merged : ExportXLSX(list) = [csv |-> FALSE,
                          sheets |-> <<[name |-> "Sheet1", rows |-> rows, merged |-> merged]>>]
  BY <1>3
<1>5. PICK book : book = ExportXLSX(list) OBVIOUS
<1>6. DOMAIN book.sheets = {1} /\ book.sheets[1].name = "Sheet1" BY <1>4, <1>5
<1>7. \A i \in DOMAIN book.sheets : book.sheets[i].name # Blank BY <1>6 DEF Blank
<1>8. \A i, k \in DOMAIN book.sheets : i = k BY <1>6
<1> QED BY <1>1, <1>5, <1>7, <1>8 DEF Readable

\* A worksheet's grid is found again by the name it came with.
LEMMA GridAgain ==
  ASSUME Readable(upload.book), NEW sheet, NEW grid, grid = GridFor(sheet), grid.rows # <<>>
  PROVE  /\ GridFor(grid.sheet) = grid
         /\ grid.sheet = Blank => upload.book.csv
<1>1. PICK book : book = upload.book OBVIOUS
<1>2. PICK n \in Nat : book.sheets = [i \in 1 .. n |-> book.sheets[i]] BY <1>1 DEF Readable, IsBook
<1>3. ASSUME NEW S \in SUBSET (1 .. n), S # {} PROVE Min(S) \in S
  <2>1. S \in SUBSET Nat OBVIOUS
  <2> QED BY <1>3, <2>1, MinIs
<1>4. NoGrid.rows = <<>> BY DEF NoGrid
<1>5. CASE book.csv
  <2>1. \A s : GridFor(s) = ReadGrid(book) BY <1>1, <1>5 DEF GridFor
  <2> QED BY <1>1, <1>5, <2>1
<1>6. CASE ~book.csv
  <2>1. PICK i \in 1 .. n : grid = GridOf(book.sheets[i])
    <3>1. CASE sheet # Blank
      <4> DEFINE named == {i \in DOMAIN book.sheets : book.sheets[i].name = sheet}
      <4>1. grid = IF named = {} THEN NoGrid ELSE GridOf(book.sheets[Min(named)])
        BY <1>1, <1>6, <3>1 DEF GridFor, ReadExcelSheet
      <4>2. named \in SUBSET (1 .. n) BY <1>2
      <4> HIDE DEF named
      <4>3. named # {} BY <1>4, <4>1
      <4>4. Min(named) \in 1 .. n BY <1>3, <4>2, <4>3
      <4> QED BY <4>1, <4>3, <4>4
    <3>2. CASE sheet = Blank
      <4> DEFINE fill(i) == CountFilled(book.sheets[i].rows)
                 fullest == {i \in DOMAIN book.sheets :
                               fill(i) > 0 /\ \A j \in DOMAIN book.sheets : fill(j) <= fill(i)}
      <4>1. grid = IF fullest = {} THEN NoGrid ELSE GridOf(book.sheets[Min(fullest)])
        BY <1>1, <1>6, <3>2 DEF GridFor, ReadGrid, ReadExcel
      <4>2. fullest \in SUBSET (1 .. n) BY <1>2
      <4> HIDE DEF fullest
      <4>3. fullest # {} BY <1>4, <4>1
      <4>4. Min(fullest) \in 1 .. n BY <1>3, <4>2, <4>3
      <4> QED BY <4>1, <4>3, <4>4
    <3> QED BY <3>1, <3>2
  <2>2. DOMAIN book.sheets = 1 .. n BY <1>2
  <2>3. grid.sheet = book.sheets[i].name BY <2>1 DEF GridOf
  <2>4. grid.sheet # Blank BY <1>1, <1>6, <2>2, <2>3 DEF Readable
  <2> DEFINE named == {k \in DOMAIN book.sheets : book.sheets[k].name = grid.sheet}
  <2>5. named = {i} BY <1>1, <2>2, <2>3 DEF Readable
  <2>6. GridFor(grid.sheet) = IF named = {} THEN NoGrid ELSE GridOf(book.sheets[Min(named)])
    BY <1>1, <1>6, <2>4 DEF GridFor, ReadExcelSheet
  <2> HIDE DEF named
  <2>7. Min(named) = i
    <3>1. named \in SUBSET (1 .. n) /\ named # {} BY <2>5
    <3> QED BY <1>3, <2>5, <3>1
  <2> QED BY <2>1, <2>4, <2>5, <2>6, <2>7
<1> QED BY <1>5, <1>6

\* Every sheet that is asked for reads as a grid.
LEMMA GridsFor == ASSUME Readable(upload.book), NEW sheet PROVE IsGrid(GridFor(sheet).rows)
BY GridsRead DEF GridFor, Readable

\* Found on a sheet under that header, or nothing at all.
FoundOrNone(rows, sections, g, h) ==
  \/ rows = <<>> /\ sections = <<>>
  \/ \E bound : /\ rows = DetectSections(g, h, bound).rows
                /\ sections = DetectSections(g, h, bound).sections

\* A preview has these fields.
IsPreview(p) ==
  p = [grid |-> p.grid, header |-> p.header, bound |-> p.bound, columns |-> p.columns, rows |-> p.rows,
       sections |-> p.sections, ingestable |-> p.ingestable]

\* The confirmed mapping starts below a row of the sheet.
MappedBelow == mapping # None => mapping.header \in Nat

\* The rows of a guessed preview are what DetectSections finds on its sheet.
LEMMA GuessFound ==
  ASSUME NEW grid, NEW h, NEW auto, NEW guess, NEW p, p = Guess(grid, h, auto, guess)
  PROVE  IsPreview(p) /\ p.grid = grid /\ p.header = h /\ FoundOrNone(p.rows, p.sections, grid.rows, h)
<1>1. PICK bound : bound = IF "question" \in DOMAIN auto \/ guess = 0 THEN auto
                           ELSE Bind(auto, "question", guess)
  OBVIOUS
<1>2. PICK found : found = IF "question" \in DOMAIN auto \/ guess # 0 THEN DetectSections(grid.rows, h, bound)
                           ELSE [rows |-> <<>>, sections |-> <<>>]
  OBVIOUS
<1>3. PICK columns : columns = IF "question" \in DOMAIN auto \/ guess = 0 THEN SyncCandidates(grid.rows, auto)
                               ELSE [SyncCandidates(grid.rows, auto) EXCEPT ![guess] = "question"]
  OBVIOUS
<1>4. p = [grid |-> grid, header |-> h, bound |-> bound, columns |-> columns,
           rows |-> found.rows, sections |-> found.sections, ingestable |-> QuestionRows(found.rows) # <<>>]
  BY <1>1, <1>2, <1>3, Zenon DEF Guess
<1>5. p.grid = grid /\ p.header = h /\ p.rows = found.rows /\ p.sections = found.sections BY <1>4
<1>6. IsPreview(p)
  <2>1. PICK i : i = (QuestionRows(found.rows) # <<>>) OBVIOUS
  <2>2. p = [grid |-> grid, header |-> h, bound |-> bound, columns |-> columns,
             rows |-> found.rows, sections |-> found.sections, ingestable |-> i]
    BY <1>4, <2>1, Zenon
  <2> QED BY <2>2 DEF IsPreview
<1> QED BY <1>2, <1>5, <1>6 DEF FoundOrNone

\* So are those of any preview, the confirmed mapping's included.
LEMMA PreviewFound ==
  ASSUME NEW grid, IsGrid(grid.rows), MappedBelow, NEW p, p = AsConfirmed(PreviewGrid(grid))
  PROVE  /\ IsPreview(p) /\ p.grid = grid /\ p.header \in Nat
         /\ FoundOrNone(p.rows, p.sections, grid.rows, p.header)
<1>1. PICK h : h = DetectHeaderRow(grid.rows) OBVIOUS
<1>2. h \in Nat BY <1>1, HeaderRow
<1>3. PICK q : q = PreviewGrid(grid) OBVIOUS
<1>4. q = Guess(grid, h, AutoMap(grid.rows, h), FallbackQuestionColumn(grid.rows, h))
  BY <1>1, <1>3 DEF PreviewGrid
<1>5. IsPreview(q) /\ q.grid = grid /\ q.header = h /\ FoundOrNone(q.rows, q.sections, grid.rows, h)
  BY <1>4, GuessFound
<1>6. CASE mapping = None \/ (mapping # None /\ mapping.sheet # q.grid.sheet)
  <2>1. p = q BY <1>3, <1>6 DEF AsConfirmed
  <2> QED BY <1>2, <1>5, <2>1
<1>7. CASE ~(mapping = None \/ (mapping # None /\ mapping.sheet # q.grid.sheet))
  <2>1. PICK found : found = DetectSections(grid.rows, mapping.header, mapping.bound) OBVIOUS
  <2>2. PICK columns : columns = SyncCandidates(grid.rows, mapping.bound) OBVIOUS
  <2>3. p = [q EXCEPT !.header = mapping.header, !.bound = mapping.bound, !.columns = columns,
                      !.rows = found.rows, !.sections = found.sections]
    BY <1>3, <1>5, <1>7, <2>1, <2>2 DEF AsConfirmed
  <2>4. PICK bound, header : bound = mapping.bound /\ header = mapping.header OBVIOUS
  <2>5. PICK a : a = [q EXCEPT !.header = header] OBVIOUS
  <2>6. PICK b : b = [a EXCEPT !.bound = bound] OBVIOUS
  <2>7. PICK c : c = [b EXCEPT !.columns = columns] OBVIOUS
  <2>8. PICK d : d = [c EXCEPT !.rows = found.rows] OBVIOUS
  <2>9. p = [d EXCEPT !.sections = found.sections] BY <2>3, <2>4, <2>5, <2>6, <2>7, <2>8
  <2>10. a = [grid |-> grid, header |-> header, bound |-> q.bound, columns |-> q.columns, rows |-> q.rows,
              sections |-> q.sections, ingestable |-> q.ingestable]
    BY <1>5, <2>5 DEF IsPreview
  <2>11. b = [grid |-> grid, header |-> header, bound |-> bound, columns |-> q.columns, rows |-> q.rows,
              sections |-> q.sections, ingestable |-> q.ingestable]
    BY <2>6, <2>10
  <2>12. c = [grid |-> grid, header |-> header, bound |-> bound, columns |-> columns, rows |-> q.rows,
              sections |-> q.sections, ingestable |-> q.ingestable]
    BY <2>7, <2>11
  <2>13. d = [grid |-> grid, header |-> header, bound |-> bound, columns |-> columns, rows |-> found.rows,
              sections |-> q.sections, ingestable |-> q.ingestable]
    BY <2>8, <2>12
  <2>14. p = [grid |-> grid, header |-> header, bound |-> bound, columns |-> columns, rows |-> found.rows,
              sections |-> found.sections, ingestable |-> q.ingestable]
    BY <2>9, <2>13
  <2>15. IsPreview(p) BY <2>14 DEF IsPreview
  <2>16. p.grid = grid /\ p.header = header /\ p.rows = found.rows /\ p.sections = found.sections BY <2>14
  <2>17. header \in Nat BY <1>7, <2>4 DEF MappedBelow
  <2>18. FoundOrNone(p.rows, p.sections, grid.rows, p.header) BY <2>1, <2>4, <2>16 DEF FoundOrNone
  <2> QED BY <2>15, <2>16, <2>17, <2>18
<1> QED BY <1>6, <1>7

\* And the page these.
IsPage(p) ==
  p = [open |-> p.open, sheet |-> p.sheet, header |-> p.header, columns |-> p.columns, rows |-> p.rows,
       sections |-> p.sections, button |-> p.button, synced |-> p.synced]

\* A page open in the browser is of a worksheet of the stored file, and shows what is found on it.
PageShows ==
  page.open => /\ GridFor(page.sheet).sheet = page.sheet
               /\ page.sheet = Blank => upload.book.csv
               /\ FoundOrNone(page.rows, page.sections, GridFor(page.sheet).rows, page.header)

\* The mapping page and what it is drawn from.
Pages ==
  /\ Readable(upload.book) /\ upload = [book |-> upload.book, sheet |-> upload.sheet]
  /\ MappedBelow
  /\ IsPage(page) /\ page.header \in Nat
  /\ PageShows

\* The tables are finite, and the exported list is a list.
Finite == IsFiniteSet(questions) /\ \E S : sent \in Seq(S)

\* No page is a page too.
LEMMA NoPageIs == IsPage(NoPage) /\ NoPage.header \in Nat /\ ~NoPage.open
BY DEF NoPage, IsPage

\* No page is drawn, and nothing is asked, at first.
LEMMA InitPages == Init => Pages /\ Finite
<1> SUFFICES ASSUME Init PROVE Pages /\ Finite OBVIOUS
<1>1. PICK book \in Books : upload = Stored(book) BY DEF Init
<1>2. upload = [book |-> book, sheet |-> Blank] /\ upload.book = book /\ upload.sheet = Blank BY <1>1 DEF Stored
<1>3. Readable(upload.book) BY <1>2, UploadedBooks
<1>4. MappedBelow BY DEF Init, MappedBelow
<1>5. page = NoPage BY DEF Init
<1>6. IsFiniteSet({}) BY FS_EmptySet
<1>7. <<>> \in Seq({}) OBVIOUS
<1> QED BY <1>2, <1>3, <1>4, <1>5, <1>6, <1>7, NoPageIs DEF Pages, PageShows, Finite, Init

\* Steps that leave the file, the mapping and the page alone.
LEMMA SamePage == ASSUME Pages, UNCHANGED <<upload, mapping, page>> PROVE Pages'
BY DEF Pages, PageShows, MappedBelow, GridFor

\* A page that is opened shows its sheet.
LEMMA OpenedPage ==
  ASSUME Pages, NEW sheet, MappingPage(sheet)
  PROVE  Pages'
<1>1. PICK grid : grid = GridFor(IF sheet = Blank THEN upload.sheet ELSE sheet) OBVIOUS
<1>2. UNCHANGED <<upload, mapping>> BY DEF MappingPage
<1>3. \A s : GridFor(s)' = GridFor(s) BY <1>2 DEF GridFor
<1>4. MappedBelow' BY <1>2 DEF Pages, MappedBelow
<1>5. CASE grid.rows = <<>>
  <2>1. page' = NoPage BY <1>1, <1>5 DEF MappingPage
  <2> QED BY <1>2, <1>4, <2>1, NoPageIs DEF Pages, PageShows
<1>6. CASE grid.rows # <<>>
  <2>1. PICK p : p = AsConfirmed(PreviewGrid(grid)) OBVIOUS
  <2>2. page' = PageOf(p) BY <1>1, <1>6, <2>1 DEF MappingPage, Preview
  <2>3. Readable(upload.book) /\ MappedBelow BY DEF Pages
  <2>4. IsGrid(grid.rows) BY <1>1, <2>3, GridsFor
  <2>5. p.grid = grid /\ p.header \in Nat /\ FoundOrNone(p.rows, p.sections, grid.rows, p.header)
    BY <2>1, <2>3, <2>4, PreviewFound
  <2>6. GridFor(grid.sheet) = grid /\ (grid.sheet = Blank => upload.book.csv)
    BY <1>1, <1>6, <2>3, GridAgain
  <2>7. /\ page'.sheet = grid.sheet /\ page'.header = p.header /\ page'.rows = p.rows
        /\ page'.sections = p.sections /\ IsPage(page')
    BY <2>2, <2>5 DEF PageOf, IsPage
  <2>8. GridFor(page.sheet)' = grid BY <1>2, <2>6, <2>7 DEF GridFor
  <2>9. PageShows' BY <1>2, <2>5, <2>6, <2>7, <2>8 DEF PageShows
  <2> QED BY <1>2, <1>4, <2>5, <2>7, <2>9 DEF Pages
<1> QED BY <1>5, <1>6

\* So does a page drawn again after a dropdown is changed.
LEMMA RedrawnPage ==
  ASSUME Pages, NEW c, NEW f, RepreviewMapping(c, f)
  PROVE  Pages'
<1>1. PICK columns : columns = [page.columns EXCEPT ![c] = f] OBVIOUS
<1>2. /\ page.open /\ UNCHANGED <<upload, mapping>>
      /\ page' = IF NoFieldTwice(columns) THEN Redrawn(columns, Preview(page.sheet))
                 ELSE [page EXCEPT !.columns = columns, !.synced = FALSE]
  BY <1>1 DEF RepreviewMapping
<1>3. MappedBelow' BY <1>2 DEF Pages, MappedBelow
<1>4. /\ Readable(upload.book) /\ MappedBelow /\ IsPage(page) /\ page.header \in Nat
      /\ GridFor(page.sheet).sheet = page.sheet /\ (page.sheet = Blank => upload.book.csv)
      /\ FoundOrNone(page.rows, page.sections, GridFor(page.sheet).rows, page.header)
  BY <1>2 DEF Pages, PageShows
<1>5. PICK grid : grid = GridFor(page.sheet) OBVIOUS
<1>6. ASSUME page'.sheet = page.sheet, page'.header = page.header, IsPage(page'),
             FoundOrNone(page'.rows, page'.sections, grid.rows, page.header)
      PROVE  Pages'
  <2>1. GridFor(page.sheet)' = grid BY <1>2, <1>5, <1>6 DEF GridFor
  <2>2. PageShows' BY <1>2, <1>4, <1>5, <1>6, <2>1 DEF PageShows
  <2> QED BY <1>2, <1>3, <1>4, <1>6, <2>2 DEF Pages
<1>7. CASE ~NoFieldTwice(columns)
  <2>1. PICK a : a = [page EXCEPT !.columns = columns] OBVIOUS
  <2>2. page' = [a EXCEPT !.synced = FALSE] BY <1>2, <1>7, <2>1
  <2>3. a = [open |-> page.open, sheet |-> page.sheet, header |-> page.header, columns |-> columns,
             rows |-> page.rows, sections |-> page.sections, button |-> page.button, synced |-> page.synced]
    BY <1>4, <2>1 DEF IsPage
  <2>4. page' = [open |-> page.open, sheet |-> page.sheet, header |-> page.header, columns |-> columns,
                 rows |-> page.rows, sections |-> page.sections, button |-> page.button, synced |-> FALSE]
    BY <2>2, <2>3
  <2>5. /\ page'.sheet = page.sheet /\ page'.header = page.header /\ page'.rows = page.rows
        /\ page'.sections = page.sections /\ IsPage(page')
    BY <2>4 DEF IsPage
  <2> QED BY <1>4, <1>5, <1>6, <2>5
<1>8. CASE NoFieldTwice(columns)
  <2>1. PICK p, bound : p = Preview(page.sheet) /\ bound = MappingFromForm(columns, p) OBVIOUS
  <2>2. p.grid = grid
    <3>1. p = AsConfirmed(PreviewGrid(GridFor(IF page.sheet = Blank THEN upload.sheet ELSE page.sheet)))
      BY <2>1 DEF Preview
    <3>2. GridFor(IF page.sheet = Blank THEN upload.sheet ELSE page.sheet) = grid
      <4>1. CASE page.sheet = Blank BY <1>4, <1>5, <4>1 DEF GridFor
      <4>2. CASE page.sheet # Blank BY <1>5, <4>2
      <4> QED BY <4>1, <4>2
    <3>3. IsGrid(grid.rows) BY <1>4, <1>5, GridsFor
    <3>4. p = AsConfirmed(PreviewGrid(grid)) BY <3>1, <3>2
    <3> QED BY <1>4, <3>3, <3>4, PreviewFound
  <2>3. PICK found : found = DetectSections(grid.rows, page.header, bound) OBVIOUS
  <2>4. page' = [page EXCEPT !.columns = columns, !.rows = found.rows, !.sections = found.sections, !.synced = TRUE]
    BY <1>2, <1>8, <2>1, <2>2, <2>3 DEF Redrawn
  <2>5. PICK a : a = [page EXCEPT !.columns = columns] OBVIOUS
  <2>6. PICK b : b = [a EXCEPT !.rows = found.rows] OBVIOUS
  <2>7. PICK d : d = [b EXCEPT !.sections = found.sections] OBVIOUS
  <2>8. page' = [d EXCEPT !.synced = TRUE] BY <2>4, <2>5, <2>6, <2>7
  <2>9. a = [open |-> page.open, sheet |-> page.sheet, header |-> page.header, columns |-> columns,
             rows |-> page.rows, sections |-> page.sections, button |-> page.button, synced |-> page.synced]
    BY <1>4, <2>5 DEF IsPage
  <2>10. b = [open |-> page.open, sheet |-> page.sheet, header |-> page.header, columns |-> columns,
              rows |-> found.rows, sections |-> page.sections, button |-> page.button, synced |-> page.synced]
    BY <2>6, <2>9
  <2>11. d = [open |-> page.open, sheet |-> page.sheet, header |-> page.header, columns |-> columns,
              rows |-> found.rows, sections |-> found.sections, button |-> page.button, synced |-> page.synced]
    BY <2>7, <2>10
  <2>12. page' = [open |-> page.open, sheet |-> page.sheet, header |-> page.header, columns |-> columns,
                  rows |-> found.rows, sections |-> found.sections, button |-> page.button, synced |-> TRUE]
    BY <2>8, <2>11
  <2>13. /\ page'.sheet = page.sheet /\ page'.header = page.header /\ page'.rows = found.rows
         /\ page'.sections = found.sections /\ IsPage(page')
    BY <2>12 DEF IsPage
  <2>14. FoundOrNone(page'.rows, page'.sections, grid.rows, page.header) BY <2>3, <2>13 DEF FoundOrNone
  <2> QED BY <1>6, <2>13, <2>14
<1> QED BY <1>7, <1>8

\* Confirming a mapping closes the page.
LEMMA ConfirmedPage ==
  ASSUME Pages, NEW grid, NEW bound, NEW override, Ingest(grid, bound, override)
  PROVE  Pages'
<1>1. /\ mapping' = [sheet |-> grid.sheet, header |-> page.header, bound |-> bound]
      /\ upload' = [upload EXCEPT !.sheet = grid.sheet] /\ page' = NoPage
  BY DEF Ingest
<1>2. MappedBelow' BY <1>1 DEF MappedBelow, Pages
<1>3. upload' = [book |-> upload.book, sheet |-> grid.sheet] BY <1>1 DEF Pages
<1>4. Readable(upload'.book) /\ upload' = [book |-> upload'.book, sheet |-> upload'.sheet] BY <1>3 DEF Pages
<1> QED BY <1>1, <1>2, <1>4, NoPageIs DEF Pages, PageShows

\* Whatever the step, the page shows what is found on its sheet.
LEMMA NextPages == Pages /\ Finite /\ [Next]_vars => Pages'
<1> SUFFICES ASSUME Pages, Finite, [Next]_vars PROVE Pages' OBVIOUS
<1>1. CASE UNCHANGED <<upload, mapping, page>> BY <1>1, SamePage
<1>2. CASE MapStep
  <2>1. ASSUME NEW r, NEW d, ConfirmMapping(r, d) PROVE Pages'
    BY <2>1, ConfirmedPage DEF ConfirmMapping
  <2> QED BY <1>2, <2>1, OpenedPage, RedrawnPage, Zenon DEF MapStep
<1>3. CASE SignOffStep
  <2>1. ApplyDraft => UNCHANGED <<upload, mapping, page>> BY DEF ApplyDraft
  <2>2. \A id, text : Finalize(id, text) => UNCHANGED <<upload, mapping, page>> BY DEF Finalize
  <2>3. \A id : Unfinalize(id) => UNCHANGED <<upload, mapping, page>> BY DEF Unfinalize
  <2> QED BY <1>1, <1>3, <2>1, <2>2, <2>3, Zenon DEF SignOffStep
<1>4. CASE ReturnStep
  <2>1. Export => UNCHANGED <<upload, mapping, page>> BY DEF Export
  <2>2. UploadAnswerRevisions => UNCHANGED <<upload, mapping, page>> BY DEF UploadAnswerRevisions
  <2>3. \A ids : ApplyAnswerRevisions(ids) => UNCHANGED <<upload, mapping, page>> BY DEF ApplyAnswerRevisions
  <2>4. CASE Upload
    <3>1. upload' = Stored(ExportXLSX(sent)) /\ mapping' = None /\ page' = NoPage BY <2>4 DEF Upload
    <3>2. upload' = [book |-> ExportXLSX(sent), sheet |-> Blank] BY <3>1 DEF Stored
    <3>3. Readable(ExportXLSX(sent))
      <4>1. PICK S : sent \in Seq(S) BY DEF Finite
      <4> QED BY <4>1, ReturnedBook
    <3>4. Readable(upload'.book) /\ upload' = [book |-> upload'.book, sheet |-> upload'.sheet] BY <3>2, <3>3
    <3>5. MappedBelow' BY <3>1 DEF MappedBelow
    <3> QED BY <3>1, <3>4, <3>5, NoPageIs DEF Pages, PageShows
  <2> QED BY <1>1, <1>4, <2>1, <2>2, <2>3, <2>4, Zenon DEF ReturnStep
<1>5. CASE UNCHANGED vars BY <1>1, <1>5 DEF vars
<1> QED BY <1>2, <1>3, <1>4, <1>5 DEF Next

\* What is found on any sheet, whatever the columns are read as.
LEMMA SheetSettled ==
  ASSUME NEW g, IsGrid(g), NEW h \in Nat, NEW bound, NEW d, d = DetectSections(g, h, bound)
  PROVE  \E secs : Settled(d, secs, h, Heads(g, h), Vals(g, h, bound), Below(g, h))
<1>1. PICK n, head, val : n = Below(g, h) /\ head = Heads(g, h) /\ val = Vals(g, h, bound) OBVIOUS
<1>2. n \in Nat BY <1>1, BelowNat
<1>3. PICK s : Known(s, h, head, val, n) /\ d = Attribute(s.rows, Flush(s)) BY <1>1, Detection
<1>4. Settled(Attribute(s.rows, Flush(s)), Flush(s), h, head, val, n) BY <1>2, <1>3, Settles
<1>5. PICK secs : secs = Flush(s) OBVIOUS
<1> QED BY <1>1, <1>3, <1>4, <1>5

\* What a row reads as is a domain of the questionnaire, or none.
LEMMA HeadsAre ==
  ASSUME NEW g, IsGrid(g), NEW h \in Nat, NEW i \in 1 .. Below(g, h)
  PROVE  Heads(g, h)[i] \in DomainSet \cup {NoDomain}
<1>1. PICK X : \E w \in Nat : g \in Seq([1 .. w -> X]) BY DEF IsGrid
<1>2. PICK w \in Nat : g \in Seq([1 .. w -> X]) BY <1>1
<1>3. Below(g, h) \in Nat /\ Len(g) \in Nat BY BelowNat
<1>4. h + i \in 1 .. Len(g)
  <2>1. CASE h < Len(g)
    <3>1. Below(g, h) = Len(g) - h BY <2>1 DEF Below
    <3> QED BY <1>3, <3>1
  <2>2. CASE ~(h < Len(g))
    <3>1. Below(g, h) = 0 BY <2>2 DEF Below
    <3> QED BY <3>1
  <2> QED BY <2>1, <2>2
<1>5. PICK row : row = g[h + i] OBVIOUS
<1>6. row \in [1 .. w -> X] BY <1>2, <1>4, <1>5
<1>7. Heading(row) \in DomainSet \cup {NoDomain} BY <1>6, Headings
<1> QED BY <1>5, <1>7 DEF Heads

\* The rows of a sheet from h on; its questions have a domain, and a text for every field.
AreRows(rows, h, n) ==
  /\ rows = [i \in 1 .. n |-> rows[i]]
  /\ \A i \in 1 .. n : /\ rows[i].index = h + i
                       /\ rows[i].values = [f \in FieldSet |-> rows[i].values[f]]
                       /\ rows[i].kind = "question" => rows[i].domain \in DomainSet

\* The rows found on a sheet are consecutive, and its questions carry domains.
LEMMA RowsFound ==
  ASSUME NEW g, IsGrid(g), NEW h \in Nat, NEW bound, NEW d, d = DetectSections(g, h, bound)
  PROVE  \E n \in Nat : AreRows(d.rows, h, n)
<1>1. PICK head, val, len : /\ head = Heads(g, h) /\ val = Vals(g, h, bound) /\ len = Below(g, h)
  OBVIOUS
<1>2. PICK secs : Settled(d, secs, h, head, val, len) BY <1>1, SheetSettled
<1>3. len \in Nat /\ \A i \in 1 .. len : head[i] \in DomainSet \cup {NoDomain} BY <1>1, BelowNat, HeadsAre
<1>4. PICK rows : rows = d.rows OBVIOUS
<1>5. /\ rows = [i \in 1 .. len |-> rows[i]] /\ DOMAIN rows = 1 .. len
      /\ \A i \in 1 .. len : HasDomain(rows[i], h, head, val, i, Home(secs))
  <2>1. rows = [i \in 1 .. len |-> rows[i]] BY <1>2, <1>4 DEF Settled
  <2> QED BY <1>2, <1>4, <2>1 DEF Settled
<1>6. Home(secs) \in DomainSet
  <2>1. CASE secs = <<>>
    <3>1. Domains[1] \in DomainSet
      <4>1. 1 \in DOMAIN Domains BY DomainsAssumption
      <4> QED BY <4>1 DEF DomainSet
    <3> QED BY <2>1, <3>1 DEF Home
  <2>2. CASE secs # <<>>
    <3>1. PICK tops : \E m \in Nat : Rises(tops, secs, h, head, val, len, m)
      <4>1. Listed(secs, h, head, val, len, len) BY <1>2 DEF Settled
      <4> QED BY <4>1, Rising
    <3>2. PICK m \in Nat : Rises(tops, secs, h, head, val, len, m) BY <3>1
    <3>3. secs = [a \in 1 .. m |-> secs[a]] /\ tops \in [1 .. m -> 1 .. len] BY <3>2 DEF Rises
    <3>4. 1 \in 1 .. m
      <4>1. m # 0 BY <2>2, <3>3
      <4> QED BY <4>1
    <3>5. PICK t \in 1 .. len : t = tops[1] BY <3>3, <3>4
    <3>6. head[t] # NoDomain /\ SectionIs(secs[1], h, head, val, len, t) BY <3>2, <3>4, <3>5 DEF Rises
    <3>7. PICK sec : sec = secs[1] OBVIOUS
    <3>8. sec = [domain |-> head[t], divider |-> h + t, first |-> h + t + 1, last |-> sec.last,
                 count |-> Cardinality(Under(head, val, len, t)), inferred |-> FALSE]
      BY <3>6, <3>7 DEF SectionIs
    <3>9. sec.domain = head[t] BY <3>8
    <3> QED BY <1>3, <2>2, <3>6, <3>7, <3>9 DEF Home
  <2> QED BY <2>1, <2>2
<1>7. ASSUME NEW i \in 1 .. len
      PROVE  /\ rows[i].index = h + i /\ rows[i].values = [f \in FieldSet |-> rows[i].values[f]]
             /\ rows[i].kind = "question" => rows[i].domain \in DomainSet
  <2>1. HasDomain(rows[i], h, head, val, i, Home(secs)) BY <1>5
  <2>2. \A j \in 1 .. i : Top(head, i, j) => head[j] \in DomainSet
    <3> TAKE j \in 1 .. i
    <3>1. j \in 1 .. len BY <1>3
    <3> QED BY <1>3, <3>1 DEF Top
  <2>3. rows[i].kind = "question" => rows[i].domain \in DomainSet BY <1>6, <2>1, <2>2 DEF HasDomain
  <2>4. PICK values : values = val[i] OBVIOUS
  <2>5. values = [f \in FieldSet |-> values[f]] BY <1>1, <2>4 DEF Vals, ExtractValues
  <2>6. rows[i].values = values /\ rows[i].index = h + i BY <2>1, <2>4 DEF HasDomain
  <2> QED BY <2>3, <2>5, <2>6
<1>8. AreRows(rows, h, len) BY <1>5, <1>7, Zenon DEF AreRows
<1> QED BY <1>3, <1>4, <1>8

\* Questions down a sheet, each with a domain and a text for every field.
AreAsked(asked, n) ==
  /\ asked = [k \in 1 .. n |-> asked[k]]
  /\ \A k \in 1 .. n : /\ asked[k].index \in Nat \ {0} /\ asked[k].domain \in DomainSet
                       /\ asked[k].values = [f \in FieldSet |-> asked[k].values[f]]
  /\ \A i, k \in 1 .. n : i < k <=> asked[i].index < asked[k].index

\* Some of the rows' questions, taken in order, are as many as were picked.
LEMMA SomeAsked ==
  ASSUME NEW rows, NEW h \in Nat, NEW len \in Nat, AreRows(rows, h, len),
         NEW P \in SUBSET {i \in 1 .. len : rows[i].kind = "question"}
  PROVE  \E n \in Nat : /\ AreAsked(Sublist(rows, P), n) /\ n = Cardinality(P)
                        /\ \E at : GoesThrough(at, n, P) /\ \A k \in 1 .. n : Sublist(rows, P)[k] = rows[at[k]]
<1>1. /\ rows = [i \in 1 .. len |-> rows[i]]
      /\ \A i \in 1 .. len : /\ rows[i].index = h + i
                             /\ rows[i].values = [f \in FieldSet |-> rows[i].values[f]]
                             /\ rows[i].kind = "question" => rows[i].domain \in DomainSet
  BY Zenon DEF AreRows
<1>8. PICK T : T = {rows[i] : i \in 1 .. len} OBVIOUS
<1>9. rows \in Seq(T) /\ P \in SUBSET DOMAIN rows
  <2>1. \A i \in 1 .. len : rows[i] \in T BY <1>8
  <2>2. DOMAIN rows = 1 .. len BY <1>1
  <2>3. rows \in [1 .. len -> T] BY <1>1, <2>1
  <2>4. rows \in Seq(T) BY <2>3
  <2> QED BY <2>2, <2>4
<1>10. PICK n, at : /\ n = Cardinality(P) /\ n \in Nat /\ GoesThrough(at, n, P)
                    /\ Sublist(rows, P) = [k \in 1 .. n |-> rows[at[k]]]
  <2>1. /\ Cardinality(P) \in Nat
        /\ \E at : /\ GoesThrough(at, Cardinality(P), P)
                   /\ Sublist(rows, P) = [k \in 1 .. Cardinality(P) |-> rows[at[k]]]
    BY <1>9, SublistPlaces
  <2> QED BY <2>1
<1>11. PICK asked : asked = Sublist(rows, P) OBVIOUS
<1>12. asked = [k \in 1 .. n |-> rows[at[k]]] BY <1>10, <1>11
<1>13. ASSUME NEW k \in 1 .. n
       PROVE  /\ asked[k].index = h + at[k] /\ at[k] \in Nat /\ asked[k].index \in Nat \ {0}
              /\ asked[k].domain \in DomainSet
              /\ asked[k].values = [f \in FieldSet |-> asked[k].values[f]]
  <2>1. at[k] \in P BY <1>10 DEF GoesThrough
  <2>2. PICK i \in 1 .. len : i = at[k] /\ rows[i].kind = "question" BY <2>1
  <2>3. asked[k] = rows[i] BY <1>12, <2>2
  <2>4. i \in Nat /\ h + i \in Nat \ {0} OBVIOUS
  <2> QED BY <1>1, <2>2, <2>3, <2>4
<1>14. asked = [k \in 1 .. n |-> asked[k]] BY <1>12
<1>15. \A i, k \in 1 .. n : i < k <=> asked[i].index < asked[k].index
  <2> TAKE i, k \in 1 .. n
  <2>1. i < k <=> at[i] < at[k] BY <1>10 DEF GoesThrough
  <2>2. asked[i].index = h + at[i] /\ asked[k].index = h + at[k] /\ at[i] \in Nat /\ at[k] \in Nat
    BY <1>13
  <2> QED BY <2>1, <2>2
<1>16. AreAsked(asked, n) BY <1>13, <1>14, <1>15 DEF AreAsked
<1>17. \A k \in 1 .. n : asked[k] = rows[at[k]] BY <1>12
<1>18. GoesThrough(at, n, P) /\ \A k \in 1 .. n : Sublist(rows, P)[k] = rows[at[k]] BY <1>10, <1>11, <1>17
<1>19. \E t : GoesThrough(t, n, P) /\ \A k \in 1 .. n : Sublist(rows, P)[k] = rows[t[k]] BY <1>18
<1>20. AreAsked(Sublist(rows, P), n) BY <1>11, <1>16
<1>21. n \in Nat /\ n = Cardinality(P) BY <1>10
<1> QED BY <1>19, <1>20, <1>21

\* The questions of a sheet go down it, each with a domain and its texts.
LEMMA AskedAre ==
  ASSUME NEW g, IsGrid(g), NEW h \in Nat, NEW bound, NEW d, d = DetectSections(g, h, bound)
  PROVE  \E n \in Nat : AreAsked(QuestionRows(d.rows), n)
<1>1. PICK len \in Nat : AreRows(d.rows, h, len) BY RowsFound
<1>2. PICK rows, P : rows = d.rows /\ P = {i \in 1 .. len : rows[i].kind = "question"} OBVIOUS
<1>3. DOMAIN rows = 1 .. len
  <2>1. rows = [i \in 1 .. len |-> rows[i]] BY <1>1, <1>2 DEF AreRows
  <2> QED BY <2>1
<1>4. QuestionRows(d.rows) = Sublist(rows, P) BY <1>2, <1>3 DEF QuestionRows
<1>5. \E n \in Nat : AreAsked(Sublist(rows, P), n) BY <1>1, <1>2, SomeAsked
<1> QED BY <1>4, <1>5

\* What is covered by a finite set is finite.
LEMMA Covered ==
  ASSUME NEW S, IsFiniteSet(S), NEW f, NEW T, \A t \in T : \E s \in S : t = f[s]
  PROVE  IsFiniteSet(T)
<1>1. PICK U, g : U = {f[s] : s \in S} /\ g = [s \in S |-> f[s]] OBVIOUS
<1>2. g \in Surjection(S, U) BY <1>1 DEF Surjection
<1>3. IsFiniteSet(U) BY <1>2, FS_Surjection
<1>4. T \in SUBSET U BY <1>1
<1> QED BY <1>3, <1>4, FS_Subset

\* The question in row i of a confirmed mapping.
DomainFor(asked, override, i) ==
  IF asked[i].index \in DOMAIN override THEN override[asked[i].index] ELSE asked[i].domain

\* As it is stored, when this is mapping m.
NewQuestion(m, asked, override, i) ==
  [id |-> <<m, i>>, row |-> asked[i].index, position |-> i, values |-> asked[i].values,
   domain |-> DomainFor(asked, override, i), draft |-> asked[i].values.feedback,
   final |-> Blank, status |-> "pending"]

\* What a confirmed mapping stores is one question for each that was found.
LEMMA Ingesting ==
  ASSUME NEW grid, NEW bound, NEW override, Ingest(grid, bound, override),
         NEW asked, asked = QuestionRows(DetectSections(grid.rows, page.header, bound).rows)
  PROVE  questions' = {NewQuestion(mapped + 1, asked, override, i) : i \in DOMAIN asked}
<1> DEFINE Old(i) == Ingested(asked[i], i, DomainFor(asked, override, i))
<1>1. Apply(grid.rows, page.header, bound, override) = {Old(i) : i \in DOMAIN asked}
  BY Zenon DEF Apply, IngestAll, DomainFor
<1>2. questions' = {[q EXCEPT !.id = <<mapped + 1, q.position>>] :
                      q \in Apply(grid.rows, page.header, bound, override)}
  BY Zenon DEF Ingest
<1>3. \A i : [Old(i) EXCEPT !.id = <<mapped + 1, Old(i).position>>] = NewQuestion(mapped + 1, asked, override, i)
  BY DEF Ingested, NewQuestion
<1> HIDE DEF Old
<1>4. ASSUME NEW x PROVE x \in questions' <=> \E i \in DOMAIN asked : x = NewQuestion(mapped + 1, asked, override, i)
  <2>1. x \in questions' <=> \E q \in Apply(grid.rows, page.header, bound, override) :
                                x = [q EXCEPT !.id = <<mapped + 1, q.position>>]
    BY <1>2, Zenon
  <2>2. x \in questions' <=> \E i \in DOMAIN asked : x = [Old(i) EXCEPT !.id = <<mapped + 1, Old(i).position>>]
    BY <1>1, <2>1, Zenon
  <2> QED BY <1>3, <2>2, Zenon
<1> QED BY <1>4, Zenon

(***************************************************************************)
(* The questions                                                           *)
(***************************************************************************)
\* A question of mapping m, known by its place in the file.
Asking(q, m) ==
  /\ q.id = <<m, q.position>> /\ q.position \in Nat
  /\ q.domain \in DomainSet
  /\ q.values = [f \in FieldSet |-> q.values[f]]

\* The questions stored are all of one mapping.
AsMapped == mapped \in Nat /\ \E m \in 0 .. mapped : \A q \in questions : Asking(q, m)

\* The domains chosen by hand, and those shown, are domains.
LEMMA Overrides ==
  ASSUME Pages, page.open, NEW r, NEW d, d \in DomainSet \/ r = 0
  PROVE  \A i \in DOMAIN DomainOverrides(r, d) : DomainOverrides(r, d)[i] \in DomainSet
<1>1. PICK P : P = {i \in DOMAIN page.rows : i <= PreviewRowLimit /\ page.rows[i].kind = "question"} OBVIOUS
<1>2. Shown = Sublist(page.rows, P) BY <1>1 DEF Shown
<1>3. \E n \in Nat : AreAsked(Shown, n)
  <2>1. PICK grid : grid = GridFor(page.sheet) OBVIOUS
  <2>2. IsGrid(grid.rows) BY <2>1, GridsFor DEF Pages
  <2>3. \E len \in Nat : AreRows(page.rows, page.header, len)
    <3>1. CASE page.rows = <<>>
      <4>1. AreRows(<<>>, page.header, 0) BY DEF AreRows
      <4> QED BY <3>1, <4>1
    <3>2. CASE page.rows # <<>>
      <4>1. PICK bound : page.rows = DetectSections(grid.rows, page.header, bound).rows
        BY <2>1, <3>2 DEF Pages, PageShows, FoundOrNone
      <4>2. PICK det : det = DetectSections(grid.rows, page.header, bound) OBVIOUS
      <4>3. page.header \in Nat BY DEF Pages
      <4>4. \E len \in Nat : AreRows(det.rows, page.header, len) BY <2>2, <4>2, <4>3, RowsFound
      <4> QED BY <4>1, <4>2, <4>4
    <3> QED BY <3>1, <3>2
  <2>4. PICK len \in Nat : AreRows(page.rows, page.header, len) BY <2>3
  <2>5. DOMAIN page.rows = 1 .. len
    <3>1. page.rows = [i \in 1 .. len |-> page.rows[i]] BY <2>4 DEF AreRows
    <3> QED BY <3>1
  <2>6. P \in SUBSET {i \in 1 .. len : page.rows[i].kind = "question"} BY <1>1, <2>5
  <2>9. page.header \in Nat BY DEF Pages
  <2>7. PICK rows, h : rows = page.rows /\ h = page.header OBVIOUS
  <2>8. \E n \in Nat : AreAsked(Sublist(rows, P), n) BY <2>4, <2>6, <2>7, <2>9, SomeAsked
  <2> QED BY <1>2, <2>7, <2>8
<1>4. PICK n \in Nat : AreAsked(Shown, n) BY <1>3
<1>5. PICK shown : shown = Shown OBVIOUS
<1>6. /\ DOMAIN shown = 1 .. n
      /\ \A k \in 1 .. n : shown[k].index # 0 /\ shown[k].domain \in DomainSet
  <2>1. shown = [k \in 1 .. n |-> shown[k]] BY <1>4, <1>5 DEF AreAsked
  <2>2. \A k \in 1 .. n : shown[k].index \in Nat \ {0} /\ shown[k].domain \in DomainSet BY <1>4, <1>5 DEF AreAsked
  <2> QED BY <2>1, <2>2
<1>7. DomainOverrides(r, d) = [i \in {shown[k].index : k \in DOMAIN shown} |->
                                 IF i = r THEN d ELSE (CHOOSE row \in ToSet(shown) : row.index = i).domain]
  BY <1>5 DEF DomainOverrides
<1>8. ASSUME NEW k \in 1 .. n
      PROVE  (IF shown[k].index = r THEN d
              ELSE (CHOOSE row \in ToSet(shown) : row.index = shown[k].index).domain) \in DomainSet
  <2>1. CASE shown[k].index = r BY <1>6, <2>1
  <2>2. CASE shown[k].index # r
    <3>1. shown[k] \in ToSet(shown) BY <1>6 DEF ToSet
    <3>2. PICK row : row = CHOOSE x \in ToSet(shown) : x.index = shown[k].index OBVIOUS
    <3>3. row \in ToSet(shown) BY <3>1, <3>2
    <3>4. PICK l \in 1 .. n : row = shown[l] BY <1>6, <3>3 DEF ToSet
    <3> QED BY <1>6, <2>2, <3>2, <3>4
  <2> QED BY <2>1, <2>2
<1> QED BY <1>6, <1>7, <1>8

\* Nothing is mapped at first.
LEMMA InitAsMapped == Init => AsMapped
BY DEF Init, AsMapped

\* What a mapping stores.
LEMMA IngestAsMapped ==
  ASSUME Pages, AsMapped, Finite, NEW r, NEW d, d \in DomainSet \/ r = 0, ConfirmMapping(r, d)
  PROVE  AsMapped' /\ Finite' /\ \A q \in questions' : q.id = <<mapped + 1, q.position>>
<1>1. PICK grid, bound, override :
        /\ grid = GridFor(page.sheet) /\ bound = MappingFromForm(page.columns, Preview(page.sheet))
        /\ override = DomainOverrides(r, d) /\ Ingest(grid, bound, override)
  BY DEF ConfirmMapping
<1>2. PICK asked : asked = QuestionRows(DetectSections(grid.rows, page.header, bound).rows) OBVIOUS
<1>3. questions' = {NewQuestion(mapped + 1, asked, override, i) : i \in DOMAIN asked} BY <1>1, <1>2, Ingesting
<1>4. page.open /\ mapped' = mapped + 1 /\ sent' = sent BY <1>1 DEF Ingest
<1>5. \A i \in DOMAIN override : override[i] \in DomainSet BY <1>1, <1>4, Overrides
<1>6. PICK n \in Nat : AreAsked(asked, n)
  <2>1. IsGrid(grid.rows) /\ page.header \in Nat BY <1>1, GridsFor DEF Pages
  <2> QED BY <1>2, <2>1, AskedAre
<1>7. /\ DOMAIN asked = 1 .. n
      /\ \A k \in 1 .. n : asked[k].domain \in DomainSet /\ asked[k].values = [f \in FieldSet |-> asked[k].values[f]]
  <2>1. asked = [k \in 1 .. n |-> asked[k]] BY <1>6 DEF AreAsked
  <2>2. \A k \in 1 .. n : asked[k].domain \in DomainSet /\ asked[k].values = [f \in FieldSet |-> asked[k].values[f]]
    BY <1>6 DEF AreAsked
  <2> QED BY <2>1, <2>2
<1>8. ASSUME NEW i \in 1 .. n
      PROVE  /\ Asking(NewQuestion(mapped + 1, asked, override, i), mapped + 1)
  <2>1. PICK q : q = NewQuestion(mapped + 1, asked, override, i) OBVIOUS
  <2>2. q.id = <<mapped + 1, i>> /\ q.position = i /\ q.values = asked[i].values
        /\ q.domain = DomainFor(asked, override, i)
    BY <2>1 DEF NewQuestion
  <2>3. q.domain \in DomainSet BY <1>5, <1>7, <2>2 DEF DomainFor
  <2>4. Asking(q, mapped + 1) BY <1>7, <2>2, <2>3 DEF Asking
  <2> QED BY <2>1, <2>4
<1>9. \A q \in questions' : Asking(q, mapped + 1) BY <1>3, <1>7, <1>8
<1>10. mapped + 1 \in 0 .. mapped' /\ mapped' \in Nat BY <1>4 DEF AsMapped
<1>11. PICK f : f = [i \in 1 .. n |-> NewQuestion(mapped + 1, asked, override, i)] OBVIOUS
<1>12. \A q \in questions' : \E i \in 1 .. n : q = f[i] BY <1>3, <1>7, <1>11
<1>13. IsFiniteSet(questions') BY <1>12, UpToN, Covered
<1>14. AsMapped' BY <1>9, <1>10 DEF AsMapped
<1>15. \A q \in questions' : q.id = <<mapped + 1, q.position>> BY <1>9 DEF Asking
<1> QED BY <1>4, <1>13, <1>14, <1>15 DEF Finite

\* What is written in place of a question asks the same.
SameQuestion(new, q) ==
  /\ new.id = q.id /\ new.position = q.position /\ new.domain = q.domain
  /\ new.values.question = q.values.question
  /\ q.values = [f \in FieldSet |-> q.values[f]] => new.values = [f \in FieldSet |-> new.values[f]]

\* The same question with the same values, or with this answer.
Rewords(new, q) == SameQuestion(new, q) /\ new.values = q.values
Answers(new, q, text) == SameQuestion(new, q) /\ new.values.answer = text

\* A question rewritten in place asks the same; a revised one has another answer.
LEMMA Same ==
  ASSUME NEW q, IsRow(q), NEW text, NEW st
  PROVE  /\ Rewords(Texted(q, text, st), q) /\ Rewords(Drafted(q, text, st), q)
         /\ Rewords(Moved(q, st), q)
         /\ q.values = [f \in FieldSet |-> q.values[f]] => Answers(Revised(q, text, st), q, text)
<1>1. PICK id, row, position, values, domain, draft, final, status :
        q = [id |-> id, row |-> row, position |-> position, values |-> values, domain |-> domain,
             draft |-> draft, final |-> final, status |-> status]
  BY DEF IsRow
<1>2. /\ q.id = id /\ q.position = position /\ q.domain = domain /\ q.values = values BY <1>1
<1> DEFINE Keeps(x, v) == x.id = id /\ x.position = position /\ x.domain = domain /\ x.values = v
<1>3. Keeps(Texted(q, text, st), values) BY <1>1 DEF Texted
<1>4. Keeps(Drafted(q, text, st), values) BY <1>1 DEF Drafted
<1>5. Keeps(Moved(q, st), values) BY <1>1 DEF Moved
<1>6. PICK v : v = [values EXCEPT !.answer = text] OBVIOUS
<1>7. Keeps(Revised(q, text, st), v) BY <1>1, <1>6 DEF Revised
<1>8. v.question = values.question BY <1>6
<1>9. ASSUME values = [f \in FieldSet |-> values[f]] PROVE v = [f \in FieldSet |-> v[f]] /\ v.answer = text
  BY <1>6, <1>9, FieldsAssumption
<1> HIDE DEF Keeps
<1>10. ASSUME NEW x, NEW w, Keeps(x, w), w.question = values.question,
              values = [f \in FieldSet |-> values[f]] => w = [f \in FieldSet |-> w[f]]
       PROVE  SameQuestion(x, q) /\ x.values = w
  BY <1>2, <1>10 DEF SameQuestion, Keeps
<1>11. values = [f \in FieldSet |-> values[f]] => Answers(Revised(q, text, st), q, text)
  BY <1>7, <1>8, <1>9, <1>10 DEF Answers
<1>12. \A x : Keeps(x, values) => Rewords(x, q) BY <1>2, <1>10 DEF Rewords
<1>13. Rewords(Texted(q, text, st), q) /\ Rewords(Drafted(q, text, st), q) /\ Rewords(Moved(q, st), q)
  BY <1>3, <1>4, <1>5, <1>12
<1> QED BY <1>2, <1>11, <1>13

\* The steps of sign-off ask what was asked, and leave its answer alone.
LEMMA SignOffKeeps ==
  ASSUME Rows, Finite, SignOffStep
  PROVE  /\ IsFiniteSet(questions') /\ UNCHANGED <<mapped, sent, returned>>
         /\ \A p \in questions' : \E q \in questions : Rewords(p, q)
<1>1. ASSUME NEW id \in Ids, NEW new, NEW text, NEW st, Rewrite(id, new),
             new \in {Texted(Question(id), text, st), Moved(Question(id), st)}
      PROVE  /\ IsFiniteSet(questions')
             /\ \A p \in questions' : \E q \in questions : Rewords(p, q)
  <2>1. PICK old : old = Question(id) /\ old \in questions BY ById
  <2>2. IsRow(old) BY <2>1 DEF Rows
  <2>3. Rewords(new, old)
    <3>1. Rewords(Texted(old, text, st), old) /\ Rewords(Moved(old, st), old) BY <2>2, Same
    <3> QED BY <1>1, <2>1, <3>1
  <2>4. questions' = (questions \ {old}) \cup {new} BY <1>1, <2>1 DEF Rewrite
  <2>5. IsFiniteSet(questions \ {old}) /\ IsFiniteSet({new})
    BY FS_RemoveElement, FS_Singleton DEF Finite
  <2>6. IsFiniteSet(questions') BY <2>4, <2>5, FS_Union
  <2>7. ASSUME NEW p \in questions' PROVE \E q \in questions : Rewords(p, q)
    <3>1. CASE p = new BY <2>1, <2>3, <3>1
    <3>2. CASE p # new
      <4>1. p \in questions /\ Rewords(p, p) BY <2>4, <3>2 DEF Rewords, SameQuestion
      <4> QED BY <4>1
    <3> QED BY <3>1, <3>2
  <2> QED BY <2>6, <2>7
<1>2. CASE ApplyDraft
  <2> DEFINE New(q) == [q EXCEPT !.draft = Said, !.status = IF @ = "finalized" THEN @ ELSE "ai_drafted"]
  <2>1. questions' = {New(q) : q \in questions} /\ UNCHANGED <<mapped, sent, returned>> BY <1>2 DEF ApplyDraft
  <2>2. ASSUME NEW q \in questions PROVE Rewords(New(q), q)
    <3>1. PICK st : st = IF q.status = "finalized" THEN q.status ELSE "ai_drafted" OBVIOUS
    <3>2. New(q) = Drafted(q, Said, st) BY <3>1 DEF Drafted
    <3>3. IsRow(q) BY DEF Rows
    <3>4. Rewords(Drafted(q, Said, st), q) BY <3>3, Same
    <3> HIDE DEF New
    <3> QED BY <3>2, <3>4
  <2> HIDE DEF New
  <2>3. PICK f : f = [q \in questions |-> New(q)] OBVIOUS
  <2>4. \A p \in questions' : \E q \in questions : p = f[q] BY <2>1, <2>3
  <2>5. IsFiniteSet(questions') BY <2>4, Covered DEF Finite
  <2> QED BY <2>1, <2>2, <2>5
<1>3. ASSUME NEW id \in Ids, NEW text, Finalize(id, text)
      PROVE  /\ IsFiniteSet(questions') /\ UNCHANGED <<mapped, sent, returned>>
             /\ \A p \in questions' : \E q \in questions : Rewords(p, q)
  <2>1. Rewrite(id, Texted(Question(id), text, "finalized")) /\ UNCHANGED <<mapped, sent, returned>>
    BY <1>3 DEF Finalize, Texted
  <2> QED BY <1>1, <2>1
<1>4. ASSUME NEW id \in Ids, Unfinalize(id)
      PROVE  /\ IsFiniteSet(questions') /\ UNCHANGED <<mapped, sent, returned>>
             /\ \A p \in questions' : \E q \in questions : Rewords(p, q)
  <2>1. PICK st : st = IF Question(id).draft = Blank THEN "pending" ELSE "ai_drafted" OBVIOUS
  <2>2. Rewrite(id, Moved(Question(id), st)) /\ UNCHANGED <<mapped, sent, returned>>
    BY <1>4, <2>1 DEF Unfinalize, Moved
  <2> QED BY <1>1, <2>2
<1>5. ApplyDraft \/ \E id \in Ids : Finalize(id, Own) \/ Finalize(id, Question(id).draft) \/ Unfinalize(id)
  BY DEF SignOffStep
<1>6. CASE \E id \in Ids : Finalize(id, Own) \/ Finalize(id, Question(id).draft) \/ Unfinalize(id)
  BY <1>3, <1>4, <1>6
<1> QED BY <1>2, <1>5, <1>6

\* The row of the page of revised answers that has this id.
Row(id) == CHOOSE row \in ToSet(returned.rows) : row.id = id

\* A question is as it was, or has the answer that was shown for it.
LEMMA RevisionKeeps ==
  ASSUME Rows, Finite, NEW m, \A q \in questions : Asking(q, m), NEW ids, ApplyAnswerRevisions(ids)
  PROVE  /\ IsFiniteSet(questions') /\ UNCHANGED <<mapped, sent>> /\ returned' = NoRevisions
         /\ \A p \in questions' : \E q \in questions :
              Rewords(p, q) \/ (q.id \in ids /\ Answers(p, q, Row(q.id).answer))
<1> DEFINE new(id) == (CHOOSE row \in ToSet(returned.rows) : row.id = id).answer
           hit(q)  == q.id \in ids /\ new(q.id) # Blank /\ new(q.id) # q.values.answer
           New(q)  == IF hit(q) THEN ReviseAnswer(q, new(q.id)) ELSE q
<1>1. questions' = {New(q) : q \in questions} BY Zenon DEF ApplyAnswerRevisions
<1>2. UNCHANGED <<mapped, sent>> /\ returned' = NoRevisions BY DEF ApplyAnswerRevisions
<1>3. \A id : new(id) = Row(id).answer BY Zenon DEF Row
<1>4. \A q : hit(q) => q.id \in ids OBVIOUS
<1> HIDE DEF new, hit
<1>5. ASSUME NEW q \in questions
      PROVE  Rewords(New(q), q) \/ (q.id \in ids /\ Answers(New(q), q, Row(q.id).answer))
  <2>1. IsRow(q) /\ q.values = [f \in FieldSet |-> q.values[f]] BY DEF Rows, Asking
  <2>2. CASE hit(q)
    <3>1. PICK text : text = new(q.id) OBVIOUS
    <3>2. New(q) = Revised(q, text, "pending") BY <2>2, <3>1 DEF ReviseAnswer, Revised
    <3> HIDE DEF New
    <3>3. Answers(Revised(q, text, "pending"), q, text) BY <2>1, Same
    <3> QED BY <1>3, <1>4, <2>2, <3>1, <3>2, <3>3
  <2>3. CASE ~hit(q)
    <3>1. New(q) = q BY <2>3
    <3> HIDE DEF New
    <3> QED BY <3>1 DEF Rewords, SameQuestion
  <2> QED BY <2>2, <2>3
<1> HIDE DEF New
<1>6. PICK f : f = [q \in questions |-> New(q)] OBVIOUS
<1>7. \A p \in questions' : \E q \in questions : p = f[q] BY <1>1, <1>6
<1>8. IsFiniteSet(questions') BY <1>7, Covered DEF Finite
<1> QED BY <1>1, <1>2, <1>5, <1>8

\* What asks the same is of the same mapping.
LEMMA StillAsking ==
  ASSUME NEW q, NEW p, NEW m, Asking(q, m), SameQuestion(p, q)
  PROVE  Asking(p, m)
BY DEF Asking, SameQuestion

\* Whatever the step, the questions are those of the last mapping.
LEMMA NextAsMapped == Rows /\ Pages /\ AsMapped /\ Finite /\ [Next]_vars => AsMapped' /\ Finite'
<1> SUFFICES ASSUME Rows, Pages, AsMapped, Finite, [Next]_vars PROVE AsMapped' /\ Finite' OBVIOUS
<1>1. PICK m \in 0 .. mapped : \A q \in questions : Asking(q, m) BY DEF AsMapped
<1>2. CASE UNCHANGED <<questions, sent, mapped>> BY <1>2 DEF AsMapped, Finite
<1>3. ASSUME mapped' = mapped, sent' = sent, IsFiniteSet(questions'),
             \A p \in questions' : \E q \in questions : SameQuestion(p, q)
      PROVE  AsMapped' /\ Finite'
  <2>1. \A p \in questions' : Asking(p, m) BY <1>1, <1>3, StillAsking
  <2> QED BY <1>3, <2>1 DEF AsMapped, Finite
<1>4. CASE MapStep
  <2>1. ConfirmMapping(0, NoDomain) => AsMapped' /\ Finite' BY IngestAsMapped
  <2>2. \A i \in DOMAIN Shown, d \in DomainSet : ConfirmMapping(Shown[i].index, d) => AsMapped' /\ Finite'
    BY IngestAsMapped
  <2>3. \A sheet : MappingPage(sheet) => UNCHANGED <<questions, sent, mapped>> BY Zenon DEF MappingPage
  <2>4. \A c, f : RepreviewMapping(c, f) => UNCHANGED <<questions, sent, mapped>> BY Zenon DEF RepreviewMapping
  <2> QED BY <1>2, <1>4, <2>1, <2>2, <2>3, <2>4, Zenon DEF MapStep
<1>5. CASE SignOffStep
  <2>1. /\ IsFiniteSet(questions') /\ UNCHANGED <<mapped, sent>>
        /\ \A p \in questions' : \E q \in questions : Rewords(p, q)
    BY <1>5, SignOffKeeps
  <2> QED BY <1>3, <2>1 DEF Rewords
<1>6. CASE ReturnStep
  <2>1. CASE Export
    <3>1. PICK n, order : /\ n = Cardinality(questions) /\ sent' = InOrder(questions, order)
                          /\ UNCHANGED <<questions, mapped>>
      BY <2>1 DEF Export, ListForReview
    <3>2. n \in Nat BY <3>1, FS_CardinalityType DEF Finite
    <3>3. PICK s, Q : s = sent' /\ Q = questions OBVIOUS
    <3>4. s = [k \in 1 .. n |-> s[k]]
      <4>1. s = InOrder(Q, order) /\ n = Cardinality(Q) BY <3>1, <3>3
      <4> QED BY ONLY <4>1 DEF InOrder
    <3>5. PICK S : S = {s[k] : k \in 1 .. n} OBVIOUS
    <3>6. \A k \in 1 .. n : s[k] \in S BY <3>5
    <3>7. s \in [1 .. n -> S] BY <3>4, <3>6
    <3>8. s \in Seq(S) BY <3>2, <3>7
    <3> QED BY <1>1, <3>1, <3>3, <3>8 DEF AsMapped, Finite
  <2>2. CASE UploadAnswerRevisions BY <1>2, <2>2, Zenon DEF UploadAnswerRevisions
  <2>3. CASE Upload
    <3>1. questions' = {} /\ sent' = <<>> /\ mapped' = mapped BY <2>3 DEF Upload
    <3>2. IsFiniteSet({}) /\ <<>> \in Seq({}) BY FS_EmptySet
    <3>3. 0 \in 0 .. mapped BY DEF AsMapped
    <3> QED BY <3>1, <3>2, <3>3 DEF AsMapped, Finite
  <2>4. CASE \E ids \in SUBSET Checked : ApplyAnswerRevisions(ids)
    <3>1. PICK ids : ApplyAnswerRevisions(ids) BY <2>4
    <3>2. /\ IsFiniteSet(questions') /\ UNCHANGED <<mapped, sent>>
          /\ \A p \in questions' : \E q \in questions :
               Rewords(p, q) \/ (q.id \in ids /\ Answers(p, q, Row(q.id).answer))
      BY <1>1, <3>1, RevisionKeeps
    <3> QED BY <1>3, <3>2 DEF Rewords, Answers
  <2> QED BY <1>6, <2>1, <2>2, <2>3, <2>4, Zenon DEF ReturnStep
<1>7. CASE UNCHANGED vars BY <1>2, <1>7 DEF vars
<1> QED BY <1>4, <1>5, <1>6, <1>7 DEF Next

\* The page tells where every question belongs, row by row and section by section, for
\* every sheet, whatever is changed on the page and whatever was confirmed before.
THEOREM PageIsRight == Spec => []RowsFollowTheirHeading
<1> DEFINE Inv == Rows /\ Pages /\ AsMapped /\ Finite
<1>1. Init => Inv BY InitRows, InitPages, InitAsMapped
<1>2. Inv /\ [Next]_vars => Inv' BY NextRows, NextPages, NextAsMapped
<1>3. Pages => RowsFollowTheirHeading
  <2> SUFFICES ASSUME Pages, page.open PROVE EachUnderItsHeading /\ SectionsAddUp
    BY DEF RowsFollowTheirHeading
  <2>1. PICK g : g = GridFor(page.sheet).rows OBVIOUS
  <2>2. IsGrid(g) BY <2>1, GridsFor DEF Pages
  <2>3. CASE page.rows = <<>> /\ page.sections = <<>>
    <3>1. DOMAIN page.rows = {} /\ DOMAIN page.sections = {} BY <2>3
    <3>2. EachUnderItsHeading BY <3>1, Zenon DEF EachUnderItsHeading
    <3>3. SectionsAddUp BY <3>1, Zenon DEF SectionsAddUp
    <3> QED BY <3>2, <3>3
  <2>4. ASSUME NEW bound, page.rows = DetectSections(g, page.header, bound).rows,
               page.sections = DetectSections(g, page.header, bound).sections
        PROVE  EachUnderItsHeading /\ SectionsAddUp
    <3>1. PICK h : h = page.header OBVIOUS
    <3>2. h \in Nat BY <3>1 DEF Pages
    <3>3. PICK d : d = DetectSections(g, h, bound) OBVIOUS
    <3>4. PICK n, head, val : n = Below(g, h) /\ head = Heads(g, h) /\ val = Vals(g, h, bound) OBVIOUS
    <3>5. PICK secs : Settled(d, secs, h, head, val, n) BY <2>2, <3>2, <3>3, <3>4, SheetSettled
    <3>6. d.rows = page.rows /\ d.sections = page.sections BY <2>4, <3>1, <3>3
    <3>7. n \in Nat BY <2>2, <3>2, <3>4, BelowNat
    <3>8. EachUnderItsHeading BY <2>1, <2>2, <3>1, <3>2, <3>4, <3>5, <3>6, UnderHeadings
    <3>9. SectionsAddUp BY <3>2, <3>5, <3>6, <3>7, SectionsHold
    <3> QED BY <3>8, <3>9
  <2> QED BY <2>1, <2>3, <2>4 DEF Pages, PageShows, FoundOrNone
<1> HIDE DEF Inv
<1>4. Inv => RowsFollowTheirHeading BY <1>3 DEF Inv
<1> QED BY <1>1, <1>2, <1>4, PTL DEF Spec

(***************************************************************************)
(* Returned answers                                                        *)
(***************************************************************************)
\* The unmatched row of the file.
Left(row) == [text |-> row.values.question, domain |-> row.domain]

\* The row of the file finds a question no other row has, one of the same domain.
Finds(list, found, next, row, w) ==
  /\ w \in DOMAIN list /\ list[w].domain = row.domain
  /\ \A i \in DOMAIN found.rows : found.rows[i].id # list[w].id
  /\ next = [rows |-> Append(found.rows, Revision(list[w], row)), unmatched |-> found.unmatched]

\* The row finds none, and is left over.
IsLeft(found, next, row) ==
  next = [rows |-> found.rows, unmatched |-> Append(found.unmatched, Left(row))]

\* The best match is a question no other row of the file has taken.
LEMMA Unclaimed ==
  ASSUME NEW n \in Nat, NEW own, DOMAIN own = 1 .. n, NEW text, NEW claimed,
         NEW i, i = BestUnclaimedMatch(text, own, claimed), i # 0
  PROVE  i \in 1 .. n /\ own[i].id \notin claimed
<1> DEFINE open == {k \in DOMAIN own : own[k].id \notin claimed /\ Alike[text][own[k].values.question] > 0}
           best == {k \in open : \A j \in open : Alike[text][own[j].values.question]
                                                  <= Alike[text][own[k].values.question]}
<1>1. i = IF best = {} THEN 0 ELSE Min(best) BY DEF BestUnclaimedMatch
<1>2. best \in SUBSET {k \in 1 .. n : own[k].id \notin claimed} OBVIOUS
<1> HIDE DEF best
<1>3. best # {} /\ i = Min(best) BY <1>1
<1>4. best \in SUBSET Nat BY <1>2
<1>5. i \in best BY <1>3, <1>4, MinIs
<1> QED BY <1>2, <1>5

\* A row of the file finds a question of its domain, or is left over.
LEMMA OneMatch ==
  ASSUME NEW X, NEW list \in Seq(X), NEW rows, NEW unmatched, NEW found,
         found = [rows |-> rows, unmatched |-> unmatched], NEW row, NEW next, next = Match(list, found, row)
  PROVE  IsLeft(found, next, row) \/ \E w : Finds(list, found, next, row, w)
<1>1. PICK P : P = {k \in DOMAIN list : list[k].domain = row.domain} OBVIOUS
<1>2. PICK own, text, claimed, i :
        /\ own = Sublist(list, P) /\ text = row.values.question
        /\ claimed = {found.rows[k].id : k \in DOMAIN found.rows}
        /\ i = BestUnclaimedMatch(text, own, claimed)
  OBVIOUS
<1>3. next = IF i = 0 \/ (i # 0 /\ Alike[text][own[i].values.question] < AnswerMatchThreshold)
             THEN [found EXCEPT !.unmatched = Append(@, [text |-> text, domain |-> row.domain])]
             ELSE [found EXCEPT !.rows = Append(@, Revision(own[i], row))]
  BY <1>1, <1>2, Zenon DEF Match
<1>4. CASE i = 0 \/ Alike[text][own[i].values.question] < AnswerMatchThreshold
  <2>1. PICK left : left = Append(unmatched, Left(row)) OBVIOUS
  <2>2. next = [found EXCEPT !.unmatched = Append(@, [text |-> text, domain |-> row.domain])]
    BY <1>3, <1>4, Zenon
  <2>3. next = [found EXCEPT !.unmatched = left] BY <1>2, <2>1, <2>2 DEF Left
  <2>4. next = [rows |-> rows, unmatched |-> left] BY <2>3
  <2> QED BY <2>1, <2>4 DEF IsLeft
<1>5. CASE ~(i = 0 \/ Alike[text][own[i].values.question] < AnswerMatchThreshold)
  <2>1. own \in Seq(X) /\ \A k \in DOMAIN own : \E j \in P : own[k] = list[j]
    <3>1. P \in SUBSET DOMAIN list BY <1>1
    <3>2. /\ Sublist(list, P) \in Seq(X)
          /\ \A k \in DOMAIN Sublist(list, P) : \E j \in P : Sublist(list, P)[k] = list[j]
      BY <3>1, SublistKeeps
    <3> QED BY <1>2, <3>2
  <2>2. PICK n \in Nat : DOMAIN own = 1 .. n BY <2>1
  <2>3. i \in 1 .. n /\ own[i].id \notin claimed
    <3>1. i = BestUnclaimedMatch(text, own, claimed) /\ i # 0 BY <1>2, <1>5
    <3>2. n \in Nat /\ DOMAIN own = 1 .. n BY <2>2
    <3> HIDE <1>5
    <3> QED BY ONLY <3>1, <3>2, Unclaimed
  <2>4. PICK w \in P : own[i] = list[w] BY <2>1, <2>2, <2>3
  <2>5. PICK all : all = Append(rows, Revision(list[w], row)) OBVIOUS
  <2>6. next = [found EXCEPT !.rows = Append(@, Revision(own[i], row))] BY <1>3, <1>5, Zenon
  <2>7. next = [found EXCEPT !.rows = all] BY <2>4, <2>5, <2>6
  <2>8. next = [rows |-> all, unmatched |-> unmatched] BY <2>7
  <2>9. \A k \in DOMAIN found.rows : found.rows[k].id # list[w].id BY <1>2, <2>3, <2>4
  <2>10. w \in DOMAIN list /\ list[w].domain = row.domain BY <1>1
  <2> QED BY <2>5, <2>8, <2>9, <2>10 DEF Finds
<1> QED BY <1>4, <1>5

\* f gives what is matched after each row of the file.
Matched(f, list, asked, n) ==
  f = [k \in 0 .. n |-> IF k = 0 THEN NoRevisions ELSE Match(list, f[k - 1], asked[k])]

\* The rows of the file can be matched one after another.
LEMMA MatchedOn ==
  ASSUME NEW n \in Nat, NEW list, NEW asked
  PROVE  \E f : Matched(f, list, asked, n)
<1> DEFINE P == {m \in 0 .. n : \E f : Matched(f, list, asked, m)}
<1>1. 0 \in P
  <2>1. PICK f : f = [k \in 0 .. 0 |-> NoRevisions] OBVIOUS
  <2>2. Matched(f, list, asked, 0) BY <2>1 DEF Matched
  <2> QED BY <2>2
<1>2. ASSUME NEW m \in 0 .. (n - 1), m \in P PROVE m + 1 \in P
  <2>1. PICK f : Matched(f, list, asked, m) BY <1>2
  <2>2. PICK last : last = Match(list, f[m], asked[m + 1]) OBVIOUS
  <2>3. PICK g : g = [k \in 0 .. (m + 1) |-> IF k = m + 1 THEN last ELSE f[k]] OBVIOUS
  <2>4. \A k \in 0 .. (m + 1) : g[k] = IF k = 0 THEN NoRevisions ELSE Match(list, g[k - 1], asked[k])
    <3> TAKE k \in 0 .. (m + 1)
    <3>1. CASE k = m + 1
      <4>1. g[k - 1] = f[m] /\ g[k] = last /\ k # 0 BY <2>3, <3>1
      <4> QED BY <2>2, <3>1, <4>1
    <3>2. CASE k # m + 1
      <4>1. k \in 0 .. m /\ g[k] = f[k] BY <2>3, <3>2
      <4>2. k # 0 => g[k - 1] = f[k - 1] BY <2>3, <4>1
      <4>3. f[k] = IF k = 0 THEN NoRevisions ELSE Match(list, f[k - 1], asked[k])
        BY <2>1, <4>1 DEF Matched
      <4> QED BY <4>1, <4>2, <4>3
    <3> QED BY <3>1, <3>2
  <2>5. g = [k \in 0 .. (m + 1) |-> IF k = 0 THEN NoRevisions ELSE Match(list, g[k - 1], asked[k])]
    BY <2>3, <2>4
  <2>6. Matched(g, list, asked, m + 1) BY <2>5 DEF Matched
  <2>7. m + 1 \in 0 .. n OBVIOUS
  <2> QED BY <2>6, <2>7
<1>3. P \in SUBSET (0 .. n) OBVIOUS
<1> HIDE DEF P
<1>4. P = 0 .. n BY <1>1, <1>2, <1>3, UpTo
<1>5. n \in P BY <1>4
<1> QED BY <1>5 DEF P

\* Row i is about question who[i] and stands at from[i] in the file; the others of the
\* file's first k rows are left over.
Pairs(list, asked, rows, n, from, who, k) ==
  /\ n \in Nat /\ rows = [i \in 1 .. n |-> rows[i]]
  /\ from \in [1 .. n -> 1 .. k] /\ who \in [1 .. n -> DOMAIN list]
  /\ \A i \in 1 .. n : rows[i] = Revision(list[who[i]], asked[from[i]])
                       /\ list[who[i]].domain = asked[from[i]].domain
  /\ \A i, j \in 1 .. n : (list[who[i]].id = list[who[j]].id \/ from[i] = from[j]) => i = j

\* The questions left over, and where they stand in the file.
Leaves(asked, unmatched, n, gone, k) ==
  /\ n \in Nat /\ unmatched = [j \in 1 .. n |-> unmatched[j]]
  /\ gone \in [1 .. n -> 1 .. k]
  /\ \A j \in 1 .. n : unmatched[j] = Left(asked[gone[j]])

\* Each of the file's first k rows is on the page, as a pair or left over.
Paired(list, asked, found, k) ==
  /\ found = [rows |-> found.rows, unmatched |-> found.unmatched]
  /\ \E n, from, who, l, gone :
       /\ Pairs(list, asked, found.rows, n, from, who, k) /\ Leaves(asked, found.unmatched, l, gone, k)
       /\ \A m \in 1 .. k : (\E i \in 1 .. n : from[i] = m) \/ (\E j \in 1 .. l : gone[j] = m)

\* A row of the file that finds a question is one more pair.
LEMMA MorePairs ==
  ASSUME NEW list, NEW asked, NEW rows, NEW n, NEW from, NEW who, NEW k \in Nat,
         Pairs(list, asked, rows, n, from, who, k),
         NEW w \in DOMAIN list, list[w].domain = asked[k + 1].domain,
         \A i \in 1 .. n : rows[i].id # list[w].id
  PROVE  \E f, o : /\ Pairs(list, asked, Append(rows, Revision(list[w], asked[k + 1])), n + 1, f, o, k + 1)
                   /\ f[n + 1] = k + 1 /\ \A i \in 1 .. n : f[i] = from[i]
<1>1. n \in Nat /\ rows = [i \in 1 .. n |-> rows[i]]
      /\ from \in [1 .. n -> 1 .. k] /\ who \in [1 .. n -> DOMAIN list]
  BY DEF Pairs
<1>2. \A i \in 1 .. n : rows[i] = Revision(list[who[i]], asked[from[i]])
                        /\ list[who[i]].domain = asked[from[i]].domain
  BY DEF Pairs
<1>3. \A i, j \in 1 .. n : (list[who[i]].id = list[who[j]].id \/ from[i] = from[j]) => i = j BY DEF Pairs
<1>4. PICK new, all, f, o :
        /\ new = Revision(list[w], asked[k + 1]) /\ all = Append(rows, new)
        /\ f = [i \in 1 .. (n + 1) |-> IF i = n + 1 THEN k + 1 ELSE from[i]]
        /\ o = [i \in 1 .. (n + 1) |-> IF i = n + 1 THEN w ELSE who[i]]
  OBVIOUS
<1>5. \A i \in 1 .. (n + 1) : i # n + 1 => i \in 1 .. n BY <1>1
<1>6. f \in [1 .. (n + 1) -> 1 .. (k + 1)]
  <2>1. \A i \in 1 .. (n + 1) : f[i] \in 1 .. (k + 1) BY <1>1, <1>4, <1>5
  <2> QED BY <1>4, <2>1
<1>7. o \in [1 .. (n + 1) -> DOMAIN list]
  <2>1. \A i \in 1 .. (n + 1) : o[i] \in DOMAIN list BY <1>1, <1>4, <1>5
  <2> QED BY <1>4, <2>1
<1>8. all = [i \in 1 .. (n + 1) |-> IF i = n + 1 THEN new ELSE rows[i]]
  <2>1. PICK R : R = {rows[i] : i \in 1 .. n} \cup {new} OBVIOUS
  <2>2. \A i \in 1 .. n : rows[i] \in R BY <2>1
  <2>3. rows \in [1 .. n -> R] BY <1>1, <2>2
  <2>4. rows \in Seq(R) /\ Len(rows) = n BY <1>1, <2>3
  <2> QED BY <1>4, <2>1, <2>4
<1>9. all = [i \in 1 .. (n + 1) |-> all[i]] BY <1>8
<1>10. \A i \in 1 .. (n + 1) : all[i] = Revision(list[o[i]], asked[f[i]])
                               /\ list[o[i]].domain = asked[f[i]].domain
  BY <1>2, <1>4, <1>5, <1>8
<1>11. \A i \in 1 .. n : rows[i].id = list[who[i]].id
  <2>1. \A q, row : Revision(q, row).id = q.id BY DEF Revision
  <2> QED BY <1>2, <2>1
<1>12. ASSUME NEW i \in 1 .. (n + 1), NEW j \in 1 .. (n + 1),
              list[o[i]].id = list[o[j]].id \/ f[i] = f[j]
       PROVE  i = j
  <2>1. \A a \in 1 .. n : from[a] # k + 1 BY <1>1
  <2> QED BY <1>3, <1>4, <1>5, <1>11, <1>12, <2>1
<1>13. n + 1 \in Nat BY <1>1
<1>14. Pairs(list, asked, all, n + 1, f, o, k + 1) BY <1>6, <1>7, <1>9, <1>10, <1>12, <1>13 DEF Pairs
<1>15. f[n + 1] = k + 1 /\ \A i \in 1 .. n : f[i] = from[i] BY <1>1, <1>4
<1> QED BY <1>4, <1>14, <1>15

\* What is known of k rows of the file is not undone by the next.
LEMMA FewerLeft ==
  ASSUME NEW list, NEW asked, NEW rows, NEW n, NEW from, NEW who, NEW k \in Nat
  PROVE  /\ Pairs(list, asked, rows, n, from, who, k) => Pairs(list, asked, rows, n, from, who, k + 1)
         /\ Leaves(asked, rows, n, from, k) => Leaves(asked, rows, n, from, k + 1)
<1>1. 1 .. k \in SUBSET (1 .. (k + 1)) OBVIOUS
<1>2. \A S : [S -> 1 .. k] \in SUBSET [S -> 1 .. (k + 1)] BY <1>1
<1> QED BY <1>2 DEF Pairs, Leaves

\* A row of the file that finds none is one more left over.
LEMMA MoreLeft ==
  ASSUME NEW asked, NEW unmatched, NEW n, NEW gone, NEW k \in Nat, Leaves(asked, unmatched, n, gone, k)
  PROVE  \E g : /\ Leaves(asked, Append(unmatched, Left(asked[k + 1])), n + 1, g, k + 1)
                /\ g[n + 1] = k + 1 /\ \A i \in 1 .. n : g[i] = gone[i]
<1>1. n \in Nat /\ unmatched = [i \in 1 .. n |-> unmatched[i]] /\ gone \in [1 .. n -> 1 .. k]
      /\ \A j \in 1 .. n : unmatched[j] = Left(asked[gone[j]])
  BY DEF Leaves
<1>2. PICK new, all, g : /\ new = Left(asked[k + 1]) /\ all = Append(unmatched, new)
                         /\ g = [i \in 1 .. (n + 1) |-> IF i = n + 1 THEN k + 1 ELSE gone[i]]
  OBVIOUS
<1>3. \A i \in 1 .. (n + 1) : i # n + 1 => i \in 1 .. n BY <1>1
<1>4. g \in [1 .. (n + 1) -> 1 .. (k + 1)]
  <2>1. \A i \in 1 .. (n + 1) : g[i] \in 1 .. (k + 1) BY <1>1, <1>2, <1>3
  <2> QED BY <1>2, <2>1
<1>5. all = [i \in 1 .. (n + 1) |-> IF i = n + 1 THEN new ELSE unmatched[i]]
  <2>1. PICK R : R = {unmatched[i] : i \in 1 .. n} \cup {new} OBVIOUS
  <2>2. \A i \in 1 .. n : unmatched[i] \in R BY <2>1
  <2>3. unmatched \in [1 .. n -> R] BY <1>1, <2>2
  <2>4. unmatched \in Seq(R) /\ Len(unmatched) = n BY <1>1, <2>3
  <2> QED BY <1>2, <2>1, <2>4
<1>6. all = [i \in 1 .. (n + 1) |-> all[i]] BY <1>5
<1>7. \A i \in 1 .. (n + 1) : all[i] = Left(asked[g[i]]) BY <1>1, <1>2, <1>3, <1>5
<1>8. n + 1 \in Nat BY <1>1
<1>9. Leaves(asked, all, n + 1, g, k + 1) BY <1>4, <1>6, <1>7, <1>8 DEF Leaves
<1>10. g[n + 1] = k + 1 /\ \A i \in 1 .. n : g[i] = gone[i] BY <1>1, <1>2
<1> QED BY <1>2, <1>9, <1>10

\* Matching one more row keeps the pairs apart, and every row accounted for.
LEMMA OneMorePaired ==
  ASSUME NEW X, NEW list \in Seq(X), NEW asked, NEW found, NEW k \in Nat, Paired(list, asked, found, k),
         NEW next, next = Match(list, found, asked[k + 1])
  PROVE  Paired(list, asked, next, k + 1)
<1>1. PICK n, from, who, l, gone :
        /\ Pairs(list, asked, found.rows, n, from, who, k) /\ Leaves(asked, found.unmatched, l, gone, k)
        /\ \A m \in 1 .. k : (\E i \in 1 .. n : from[i] = m) \/ (\E j \in 1 .. l : gone[j] = m)
  BY DEF Paired
<1>2. PICK rows, unmatched, row : rows = found.rows /\ unmatched = found.unmatched /\ row = asked[k + 1]
  OBVIOUS
<1>3. found = [rows |-> rows, unmatched |-> unmatched] BY <1>2 DEF Paired
<1>4. IsLeft(found, next, row) \/ \E w : Finds(list, found, next, row, w) BY <1>2, <1>3, OneMatch
<1>5. n \in Nat /\ l \in Nat /\ DOMAIN rows = 1 .. n
  <2>1. n \in Nat /\ l \in Nat /\ found.rows = [i \in 1 .. n |-> found.rows[i]] BY <1>1 DEF Pairs, Leaves
  <2>2. rows = [i \in 1 .. n |-> rows[i]] BY <1>2, <2>1
  <2> QED BY <2>1, <2>2
<1>6. CASE IsLeft(found, next, row)
  <2>1. PICK all : all = Append(unmatched, Left(asked[k + 1])) OBVIOUS
  <2>2. next = [rows |-> rows, unmatched |-> all] BY <1>2, <1>6, <2>1 DEF IsLeft
  <2>3. next.rows = rows /\ next.unmatched = all BY <2>2
  <2>4. Leaves(asked, unmatched, l, gone, k) BY <1>1, <1>2
  <2>5. PICK g : Leaves(asked, all, l + 1, g, k + 1) /\ g[l + 1] = k + 1 /\ \A i \in 1 .. l : g[i] = gone[i]
    BY <2>1, <2>4, MoreLeft
  <2>6. Pairs(list, asked, rows, n, from, who, k + 1) BY <1>1, <1>2, FewerLeft
  <2>7. ASSUME NEW m \in 1 .. (k + 1)
        PROVE  (\E i \in 1 .. n : from[i] = m) \/ (\E j \in 1 .. (l + 1) : g[j] = m)
    <3>1. CASE m = k + 1
      <4>1. l + 1 \in 1 .. (l + 1) BY <1>5
      <4> QED BY <2>5, <3>1, <4>1
    <3>2. CASE m # k + 1
      <4>1. m \in 1 .. k BY <3>2
      <4>2. \A j \in 1 .. l : j \in 1 .. (l + 1) BY <1>5
      <4> QED BY <1>1, <2>5, <4>1, <4>2
    <3> QED BY <3>1, <3>2
  <2> QED BY <2>2, <2>3, <2>5, <2>6, <2>7 DEF Paired
<1>7. ASSUME NEW w, Finds(list, found, next, row, w) PROVE Paired(list, asked, next, k + 1)
  <2>1. /\ w \in DOMAIN list /\ list[w].domain = asked[k + 1].domain
        /\ \A i \in 1 .. n : rows[i].id # list[w].id
    BY <1>2, <1>5, <1>7 DEF Finds
  <2>2. PICK all : all = Append(rows, Revision(list[w], asked[k + 1])) OBVIOUS
  <2>3. next = [rows |-> all, unmatched |-> unmatched] BY <1>2, <1>7, <2>2 DEF Finds
  <2>4. next.rows = all /\ next.unmatched = unmatched BY <2>3
  <2>5. Pairs(list, asked, rows, n, from, who, k) BY <1>1, <1>2
  <2>6. PICK f, o : /\ Pairs(list, asked, all, n + 1, f, o, k + 1)
                    /\ f[n + 1] = k + 1 /\ \A i \in 1 .. n : f[i] = from[i]
    BY <2>1, <2>2, <2>5, MorePairs
  <2>7. Leaves(asked, unmatched, l, gone, k + 1) BY <1>1, <1>2, FewerLeft
  <2>8. ASSUME NEW m \in 1 .. (k + 1)
        PROVE  (\E i \in 1 .. (n + 1) : f[i] = m) \/ (\E j \in 1 .. l : gone[j] = m)
    <3>1. CASE m = k + 1
      <4>1. n + 1 \in 1 .. (n + 1) BY <1>5
      <4> QED BY <2>6, <3>1, <4>1
    <3>2. CASE m # k + 1
      <4>1. m \in 1 .. k BY <3>2
      <4>2. \A j \in 1 .. n : j \in 1 .. (n + 1) BY <1>5
      <4> QED BY <1>1, <2>6, <4>1, <4>2
    <3> QED BY <3>1, <3>2
  <2> QED BY <2>3, <2>4, <2>6, <2>7, <2>8 DEF Paired
<1> QED BY <1>4, <1>6, <1>7

\* Before the first row nothing is paired.
LEMMA NonePaired == \A list, asked : Paired(list, asked, NoRevisions, 0)
<1> TAKE list, asked
<1>1. PICK e : e = [i \in 1 .. 0 |-> 0] OBVIOUS
<1>2. <<>> = [i \in 1 .. 0 |-> <<>>[i]] /\ e \in [1 .. 0 -> 1 .. 0] /\ e \in [1 .. 0 -> DOMAIN list] BY <1>1
<1>3. Pairs(list, asked, <<>>, 0, e, e, 0) BY <1>2 DEF Pairs
<1>4. Leaves(asked, <<>>, 0, e, 0) BY <1>2 DEF Leaves
<1>5. NoRevisions.rows = <<>> /\ NoRevisions.unmatched = <<>>
      /\ NoRevisions = [rows |-> NoRevisions.rows, unmatched |-> NoRevisions.unmatched]
  BY DEF NoRevisions
<1> QED BY <1>3, <1>4, <1>5 DEF Paired

\* So it is after every row of the file.
LEMMA AllPaired ==
  ASSUME NEW n \in Nat, NEW X, NEW list \in Seq(X), NEW asked, NEW f, Matched(f, list, asked, n)
  PROVE  \A k \in 0 .. n : Paired(list, asked, f[k], k)
<1> DEFINE P == {k \in 0 .. n : Paired(list, asked, f[k], k)}
<1>1. f[0] = NoRevisions /\ \A k \in 0 .. (n - 1) : f[k + 1] = Match(list, f[k], asked[k + 1])
  <2>1. \A k \in 0 .. (n - 1) : k + 1 \in 0 .. n /\ k + 1 # 0 /\ (k + 1) - 1 = k OBVIOUS
  <2> QED BY <2>1 DEF Matched
<1>2. 0 \in P BY <1>1, NonePaired
<1>3. ASSUME NEW k \in 0 .. (n - 1), k \in P PROVE k + 1 \in P
  <2>1. Paired(list, asked, f[k], k) /\ k \in Nat BY <1>3
  <2>2. Paired(list, asked, f[k + 1], k + 1) BY <1>1, <2>1, OneMorePaired
  <2> QED BY <2>2
<1>4. P \in SUBSET (0 .. n) OBVIOUS
<1> HIDE DEF P
<1>5. P = 0 .. n BY <1>2, <1>3, <1>4, UpTo
<1> QED BY <1>5 DEF P

-----------------------------------------------------------------------------
\* The rows are shown in another order.
Reorders(at, n, rows, all) ==
  /\ at \in [1 .. n -> 1 .. n]
  /\ \A i \in 1 .. n : \E k \in 1 .. n : at[k] = i
  /\ \A i, k \in 1 .. n : at[i] = at[k] => i = k
  /\ all = [k \in 1 .. n |-> rows[at[k]]]

\* Showing the changed rows first loses none and repeats none.
LEMMA Reordered ==
  ASSUME NEW n \in Nat, NEW rows, rows = [i \in 1 .. n |-> rows[i]],
         \A i \in 1 .. n : rows[i].changed \in BOOLEAN
  PROVE  \E at : Reorders(at, n, rows, ChangesFirst(rows))
<1> DEFINE before(i, k) == \/ rows[i].changed /\ ~rows[k].changed
                           \/ rows[i].changed = rows[k].changed /\ i < k
<1>1. PICK at, order : /\ order = {p \in (1 .. n) \X (1 .. n) : before(p[1], p[2])}
                       /\ at = InOrder(1 .. n, order)
  OBVIOUS
<1>2. DOMAIN rows = 1 .. n OBVIOUS
<1>3. ChangesFirst(rows) = [k \in DOMAIN at |-> rows[at[k]]] BY <1>1, <1>2 DEF ChangesFirst
<1>4. Ordering(1 .. n, order)
  <2>1. \A i, k \in 1 .. n : <<i, k>> \in order <=> before(i, k) BY <1>1
  <2>2. PICK c : c = [i \in 1 .. n |-> rows[i].changed] OBVIOUS
  <2>3. \A i \in 1 .. n : c[i] = TRUE \/ c[i] = FALSE BY <2>2
  <2>4. \A i, k \in 1 .. n : before(i, k) <=>
        ((c[i] = TRUE /\ c[k] = FALSE) \/ (c[i] = c[k] /\ i < k))
    <3>1. \A i \in 1 .. n : rows[i].changed <=> c[i] = TRUE BY <2>2
    <3>2. \A i, k \in 1 .. n : rows[i].changed = rows[k].changed <=> c[i] = c[k] BY <2>2
    <3>3. \A i \in 1 .. n : ~rows[i].changed <=> c[i] = FALSE BY <2>3, <3>1
    <3> QED BY <3>1, <3>2, <3>3, Zenon
  <2> HIDE DEF before
  <2>5. \A i, k \in 1 .. n : <<i, k>> \in order <=>
        ((c[i] = TRUE /\ c[k] = FALSE) \/ (c[i] = c[k] /\ i < k))
    BY <2>1, <2>4
  <2>6. \A i \in 1 .. n : <<i, i>> \notin order BY <2>5
  <2>7. ASSUME NEW i \in 1 .. n, NEW j \in 1 .. n, NEW k \in 1 .. n, <<i, j>> \in order, <<j, k>> \in order
        PROVE  <<i, k>> \in order
    <3>1. i < j /\ j < k => i < k OBVIOUS
    <3> QED BY <2>5, <2>7, <3>1
  <2>8. ASSUME NEW i \in 1 .. n, NEW k \in 1 .. n
        PROVE  i = k \/ <<i, k>> \in order \/ <<k, i>> \in order
    <3>1. i = k \/ i < k \/ k < i OBVIOUS
    <3> QED BY <2>3, <2>5, <3>1
  <2> QED BY <2>6, <2>7, <2>8 DEF Ordering
<1>5. IsFiniteSet(1 .. n) /\ Cardinality(1 .. n) = n BY UpToN
<1>6. /\ at \in [1 .. n -> 1 .. n]
      /\ \A i \in 1 .. n : \E k \in 1 .. n : at[k] = i
      /\ \A i, k \in 1 .. n : i < k <=> <<at[i], at[k]>> \in order
  <2>1. PICK S : S = 1 .. n OBVIOUS
  <2>2. IsFiniteSet(S) /\ Ordering(S, order) /\ Cardinality(S) = n BY <1>4, <1>5, <2>1
  <2>3. /\ InOrder(S, order) \in [1 .. Cardinality(S) -> S]
        /\ \A x \in S : \E k \in 1 .. Cardinality(S) : InOrder(S, order)[k] = x
        /\ \A i, k \in 1 .. Cardinality(S) :
             i < k <=> <<InOrder(S, order)[i], InOrder(S, order)[k]>> \in order
    BY <2>2, InOrderRanks
  <2> QED BY <1>1, <2>1, <2>2, <2>3
<1>7. ASSUME NEW i \in 1 .. n, NEW k \in 1 .. n, at[i] = at[k] PROVE i = k
  <2>1. <<at[i], at[k]>> \notin order /\ <<at[k], at[i]>> \notin order
    <3>1. at[i] \in 1 .. n BY <1>6
    <3>2. \A x \in 1 .. n : <<x, x>> \notin order BY <1>4 DEF Ordering
    <3> QED BY <1>7, <3>1, <3>2
  <2>2. ~(i < k) /\ ~(k < i) BY <1>6, <2>1
  <2> QED BY <2>2
<1>8. DOMAIN at = 1 .. n BY <1>6
<1>9. ChangesFirst(rows) = [k \in 1 .. n |-> rows[at[k]]] BY <1>3, <1>8
<1> HIDE DEF before
<1> QED BY <1>6, <1>7, <1>9 DEF Reorders

\* In another order the pairs are the same pairs.
LEMMA Turned ==
  ASSUME NEW list, NEW asked, NEW rows, NEW n, NEW from, NEW who, NEW k \in Nat,
         Pairs(list, asked, rows, n, from, who, k)
  PROVE  \E f, o : /\ Pairs(list, asked, ChangesFirst(rows), n, f, o, k)
                   /\ \A m : (\E i \in 1 .. n : from[i] = m) <=> (\E i \in 1 .. n : f[i] = m)
<1>1. /\ n \in Nat /\ rows = [i \in 1 .. n |-> rows[i]]
      /\ from \in [1 .. n -> 1 .. k] /\ who \in [1 .. n -> DOMAIN list]
  BY DEF Pairs
<1>2. \A i \in 1 .. n : rows[i] = Revision(list[who[i]], asked[from[i]])
                        /\ list[who[i]].domain = asked[from[i]].domain
  BY DEF Pairs
<1>3. \A i, j \in 1 .. n : (list[who[i]].id = list[who[j]].id \/ from[i] = from[j]) => i = j BY DEF Pairs
<1>4. \A i \in 1 .. n : rows[i].changed \in BOOLEAN
  <2>1. \A q, row : Revision(q, row).changed
                    = (row.values.answer # Blank /\ row.values.answer # q.values.answer)
    BY DEF Revision
  <2>2. \A q, row : Revision(q, row).changed \in BOOLEAN BY <2>1
  <2> QED BY <1>2, <2>2
<1>5. PICK at : /\ at \in [1 .. n -> 1 .. n]
                /\ \A i \in 1 .. n : \E j \in 1 .. n : at[j] = i
                /\ \A i, j \in 1 .. n : at[i] = at[j] => i = j
                /\ ChangesFirst(rows) = [i \in 1 .. n |-> rows[at[i]]]
  <2>1. PICK at : Reorders(at, n, rows, ChangesFirst(rows)) BY <1>1, <1>4, Reordered
  <2> QED BY <2>1 DEF Reorders
<1>6. PICK all, f, o : /\ all = ChangesFirst(rows)
                       /\ f = [i \in 1 .. n |-> from[at[i]]] /\ o = [i \in 1 .. n |-> who[at[i]]]
  OBVIOUS
<1>7. all = [i \in 1 .. n |-> all[i]] /\ \A i \in 1 .. n : all[i] = rows[at[i]] BY <1>5, <1>6
<1>8. f \in [1 .. n -> 1 .. k] /\ o \in [1 .. n -> DOMAIN list] BY <1>1, <1>5, <1>6
<1>9. \A i \in 1 .. n : all[i] = Revision(list[o[i]], asked[f[i]]) /\ list[o[i]].domain = asked[f[i]].domain
  BY <1>2, <1>5, <1>6, <1>7
<1>10. ASSUME NEW i \in 1 .. n, NEW j \in 1 .. n, list[o[i]].id = list[o[j]].id \/ f[i] = f[j] PROVE i = j
  <2>1. at[i] \in 1 .. n /\ at[j] \in 1 .. n BY <1>5
  <2>2. o[i] = who[at[i]] /\ o[j] = who[at[j]] /\ f[i] = from[at[i]] /\ f[j] = from[at[j]] BY <1>6
  <2>3. at[i] = at[j] BY <1>3, <1>10, <2>1, <2>2
  <2> QED BY <1>5, <2>3
<1>11. Pairs(list, asked, all, n, f, o, k) BY <1>1, <1>7, <1>8, <1>9, <1>10 DEF Pairs
<1>12. ASSUME NEW m PROVE (\E i \in 1 .. n : from[i] = m) <=> (\E i \in 1 .. n : f[i] = m)
  BY <1>5, <1>6
<1>13. Pairs(list, asked, ChangesFirst(rows), n, f, o, k) BY <1>6, <1>11
<1> QED BY <1>12, <1>13, Zenon

\* The questions by domain, in the order of the file: each of them, once.
LEMMA ListOf ==
  ASSUME Rows, AsMapped, Finite
  PROVE  \E n \in Nat : /\ n = Cardinality(questions) /\ ListForReview(questions) \in [1 .. n -> questions]
                        /\ \A q \in questions : \E k \in 1 .. n : ListForReview(questions)[k] = q
<1> DEFINE place(q) == CHOOSE i \in DOMAIN Domains : Domains[i] = q.domain
           before(p, q) == \/ place(p) < place(q)
                           \/ place(p) = place(q) /\ p.position < q.position
<1>1. PICK order, Q : order = {p \in questions \X questions : before(p[1], p[2])} /\ Q = questions OBVIOUS
<1>2. ListForReview(questions) = InOrder(Q, order) BY <1>1 DEF ListForReview
<1>3. PICK len \in Nat : DOMAIN Domains = 1 .. len BY DomainsAssumption
<1>4. PICK m \in 0 .. mapped : \A q \in questions : Asking(q, m) BY DEF AsMapped
<1>5. \A q \in Q : place(q) \in Nat /\ Domains[place(q)] = q.domain /\ q.position \in Nat
  <2> TAKE q \in Q
  <2>1. q.domain \in DomainSet /\ q.position \in Nat BY <1>1, <1>4 DEF Asking
  <2>2. \E i \in DOMAIN Domains : Domains[i] = q.domain BY <2>1 DEF DomainSet
  <2>3. place(q) \in DOMAIN Domains /\ Domains[place(q)] = q.domain BY <2>2
  <2> QED BY <1>3, <2>1, <2>3
<1>6. PICK at : at = [q \in Q |-> place(q)] OBVIOUS
<1>7. \A p, q \in Q : <<p, q>> \in order <=> (at[p] < at[q] \/ (at[p] = at[q] /\ p.position < q.position))
  BY <1>1, <1>6
<1>8. \A p, q \in Q : at[p] \in Nat /\ (p.position = q.position => p = q)
  <2>1. \A p \in Q : at[p] \in Nat BY <1>5, <1>6
  <2>2. \A q \in Q : q.id = <<m, q.position>> BY <1>1, <1>4 DEF Asking
  <2>3. \A p, q \in Q : p.position = q.position => p.id = q.id BY <2>2
  <2> QED BY <1>1, <2>1, <2>3 DEF Rows
<1> HIDE DEF before, place
<1>9. Ordering(Q, order)
  <2>1. \A p \in Q : <<p, p>> \notin order BY <1>5, <1>7, <1>8
  <2>2. ASSUME NEW p \in Q, NEW q \in Q, NEW r \in Q, <<p, q>> \in order, <<q, r>> \in order
        PROVE  <<p, r>> \in order
    <3>1. PICK a \in Nat, b \in Nat, c \in Nat : a = at[p] /\ b = at[q] /\ c = at[r] BY <1>8
    <3>2. PICK x \in Nat, y \in Nat, z \in Nat : x = p.position /\ y = q.position /\ z = r.position BY <1>5
    <3>3. (a < b \/ (a = b /\ x < y)) /\ (b < c \/ (b = c /\ y < z)) BY <1>7, <2>2, <3>1, <3>2
    <3>4. a < c \/ (a = c /\ x < z) BY <3>3
    <3> QED BY <1>7, <3>1, <3>2, <3>4
  <2>3. ASSUME NEW p \in Q, NEW q \in Q PROVE p = q \/ <<p, q>> \in order \/ <<q, p>> \in order
    <3>1. PICK a \in Nat, b \in Nat : a = at[p] /\ b = at[q] BY <1>8
    <3>2. PICK x \in Nat, y \in Nat : x = p.position /\ y = q.position BY <1>5
    <3>3. x = y => p = q BY <1>8, <3>2
    <3>4. (x = y) \/ (a < b \/ (a = b /\ x < y)) \/ (b < a \/ (b = a /\ y < x)) OBVIOUS
    <3>5. (a < b \/ (a = b /\ x < y)) => <<p, q>> \in order BY <1>7, <3>1, <3>2
    <3>6. (b < a \/ (b = a /\ y < x)) => <<q, p>> \in order BY <1>7, <3>1, <3>2
    <3> QED BY <3>3, <3>4, <3>5, <3>6
  <2> QED BY <2>1, <2>2, <2>3 DEF Ordering
<1>10. IsFiniteSet(Q) BY <1>1 DEF Finite
<1>11. PICK n \in Nat : n = Cardinality(Q) BY <1>10, FS_CardinalityType
<1>12. /\ InOrder(Q, order) \in [1 .. Cardinality(Q) -> Q]
       /\ \A x \in Q : \E k \in 1 .. Cardinality(Q) : InOrder(Q, order)[k] = x
  BY <1>9, <1>10, InOrderRanks
<1>13. /\ n = Cardinality(questions) /\ ListForReview(questions) \in [1 .. n -> questions]
       /\ \A q \in questions : \E k \in 1 .. n : ListForReview(questions)[k] = q
  <2>1. PICK list : list = InOrder(Q, order) OBVIOUS
  <2>2. list \in [1 .. n -> Q] /\ \A x \in Q : \E k \in 1 .. n : list[k] = x BY <1>11, <1>12, <2>1
  <2>3. ListForReview(questions) = list BY <1>2, <2>1
  <2> QED BY <1>1, <1>11, <2>2, <2>3
<1> QED BY <1>13

\* What comes back is a list again.
LEMMA EditedList ==
  ASSUME NEW S, NEW sheet \in Seq(S), NEW list \in Edits(sheet)
  PROVE  \E T : list \in Seq(T)
<1>1. PICK n \in Nat : n = Len(sheet) /\ sheet \in [1 .. n -> S] /\ DOMAIN sheet = 1 .. n OBVIOUS
<1>2. \/ list = sheet \/ list = Reverse(sheet)
      \/ \E i \in 1 .. n : list = RemoveAt(sheet, i)
      \/ \E i \in 1 .. n : list = InsertAt(sheet, i, sheet[i])
      \/ \E i \in 1 .. n : \E text : list = Answered(sheet, i, text)
      \/ \E i \in 1 .. n : \E text : list = Rephrased(sheet, i, text)
  <2>1. \/ list = sheet \/ list = Reverse(sheet)
        \/ \E i \in DOMAIN sheet : list = RemoveAt(sheet, i)
        \/ \E i \in DOMAIN sheet : list = InsertAt(sheet, i, sheet[i])
        \/ \E i \in DOMAIN sheet : \E text : list = Answered(sheet, i, text)
        \/ \E i \in DOMAIN sheet : \E text : list = Rephrased(sheet, i, text)
    BY SMT DEF Edits
  <2> QED BY <1>1, <2>1, Zenon
<1>3. CASE list = sheet BY <1>3
<1>4. CASE list = Reverse(sheet)
  <2>1. list = [i \in 1 .. n |-> sheet[(n - i) + 1]] BY <1>1, <1>4 DEF Reverse
  <2>2. \A i \in 1 .. n : (n - i) + 1 \in 1 .. n OBVIOUS
  <2>3. list \in [1 .. n -> S] BY <1>1, <2>1, <2>2
  <2> QED BY <2>3
<1>5. CASE \E i \in 1 .. n : list = RemoveAt(sheet, i)
  <2>1. PICK i \in 1 .. n : list = SubSeq(sheet, 1, i - 1) \o SubSeq(sheet, i + 1, Len(sheet)) BY <1>5 DEF RemoveAt
  <2>2. PICK a, b : a = SubSeq(sheet, 1, i - 1) /\ b = SubSeq(sheet, i + 1, Len(sheet)) OBVIOUS
  <2>3. a \in Seq(S) /\ b \in Seq(S) BY <1>1, <2>2
  <2>4. a \o b \in Seq(S) BY <2>3
  <2> QED BY <2>1, <2>2, <2>4
<1>6. CASE \E i \in 1 .. n : list = InsertAt(sheet, i, sheet[i])
  <2>1. PICK i \in 1 .. n : list = SubSeq(sheet, 1, i - 1) \o <<sheet[i]>> \o SubSeq(sheet, i, Len(sheet))
    BY <1>6 DEF InsertAt
  <2>2. PICK a, b, c : a = SubSeq(sheet, 1, i - 1) /\ b = <<sheet[i]>> /\ c = SubSeq(sheet, i, Len(sheet))
    OBVIOUS
  <2>3. a \in Seq(S) /\ b \in Seq(S) /\ c \in Seq(S) BY <1>1, <2>2
  <2>4. (a \o b) \in Seq(S) BY <2>3
  <2>5. (a \o b) \o c \in Seq(S) BY <2>3, <2>4
  <2> QED BY <2>1, <2>2, <2>5
<1>7. ASSUME NEW i \in 1 .. n, NEW new, list = [sheet EXCEPT ![i] = new] PROVE \E T : list \in Seq(T)
  <2>1. \A k \in 1 .. n : list[k] \in S \cup {new} BY <1>1, <1>7
  <2>2. list \in [1 .. n -> S \cup {new}] BY <1>1, <1>7, <2>1
  <2>3. list \in Seq(S \cup {new}) BY <2>2
  <2> QED BY <2>3
<1>8. CASE \E i \in 1 .. n : \E text : list = Answered(sheet, i, text)
  <2>1. PICK i \in 1 .. n : \E text : list = Answered(sheet, i, text) BY <1>8
  <2>2. PICK text : list = [sheet EXCEPT ![i].values.answer = text] BY <2>1 DEF Answered
  <2>3. PICK new : new = [sheet[i] EXCEPT !.values.answer = text] OBVIOUS
  <2>4. list = [sheet EXCEPT ![i] = new] BY <2>2, <2>3
  <2> QED BY <1>7, <2>4
<1>9. CASE \E i \in 1 .. n : \E text : list = Rephrased(sheet, i, text)
  <2>1. PICK i \in 1 .. n : \E text : list = Rephrased(sheet, i, text) BY <1>9
  <2>2. PICK text : list = [sheet EXCEPT ![i].values.question = text] BY <2>1 DEF Rephrased
  <2>3. PICK new : new = [sheet[i] EXCEPT !.values.question = text] OBVIOUS
  <2>4. list = [sheet EXCEPT ![i] = new] BY <2>2, <2>3
  <2> QED BY <1>7, <2>4
<1> QED BY <1>2, <1>3, <1>4, <1>5, <1>6, <1>8, <1>9

\* The file's questions.
Returning(book) == QuestionRows(PreviewGrid(ReadGrid(book)).rows)

\* The questions of a returned file go down it.
LEMMA ReturningAre ==
  ASSUME NEW book, Readable(book)
  PROVE  \E n \in Nat : AreAsked(Returning(book), n)
<1>1. PICK grid, h, p : grid = ReadGrid(book) /\ h = DetectHeaderRow(grid.rows) /\ p = PreviewGrid(grid) OBVIOUS
<1>2. IsGrid(grid.rows) BY <1>1, GridsRead DEF Readable
<1>3. h \in Nat BY <1>1, <1>2, HeaderRow
<1>4. FoundOrNone(p.rows, p.sections, grid.rows, h) BY <1>1, GuessFound DEF PreviewGrid
<1>5. CASE p.rows = <<>>
  <2>1. QuestionRows(<<>>) = <<>>
    <3>1. PICK P : P = {i \in DOMAIN <<>> : <<>>[i].kind = "question"} OBVIOUS
    <3>2. P = {} /\ <<>> \in Seq({}) BY <3>1
    <3>3. P \in SUBSET DOMAIN <<>> /\ Cardinality(P) = 0 BY <3>2, FS_EmptySet
    <3>4. Sublist(<<>>, P) \in Seq({}) /\ Len(Sublist(<<>>, P)) = 0 BY <3>2, <3>3, SublistPlaces
    <3> QED BY <3>1, <3>4 DEF QuestionRows
  <2>2. AreAsked(<<>>, 0) BY DEF AreAsked
  <2> QED BY <1>1, <1>5, <2>1, <2>2 DEF Returning
<1>6. CASE p.rows # <<>>
  <2>1. PICK bound : p.rows = DetectSections(grid.rows, h, bound).rows BY <1>4, <1>6 DEF FoundOrNone
  <2>2. PICK d : d = DetectSections(grid.rows, h, bound) OBVIOUS
  <2>3. \E n \in Nat : AreAsked(QuestionRows(d.rows), n) BY <1>2, <1>3, <2>2, AskedAre
  <2> QED BY <1>1, <2>1, <2>2, <2>3 DEF Returning
<1> QED BY <1>5, <1>6

\* r is the page for the file's n questions, matched one after another as f tells.
Shows(r, f, list, asked, n) ==
  /\ Matched(f, list, asked, n)
  /\ r = [rows |-> ChangesFirst(f[n].rows), unmatched |-> f[n].unmatched]

\* The page of revisions is the matching of every row of the returned file.
LEMMA RevisionsShown ==
  ASSUME NEW list, NEW book, Readable(book), NEW r, r = PreviewAnswerRevisions(list, book),
         NEW asked, asked = Returning(book)
  PROVE  r = NoRevisions \/ \E n \in Nat : \E f : AreAsked(asked, n) /\ Shows(r, f, list, asked, n)
<1>1. PICK n \in Nat : AreAsked(asked, n) BY ReturningAre
<1>2. Len(asked) = n
  <2>1. asked = [k \in 1 .. n |-> asked[k]] BY <1>1 DEF AreAsked
  <2>2. PICK S : S = {asked[k] : k \in 1 .. n} OBVIOUS
  <2>3. \A k \in 1 .. n : asked[k] \in S BY <2>2
  <2>4. asked \in [1 .. n -> S] BY <2>1, <2>3
  <2> QED BY <2>4
<1> DEFINE Body(f) == f = [k \in 0 .. Len(asked) |-> IF k = 0 THEN NoRevisions ELSE Match(list, f[k - 1], asked[k])]
           found == CHOOSE f : Body(f)
<1>3. r = IF ReadGrid(book).rows = <<>> THEN NoRevisions
          ELSE [rows |-> ChangesFirst(found[Len(asked)].rows), unmatched |-> found[Len(asked)].unmatched]
  BY Zenon DEF PreviewAnswerRevisions, Returning
<1>4. \A f : Body(f) <=> Matched(f, list, asked, n) BY <1>2 DEF Matched
<1> HIDE DEF Body, found
<1>5. \E f : Body(f) BY <1>4, MatchedOn
<1>6. Body(found) BY <1>5 DEF found
<1>7. PICK f : f = found OBVIOUS
<1>8. Matched(f, list, asked, n) BY <1>4, <1>6, <1>7
<1>9. r = NoRevisions \/ r = [rows |-> ChangesFirst(f[n].rows), unmatched |-> f[n].unmatched]
  BY <1>2, <1>3, <1>7
<1>10. Shows(r, f, list, asked, n) => \E g : AreAsked(asked, n) /\ Shows(r, g, list, asked, n) BY <1>1
<1> QED BY <1>8, <1>9, <1>10 DEF Shows

\* So its rows pair questions with rows of the file.
LEMMA RevisionsPaired ==
  ASSUME NEW X, NEW list \in Seq(X), NEW asked, NEW n \in Nat, NEW f, NEW r, Shows(r, f, list, asked, n)
  PROVE  Paired(list, asked, r, n)
<1>1. PICK found : found = f[n] OBVIOUS
<1>2. Paired(list, asked, found, n)
  <2>1. Matched(f, list, asked, n) BY DEF Shows
  <2>2. \A k \in 0 .. n : Paired(list, asked, f[k], k) BY <2>1, AllPaired
  <2> QED BY <1>1, <2>2
<1>3. PICK m, from, who, l, gone :
        /\ Pairs(list, asked, found.rows, m, from, who, n) /\ Leaves(asked, found.unmatched, l, gone, n)
        /\ \A x \in 1 .. n : (\E i \in 1 .. m : from[i] = x) \/ (\E j \in 1 .. l : gone[j] = x)
  BY <1>2 DEF Paired
<1>4. PICK rows, all, unmatched : rows = found.rows /\ all = ChangesFirst(rows) /\ unmatched = found.unmatched OBVIOUS
<1>5. r = [rows |-> all, unmatched |-> unmatched] BY <1>1, <1>4 DEF Shows
<1>6. Pairs(list, asked, rows, m, from, who, n) BY <1>3, <1>4
<1>7. PICK g, o : /\ Pairs(list, asked, all, m, g, o, n)
                  /\ \A x : (\E i \in 1 .. m : from[i] = x) <=> (\E i \in 1 .. m : g[i] = x)
  BY <1>4, <1>6, Turned
<1>8. r.rows = all /\ r.unmatched = unmatched /\ r = [rows |-> r.rows, unmatched |-> r.unmatched] BY <1>5
<1>9. \A x \in 1 .. n : (\E i \in 1 .. m : g[i] = x) \/ (\E j \in 1 .. l : gone[j] = x) BY <1>3, <1>7
<1>10. Pairs(list, asked, r.rows, m, g, o, n) /\ Leaves(asked, r.unmatched, l, gone, n)
  BY <1>3, <1>4, <1>7, <1>8
<1> QED BY <1>8, <1>9, <1>10 DEF Paired

-----------------------------------------------------------------------------
\* A row of the page shows the question that has its id.
Offers(row, m, asking) ==
  /\ \E a \in 0 .. m : \E b : row.id = <<a, b>>
  /\ \A q \in asking : q.id = row.id => row.question = q.values.question

\* So does every row.
Offered == \E n \in Nat : /\ returned.rows = [i \in 1 .. n |-> returned.rows[i]]
                          /\ \A i \in 1 .. n : Offers(returned.rows[i], mapped, questions)

\* What a matching offers names the question each row would revise.
LEMMA OfferedBy ==
  ASSUME Rows, AsMapped, Finite, NEW list, list = ListForReview(questions), NEW asked,
         NEW r, NEW k, Paired(list, asked, r, k)
  PROVE  \E n \in Nat : /\ r.rows = [i \in 1 .. n |-> r.rows[i]]
                        /\ \A i \in 1 .. n : Offers(r.rows[i], mapped, questions)
<1>1. PICK n, from, who : Pairs(list, asked, r.rows, n, from, who, k) BY DEF Paired
<1>2. /\ n \in Nat /\ r.rows = [i \in 1 .. n |-> r.rows[i]]
      /\ who \in [1 .. n -> DOMAIN list]
      /\ \A i \in 1 .. n : r.rows[i] = Revision(list[who[i]], asked[from[i]])
  BY <1>1 DEF Pairs
<1>3. \A j \in DOMAIN list : list[j] \in questions BY ListOf
<1>4. PICK m \in 0 .. mapped : \A q \in questions : Asking(q, m) BY DEF AsMapped
<1>5. ASSUME NEW i \in 1 .. n PROVE Offers(r.rows[i], mapped, questions)
  <2>1. PICK q, row : q = list[who[i]] /\ row = r.rows[i] OBVIOUS
  <2>2. q \in questions BY <1>2, <1>3, <2>1
  <2>3. row.id = q.id /\ row.question = q.values.question 
    <3>1. PICK x : row = Revision(q, x) BY <1>2, <2>1
    <3>2. Revision(q, x).id = q.id /\ Revision(q, x).question = q.values.question BY DEF Revision
    <3> QED BY <3>1, <3>2
  <2>4. q.id = <<m, q.position>> BY <1>4, <2>2 DEF Asking
  <2>5. \A p \in questions : p.id = row.id => row.question = p.values.question BY <2>2, <2>3 DEF Rows
  <2> QED BY <2>1, <2>3, <2>4, <2>5 DEF Offers
<1> QED BY <1>2, <1>5

\* The page stays true to the questions when they are rewritten, and when others take
\* their place.
LEMMA StillOffered ==
  ASSUME Offered, AsMapped, UNCHANGED returned,
         \/ mapped' = mapped /\ \A p \in questions' : \E q \in questions : SameQuestion(p, q)
         \/ mapped' = mapped + 1 /\ \A p \in questions' : p.id = <<mapped + 1, p.position>>
  PROVE  Offered'
<1>1. PICK n \in Nat : /\ returned.rows = [i \in 1 .. n |-> returned.rows[i]]
                       /\ \A i \in 1 .. n : Offers(returned.rows[i], mapped, questions)
  BY DEF Offered
<1>2. mapped \in Nat BY DEF AsMapped
<1>3. ASSUME NEW i \in 1 .. n PROVE Offers(returned'.rows[i], mapped', questions')
  <2>1. PICK row : row = returned.rows[i] /\ row = returned'.rows[i] OBVIOUS
  <2>2. Offers(row, mapped, questions) BY <1>1, <2>1
  <2>3. PICK a \in 0 .. mapped : \E b : row.id = <<a, b>> BY <2>2 DEF Offers
  <2>4. PICK b : row.id = <<a, b>> BY <2>3
  <2>5. a \in 0 .. mapped' /\ a # mapped + 1 BY <1>2
  <2>6. ASSUME NEW p \in questions', p.id = row.id PROVE row.question = p.values.question
    <3>1. CASE mapped' = mapped /\ \A x \in questions' : \E q \in questions : SameQuestion(x, q)
      <4>1. PICK q \in questions : SameQuestion(p, q) BY <3>1
      <4>2. q.id = row.id /\ p.values.question = q.values.question BY <2>6, <4>1 DEF SameQuestion
      <4> QED BY <2>2, <4>2 DEF Offers
    <3>2. CASE mapped' = mapped + 1 /\ \A x \in questions' : x.id = <<mapped + 1, x.position>>
      <4>1. p.id = <<mapped + 1, p.position>> BY <3>2
      <4>2. mapped + 1 = a BY <2>4, <2>6, <4>1
      <4> QED BY <2>5, <4>2
    <3> QED BY <3>1, <3>2
  <2>7. \E x \in 0 .. mapped' : \E y : row.id = <<x, y>> BY <2>4, <2>5
  <2>8. Offers(row, mapped', questions') BY <2>6, <2>7 DEF Offers
  <2> QED BY <2>1, <2>8
<1>4. returned'.rows = [i \in 1 .. n |-> returned'.rows[i]] BY <1>1
<1> QED BY <1>3, <1>4 DEF Offered

\* Whatever the step, a row on offer shows the question it would revise.
LEMMA NextOffered == Rows /\ Pages /\ AsMapped /\ Finite /\ Offered /\ [Next]_vars => Offered'
<1> SUFFICES ASSUME Rows, Pages, AsMapped, Finite, Offered, [Next]_vars PROVE Offered' OBVIOUS
<1>1. CASE UNCHANGED <<questions, mapped, returned>>
  <2>1. \A p \in questions' : p \in questions /\ SameQuestion(p, p) BY <1>1 DEF SameQuestion
  <2>2. \A p \in questions' : \E q \in questions : SameQuestion(p, q) BY <2>1
  <2> QED BY <1>1, <2>2, StillOffered
<1>2. ASSUME NEW r, NEW d, d \in DomainSet \/ r = 0, ConfirmMapping(r, d) PROVE Offered'
  <2>1. \A q \in questions' : q.id = <<mapped + 1, q.position>> BY <1>2, IngestAsMapped
  <2>2. mapped' = mapped + 1 /\ UNCHANGED returned BY <1>2, Zenon DEF ConfirmMapping, Ingest
  <2> QED BY <2>1, <2>2, StillOffered
<1>3. CASE MapStep
  <2>1. ConfirmMapping(0, NoDomain) => Offered' BY <1>2
  <2>2. \A i \in DOMAIN Shown, d \in DomainSet : ConfirmMapping(Shown[i].index, d) => Offered' BY <1>2
  <2>3. \A sheet : MappingPage(sheet) => UNCHANGED <<questions, mapped, returned>> BY Zenon DEF MappingPage
  <2>4. \A c, f : RepreviewMapping(c, f) => UNCHANGED <<questions, mapped, returned>>
    BY Zenon DEF RepreviewMapping
  <2> QED BY <1>1, <1>3, <2>1, <2>2, <2>3, <2>4, Zenon DEF MapStep
<1>4. CASE SignOffStep
  <2>1. UNCHANGED <<mapped, returned>> /\ \A p \in questions' : \E q \in questions : Rewords(p, q)
    BY <1>4, SignOffKeeps
  <2>2. \A p \in questions' : \E q \in questions : SameQuestion(p, q) BY <2>1 DEF Rewords
  <2> QED BY <2>1, <2>2, StillOffered
<1>5. ASSUME NEW r, r = returned', \/ r = NoRevisions
                                   \/ /\ UNCHANGED <<questions, mapped>>
                                      /\ \E asked, k : Paired(ListForReview(questions), asked, r, k)
      PROVE  Offered'
  <2>1. CASE r = NoRevisions
    <3>1. r.rows = <<>> BY <2>1 DEF NoRevisions
    <3>2. r.rows = [i \in 1 .. 0 |-> r.rows[i]] BY <3>1
    <3>3. \A i \in 1 .. 0 : Offers(r.rows[i], mapped', questions') OBVIOUS
    <3> QED BY <1>5, <3>2, <3>3 DEF Offered
  <2>2. CASE UNCHANGED <<questions, mapped>> /\ \E asked, k : Paired(ListForReview(questions), asked, r, k)
    <3>1. PICK list, asked, k : list = ListForReview(questions) /\ Paired(list, asked, r, k) BY <2>2
    <3>2. \E n \in Nat : /\ r.rows = [i \in 1 .. n |-> r.rows[i]]
                         /\ \A i \in 1 .. n : Offers(r.rows[i], mapped, questions)
      BY <3>1, OfferedBy
    <3> QED BY <1>5, <2>2, <3>2 DEF Offered
  <2> QED BY <1>5, <2>1, <2>2
<1>6. CASE ReturnStep
  <2>1. Export => UNCHANGED <<questions, mapped, returned>> BY Zenon DEF Export
  <2>2. CASE UploadAnswerRevisions
    <3>1. PICK shown, list : /\ shown = ListForReview(questions) /\ list \in Edits(sent)
                             /\ returned' = PreviewAnswerRevisions(shown, ExportXLSX(list))
                             /\ UNCHANGED <<questions, mapped>>
      BY <2>2, Zenon DEF UploadAnswerRevisions
    <3>2. PICK S : sent \in Seq(S) BY DEF Finite
    <3>3. PICK T : list \in Seq(T) BY <3>1, <3>2, EditedList
    <3>4. PICK book, r, asked : book = ExportXLSX(list) /\ r = returned' /\ asked = Returning(book) OBVIOUS
    <3>5. Readable(book) BY <3>3, <3>4, ReturnedBook
    <3>6. r = PreviewAnswerRevisions(shown, book) BY <3>1, <3>4
    <3>7. r = NoRevisions \/ \E n \in Nat : \E f : AreAsked(asked, n) /\ Shows(r, f, shown, asked, n)
      BY <3>4, <3>5, <3>6, RevisionsShown
    <3>8. ASSUME NEW n \in Nat, NEW f, Shows(r, f, shown, asked, n) PROVE Paired(shown, asked, r, n)
      <4>1. PICK m \in Nat : shown \in [1 .. m -> questions] BY <3>1, ListOf
      <4>2. shown \in Seq(questions) BY <4>1
      <4> QED BY <3>8, <4>2, RevisionsPaired
    <3>9. r = NoRevisions \/ \E a, k : Paired(shown, a, r, k) BY <3>7, <3>8
    <3> QED BY <1>5, <3>1, <3>4, <3>9
  <2>3. Upload => returned' = NoRevisions BY Zenon DEF Upload
  <2>4. \A ids : ApplyAnswerRevisions(ids) => returned' = NoRevisions BY Zenon DEF ApplyAnswerRevisions
  <2> QED BY <1>1, <1>5, <1>6, <2>1, <2>2, <2>3, <2>4, Zenon DEF ReturnStep
<1>7. CASE UNCHANGED vars BY <1>1, <1>7 DEF vars
<1> QED BY <1>3, <1>4, <1>6, <1>7 DEF Next

\* Nothing is on offer at first.
LEMMA InitOffered == Init => Offered
<1> SUFFICES ASSUME Init PROVE Offered OBVIOUS
<1>1. returned.rows = <<>> BY DEF Init, NoRevisions
<1>2. returned.rows = [i \in 1 .. 0 |-> returned.rows[i]] BY <1>1
<1>3. \A i \in 1 .. 0 : Offers(returned.rows[i], mapped, questions) OBVIOUS
<1> QED BY <1>2, <1>3 DEF Offered

\* The page has the question a row is applied to.
LEMMA RowOf ==
  ASSUME Offered, NEW q \in questions, NEW ids \in SUBSET Checked, q.id \in ids
  PROVE  \E row \in ToSet(returned.rows) : row = Row(q.id) /\ row.id = q.id /\ row.question = q.values.question
<1>1. PICK n \in Nat : /\ returned.rows = [i \in 1 .. n |-> returned.rows[i]]
                       /\ \A i \in 1 .. n : Offers(returned.rows[i], mapped, questions)
  BY DEF Offered
<1>2. PICK rows, id : rows = returned.rows /\ id = q.id OBVIOUS
<1>3. DOMAIN rows = 1 .. n
  <2>1. rows = [i \in 1 .. n |-> rows[i]] BY <1>1, <1>2
  <2> QED BY <2>1
<1>4. \E i \in DOMAIN rows : rows[i].id = id BY <1>2, Zenon DEF Checked
<1>5. \E row \in ToSet(rows) : row.id = id BY <1>4 DEF ToSet
<1>6. Row(id) \in ToSet(rows) /\ Row(id).id = id BY <1>2, <1>5, Zenon DEF Row
<1>7. PICK i \in DOMAIN rows : Row(id) = rows[i] BY <1>6 DEF ToSet
<1>8. Offers(rows[i], mapped, questions) BY <1>1, <1>2, <1>3
<1>9. Row(id).question = q.values.question BY <1>2, <1>6, <1>7, <1>8 DEF Offers
<1> QED BY <1>2, <1>6, <1>9

\* An answer changes only to what the page showed beside that question, also when the
\* questionnaire was mapped anew while the page was open.
THEOREM RevisionsLand == Spec => RevisionsLandAsShown
<1> DEFINE Inv  == Rows /\ Pages /\ AsMapped /\ Finite /\ Offered
           Land == \A q \in questions, p \in questions' :
                     p.id = q.id /\ p.values.answer # q.values.answer =>
                       \E row \in ToSet(returned.rows) :
                         row.id = q.id /\ row.question = q.values.question /\ row.answer = p.values.answer
<1>1. Init => Inv BY InitRows, InitPages, InitAsMapped, InitOffered
<1>2. Inv /\ [Next]_vars => Inv' BY NextRows, NextPages, NextAsMapped, NextOffered
<1>3. Inv /\ [Next]_vars => Land
  <2> SUFFICES ASSUME Inv, [Next]_vars, NEW q \in questions, NEW p \in questions',
                      p.id = q.id, p.values.answer # q.values.answer
               PROVE  \E row \in ToSet(returned.rows) :
                        row.id = q.id /\ row.question = q.values.question /\ row.answer = p.values.answer
    OBVIOUS
  <2>1. \A x \in questions : x.id = q.id => x = q BY DEF Rows
  <2>2. ASSUME \A x \in questions' : \E y \in questions : Rewords(x, y) PROVE FALSE
    <3>1. PICK y \in questions : Rewords(p, y) BY <2>2
    <3>2. y.id = q.id /\ p.values = y.values BY <3>1 DEF Rewords, SameQuestion
    <3> QED BY <2>1, <3>2
  <2>3. CASE UNCHANGED questions BY <2>1, <2>3
  <2>4. ASSUME NEW r, NEW d, d \in DomainSet \/ r = 0, ConfirmMapping(r, d) PROVE FALSE
    <3>1. p.id = <<mapped + 1, p.position>> BY <2>4, IngestAsMapped
    <3>2. PICK m \in 0 .. mapped : Asking(q, m) BY DEF AsMapped
    <3>3. q.id = <<m, q.position>> /\ mapped \in Nat BY <3>2 DEF Asking, AsMapped
    <3>4. mapped + 1 = m
      <4>1. PICK k, x, y : k = mapped + 1 /\ x = p.position /\ y = q.position OBVIOUS
      <4>2. p.id = <<k, x>> /\ q.id = <<m, y>> BY <3>1, <3>3, <4>1
      <4>3. <<k, x>> = <<m, y>> BY <4>2
      <4> QED BY <4>1, <4>3
    <3> QED BY <3>3, <3>4
  <2>5. CASE MapStep
    <3>1. \A sheet : MappingPage(sheet) => UNCHANGED questions BY Zenon DEF MappingPage
    <3>2. \A c, f : RepreviewMapping(c, f) => UNCHANGED questions BY Zenon DEF RepreviewMapping
    <3>3. ~ConfirmMapping(0, NoDomain) /\ \A i \in DOMAIN Shown, d \in DomainSet : ~ConfirmMapping(Shown[i].index, d)
      BY <2>4
    <3> QED BY <2>3, <2>5, <3>1, <3>2, <3>3, Zenon DEF MapStep
  <2>6. CASE SignOffStep
    <3>1. \A x \in questions' : \E y \in questions : Rewords(x, y) BY <2>6, SignOffKeeps
    <3> QED BY <2>2, <3>1
  <2>7. CASE ReturnStep
    <3>1. Export => UNCHANGED questions BY Zenon DEF Export
    <3>2. UploadAnswerRevisions => UNCHANGED questions BY Zenon DEF UploadAnswerRevisions
    <3>3. Upload => questions' = {} BY Zenon DEF Upload
    <3>4. ASSUME NEW ids \in SUBSET Checked, ApplyAnswerRevisions(ids)
          PROVE  \E row \in ToSet(returned.rows) :
                   row.id = q.id /\ row.question = q.values.question /\ row.answer = p.values.answer
      <4>1. PICK m : \A x \in questions : Asking(x, m) BY DEF AsMapped
      <4>2. PICK y \in questions : Rewords(p, y) \/ (y.id \in ids /\ Answers(p, y, Row(y.id).answer))
        BY <3>4, <4>1, RevisionKeeps
      <4>3. y = q BY <2>1, <4>2 DEF Rewords, Answers, SameQuestion
      <4>4. ~Rewords(p, q) BY DEF Rewords
      <4>5. q.id \in ids /\ p.values.answer = Row(q.id).answer BY <4>2, <4>3, <4>4 DEF Answers
      <4>6. PICK row \in ToSet(returned.rows) :
              row = Row(q.id) /\ row.id = q.id /\ row.question = q.values.question
        BY <4>5, RowOf
      <4> QED BY <4>5, <4>6
    <3> QED BY <2>3, <2>7, <3>1, <3>2, <3>3, <3>4 DEF ReturnStep
  <2>8. CASE UNCHANGED vars BY <2>3, <2>8 DEF vars
  <2> QED BY <2>5, <2>6, <2>7, <2>8 DEF Next
<1> HIDE DEF Inv
<1>4. [Land]_vars <=> (Land \/ UNCHANGED vars) OBVIOUS
<1>5. Spec => [][Land]_vars
  <2>1. Inv /\ [Next]_vars => [Land]_vars BY <1>3
  <2> QED BY <1>1, <1>2, <2>1, PTL DEF Spec
<1> QED BY <1>5 DEF RevisionsLandAsShown

\* Columns as they are shown for a mapping that reads every field from a column of
\* its own give the same texts when they are posted.
LEMMA PostedAsShown ==
  ASSUME NEW g, IsGrid(g), NEW r, NEW bound, OneFieldEach(bound), NEW p,
         NEW posted, posted = MappingFromForm(SyncCandidates(g, bound), p)
  PROVE  ExtractValues(g, r, posted) = ExtractValues(g, r, bound)
<1>1. PICK X : \E w \in Nat : g \in Seq([1 .. w -> X]) BY DEF IsGrid
<1>2. PICK w \in Nat : g \in Seq([1 .. w -> X]) BY <1>1
<1>3. PICK columns, v : columns = SyncCandidates(g, bound) /\ v = Width(g) OBVIOUS
<1>4. columns = [c \in 1 .. v |-> IF \E f \in DOMAIN bound : bound[f].col = c
                                  THEN CHOOSE f \in DOMAIN bound : bound[f].col = c ELSE Blank]
  BY <1>3 DEF SyncCandidates
<1>5. DOMAIN columns = 1 .. v BY <1>4
<1>6. ASSUME NEW c \in 1 .. v, NEW f \in FieldSet
      PROVE  columns[c] = f <=> f \in DOMAIN bound /\ bound[f].col = c
  <2>1. f # Blank BY FieldsAssumption
  <2>2. CASE \E k \in DOMAIN bound : bound[k].col = c
    <3>1. PICK k : k = CHOOSE x \in DOMAIN bound : bound[x].col = c OBVIOUS
    <3>2. k \in DOMAIN bound /\ bound[k].col = c BY <2>2, <3>1
    <3>3. columns[c] = k BY <1>4, <2>2, <3>1
    <3>4. f \in DOMAIN bound /\ bound[f].col = c => f = k BY <3>2 DEF OneFieldEach
    <3> QED BY <3>2, <3>3, <3>4
  <2>3. CASE ~\E k \in DOMAIN bound : bound[k].col = c
    <3>1. columns[c] = Blank BY <1>4, <2>3
    <3> QED BY <2>1, <2>3, <3>1
  <2> QED BY <2>2, <2>3
<1>7. PICK chosen : chosen = Chosen(columns) OBVIOUS
<1>8. \A c : c \in chosen <=> c \in 1 .. v /\ columns[c] # Blank BY <1>5, <1>7 DEF Chosen
<1>9. /\ DOMAIN posted = {columns[c] : c \in chosen}
      /\ \A f \in DOMAIN posted : posted[f].col = CHOOSE d \in chosen : columns[d] = f
  BY <1>3, <1>7 DEF MappingFromForm
<1>10. ASSUME NEW f \in FieldSet
       PROVE  (IF f \in DOMAIN posted THEN Cell(g, r, posted[f].col) ELSE Blank)
              = (IF f \in DOMAIN bound THEN Cell(g, r, bound[f].col) ELSE Blank)
  <2>1. f # Blank BY FieldsAssumption
  <2>2. CASE f \in DOMAIN posted
    <3>1. PICK d : d = CHOOSE x \in chosen : columns[x] = f OBVIOUS
    <3>2. d \in chosen /\ columns[d] = f BY <1>9, <2>2, <3>1
    <3>3. posted[f].col = d BY <1>9, <2>2, <3>1
    <3>4. f \in DOMAIN bound /\ bound[f].col = d BY <1>6, <1>8, <3>2
    <3> QED BY <2>2, <3>3, <3>4
  <2>3. CASE f \notin DOMAIN posted /\ f \in DOMAIN bound
    <3>1. PICK c : c = bound[f].col OBVIOUS
    <3>2. c \notin 1 .. v
      <4>1. SUFFICES ASSUME c \in 1 .. v PROVE FALSE OBVIOUS
      <4>2. columns[c] = f BY <1>6, <2>3, <3>1, <4>1
      <4>3. c \in chosen BY <1>8, <2>1, <4>1, <4>2
      <4> QED BY <1>9, <2>3, <4>2, <4>3
    <3>3. Cell(g, r, c) = Blank
      <4>1. SUFFICES ASSUME r \in DOMAIN g PROVE c \notin DOMAIN g[r] BY DEF Cell
      <4>2. g # <<>> /\ 1 \in DOMAIN g BY <1>2, <4>1
      <4>3. PICK first, row : first = g[1] /\ row = g[r] OBVIOUS
      <4>4. first \in [1 .. w -> X] /\ row \in [1 .. w -> X] BY <1>2, <4>1, <4>2, <4>3
      <4>5. Len(first) = w BY <4>4
      <4>6. v = w BY <1>3, <4>2, <4>3, <4>5 DEF Width
      <4> QED BY <3>2, <4>3, <4>4, <4>6
    <3> QED BY <2>3, <3>1, <3>3
  <2>4. CASE f \notin DOMAIN posted /\ f \notin DOMAIN bound BY <2>4
  <2> QED BY <2>2, <2>3, <2>4
<1> QED BY <1>10, Zenon DEF ExtractValues

\* The same texts, the same rows.
LEMMA SameTexts ==
  ASSUME NEW g, NEW h, NEW a, NEW b, \A r : ExtractValues(g, r, a) = ExtractValues(g, r, b)
  PROVE  DetectSections(g, h, a) = DetectSections(g, h, b)
<1> DEFINE start == [rows |-> <<>>, sections |-> <<>>, current |-> NoSection]
           Body(f, x) == f = [k \in 0 .. Below(g, h) |->
                                IF k = 0 THEN start
                                ELSE Classify(f[k - 1], h + k, ExtractValues(g, h + k, x), Heading(g[h + k]))]
           found(x) == CHOOSE f : Body(f, x)
<1>1. \A x : DetectSections(g, h, x) = Attribute(found(x)[Below(g, h)].rows, Flush(found(x)[Below(g, h)]))
  BY DEF DetectSections, Below
<1>2. \A f : Body(f, a) <=> Body(f, b) OBVIOUS
<1> HIDE DEF Body
<1>3. found(a) = found(b) BY <1>2
<1> HIDE DEF found
<1> QED BY <1>1, <1>3

\* A guessed mapping's dropdowns, posted unchanged, find the rows that are shown.
LEMMA GuessPosted ==
  ASSUME NEW grid, IsGrid(grid.rows), NEW h, NEW auto, NEW guess, NEW p, p = Guess(grid, h, auto, guess),
         OneFieldEach(p.bound), NEW x, NEW posted, posted = MappingFromForm(p.columns, x)
  PROVE  p.rows = DetectSections(grid.rows, h, posted).rows \/ "question" \notin DOMAIN posted
<1>1. PICK g : g = grid.rows OBVIOUS
<1>2. PICK bound : bound = IF "question" \in DOMAIN auto \/ guess = 0 THEN auto
                           ELSE Bind(auto, "question", guess)
  OBVIOUS
<1>3. PICK found : found = IF "question" \in DOMAIN auto \/ guess # 0 THEN DetectSections(g, h, bound)
                           ELSE [rows |-> <<>>, sections |-> <<>>]
  OBVIOUS
<1>4. PICK columns : columns = IF "question" \in DOMAIN auto \/ guess = 0 THEN SyncCandidates(g, auto)
                               ELSE [SyncCandidates(g, auto) EXCEPT ![guess] = "question"]
  OBVIOUS
<1>5. p = [grid |-> grid, header |-> h, bound |-> bound, columns |-> columns,
           rows |-> found.rows, sections |-> found.sections, ingestable |-> QuestionRows(found.rows) # <<>>]
  BY <1>1, <1>2, <1>3, <1>4, Zenon DEF Guess
<1>6. p.bound = bound /\ p.columns = columns /\ p.rows = found.rows BY <1>5
<1>7. ASSUME columns = SyncCandidates(g, bound), found = DetectSections(g, h, bound)
      PROVE  p.rows = DetectSections(g, h, posted).rows
  <2>1. posted = MappingFromForm(SyncCandidates(g, bound), x) /\ OneFieldEach(bound) /\ IsGrid(g)
    BY <1>1, <1>6, <1>7
  <2>2. \A r : ExtractValues(g, r, posted) = ExtractValues(g, r, bound) BY <2>1, PostedAsShown
  <2>3. DetectSections(g, h, posted) = DetectSections(g, h, bound) BY <2>2, SameTexts
  <2> QED BY <1>6, <1>7, <2>3
<1>8. CASE "question" \in DOMAIN auto BY <1>1, <1>2, <1>3, <1>4, <1>7, <1>8
<1>9. CASE "question" \notin DOMAIN auto /\ guess = 0
  <2>1. columns = [c \in 1 .. Width(g) |-> IF \E f \in DOMAIN auto : auto[f].col = c
                                           THEN CHOOSE f \in DOMAIN auto : auto[f].col = c ELSE Blank]
    BY <1>4, <1>9 DEF SyncCandidates
  <2>2. \A c \in DOMAIN columns : columns[c] \in DOMAIN auto \/ columns[c] = Blank BY <2>1
  <2>3. "question" # Blank BY FieldsAssumption
  <2>4. \A c \in DOMAIN columns : columns[c] # "question" BY <1>9, <2>2, <2>3
  <2>5. DOMAIN posted = {columns[c] : c \in Chosen(columns)} BY <1>6 DEF MappingFromForm
  <2>6. Chosen(columns) \in SUBSET DOMAIN columns BY DEF Chosen
  <2> QED BY <2>4, <2>5, <2>6
<1>10. CASE "question" \notin DOMAIN auto /\ guess # 0
  <2>1. bound = Bind(auto, "question", guess) BY <1>2, <1>10
  <2>2. /\ DOMAIN bound = DOMAIN auto \cup {"question"}
        /\ \A f \in DOMAIN auto : bound[f] = auto[f] /\ f # "question"
        /\ bound["question"].col = guess
    <3>1. PICK new : new = [col |-> guess, manual |-> FALSE] OBVIOUS
    <3>2. bound = [f \in (DOMAIN auto) \cup {"question"} |-> IF f \in DOMAIN auto THEN auto[f] ELSE new]
      BY <2>1, <3>1 DEF Bind
    <3>3. DOMAIN bound = DOMAIN auto \cup {"question"} BY <3>2
    <3>4. \A f \in DOMAIN auto : bound[f] = auto[f] /\ f # "question" BY <1>10, <3>2
    <3>5. bound["question"] = new BY <1>10, <3>2
    <3>6. new.col = guess BY <3>1
    <3> QED BY <3>3, <3>4, <3>5, <3>6
  <2>3. PICK old, v : v = Width(g) /\ old = SyncCandidates(g, auto) OBVIOUS
  <2>4. old = [c \in 1 .. v |-> IF \E f \in DOMAIN auto : auto[f].col = c
                                THEN CHOOSE f \in DOMAIN auto : auto[f].col = c ELSE Blank]
    BY <2>3 DEF SyncCandidates
  <2>5. PICK new : new = [c \in 1 .. v |-> IF \E f \in DOMAIN bound : bound[f].col = c
                                           THEN CHOOSE f \in DOMAIN bound : bound[f].col = c ELSE Blank]
    OBVIOUS
  <2>6. SyncCandidates(g, bound) = new BY <2>3, <2>5 DEF SyncCandidates
  <2>7. \A f, k \in DOMAIN bound : bound[f].col = bound[k].col => f = k BY <1>6 DEF OneFieldEach
  <2>8. ASSUME NEW c \in 1 .. v PROVE new[c] = IF c = guess THEN "question" ELSE old[c]
    <3>1. CASE c = guess
      <4>1. PICK k : k = CHOOSE f \in DOMAIN bound : bound[f].col = c OBVIOUS
      <4>2. \E f \in DOMAIN bound : bound[f].col = c BY <2>2, <3>1
      <4>3. k \in DOMAIN bound /\ bound[k].col = c BY <4>1, <4>2
      <4>4. k = "question" BY <2>2, <2>7, <3>1, <4>3
      <4>5. new[c] = k BY <2>5, <4>1, <4>2
      <4> QED BY <3>1, <4>4, <4>5
    <3>2. CASE c # guess
      <4>1. \A f : f \in DOMAIN bound /\ bound[f].col = c <=> f \in DOMAIN auto /\ auto[f].col = c BY <2>2, <3>2
      <4>2. CASE \E f \in DOMAIN auto : auto[f].col = c
        <5>1. PICK k : k = CHOOSE f \in DOMAIN bound : bound[f].col = c OBVIOUS
        <5>2. PICK l : l = CHOOSE f \in DOMAIN auto : auto[f].col = c OBVIOUS
        <5>3. l \in DOMAIN auto /\ auto[l].col = c BY <4>2, <5>2
        <5>4. k \in DOMAIN bound /\ bound[k].col = c BY <4>1, <4>2, <5>1
        <5>5. k = l BY <2>2, <2>7, <5>3, <5>4
        <5>6. new[c] = k BY <2>5, <4>1, <4>2, <5>1
        <5>7. old[c] = l BY <2>4, <4>2, <5>2
        <5> QED BY <3>2, <5>5, <5>6, <5>7
      <4>3. CASE ~\E f \in DOMAIN auto : auto[f].col = c
        <5>1. ~\E f \in DOMAIN bound : bound[f].col = c BY <4>1, <4>3
        <5>2. new[c] = Blank BY <2>5, <5>1
        <5>3. old[c] = Blank BY <2>4, <4>3
        <5> QED BY <3>2, <5>2, <5>3
      <4> QED BY <4>2, <4>3
    <3> QED BY <3>1, <3>2
  <2>9. columns = [old EXCEPT ![guess] = "question"] BY <1>4, <1>10, <2>3
  <2>10. columns = [c \in 1 .. v |-> IF c = guess THEN "question" ELSE old[c]] BY <2>4, <2>9
  <2>11. columns = new
    <3>1. new = [c \in 1 .. v |-> new[c]] BY <2>5
    <3> QED BY <2>8, <2>10, <3>1
  <2>12. found = DetectSections(g, h, bound) BY <1>3, <1>10
  <2> QED BY <1>1, <1>7, <2>6, <2>11, <2>12
<1> QED BY <1>8, <1>9, <1>10

\* So do those of any preview.
LEMMA PreviewPosted ==
  ASSUME NEW grid, IsGrid(grid.rows), NEW p, p = AsConfirmed(PreviewGrid(grid)), OneFieldEach(p.bound),
         NEW x, NEW posted, posted = MappingFromForm(p.columns, x)
  PROVE  p.rows = DetectSections(grid.rows, p.header, posted).rows \/ "question" \notin DOMAIN posted
<1>1. PICK h, q : h = DetectHeaderRow(grid.rows) /\ q = PreviewGrid(grid) OBVIOUS
<1>2. q = Guess(grid, h, AutoMap(grid.rows, h), FallbackQuestionColumn(grid.rows, h))
  BY <1>1 DEF PreviewGrid
<1>3. IsPreview(q) /\ q.grid = grid /\ q.header = h BY <1>2, GuessFound
<1>4. CASE mapping = None \/ (mapping # None /\ mapping.sheet # q.grid.sheet)
  <2>1. p = q BY <1>1, <1>4 DEF AsConfirmed
  <2>2. q.rows = DetectSections(grid.rows, h, posted).rows \/ "question" \notin DOMAIN posted
    BY <1>2, <2>1, GuessPosted
  <2> QED BY <1>3, <2>1, <2>2
<1>5. CASE ~(mapping = None \/ (mapping # None /\ mapping.sheet # q.grid.sheet))
  <2>1. PICK bound, header : bound = mapping.bound /\ header = mapping.header OBVIOUS
  <2>2. PICK g, found, columns : /\ g = grid.rows /\ found = DetectSections(g, header, bound)
                                 /\ columns = SyncCandidates(g, bound)
    OBVIOUS
  <2>3. p = [q EXCEPT !.header = header, !.bound = bound, !.columns = columns,
                      !.rows = found.rows, !.sections = found.sections]
    BY <1>1, <1>3, <1>5, <2>1, <2>2 DEF AsConfirmed
  <2>5. PICK a : a = [q EXCEPT !.header = header] OBVIOUS
  <2>6. PICK b : b = [a EXCEPT !.bound = bound] OBVIOUS
  <2>7. PICK c : c = [b EXCEPT !.columns = columns] OBVIOUS
  <2>8. PICK d : d = [c EXCEPT !.rows = found.rows] OBVIOUS
  <2>9. p = [d EXCEPT !.sections = found.sections] BY <2>3, <2>5, <2>6, <2>7, <2>8
  <2>10. a = [grid |-> grid, header |-> header, bound |-> q.bound, columns |-> q.columns, rows |-> q.rows,
              sections |-> q.sections, ingestable |-> q.ingestable]
    BY <1>3, <2>5 DEF IsPreview
  <2>11. b = [grid |-> grid, header |-> header, bound |-> bound, columns |-> q.columns, rows |-> q.rows,
              sections |-> q.sections, ingestable |-> q.ingestable]
    BY <2>6, <2>10
  <2>12. c = [grid |-> grid, header |-> header, bound |-> bound, columns |-> columns, rows |-> q.rows,
              sections |-> q.sections, ingestable |-> q.ingestable]
    BY <2>7, <2>11
  <2>13. d = [grid |-> grid, header |-> header, bound |-> bound, columns |-> columns, rows |-> found.rows,
              sections |-> q.sections, ingestable |-> q.ingestable]
    BY <2>8, <2>12
  <2>14. p = [grid |-> grid, header |-> header, bound |-> bound, columns |-> columns, rows |-> found.rows,
              sections |-> found.sections, ingestable |-> q.ingestable]
    BY <2>9, <2>13
  <2>15. p.header = header /\ p.rows = found.rows /\ p.columns = columns /\ p.bound = bound BY <2>14
  <2>16. posted = MappingFromForm(SyncCandidates(g, bound), x) /\ OneFieldEach(bound) /\ IsGrid(g)
    BY <2>2, <2>15
  <2>17. \A r : ExtractValues(g, r, posted) = ExtractValues(g, r, bound) BY <2>16, PostedAsShown
  <2>18. DetectSections(g, header, posted) = DetectSections(g, header, bound) BY <2>17, SameTexts
  <2> QED BY <2>2, <2>15, <2>18
<1> QED BY <1>4, <1>5

\* The rows on the page are those that its dropdowns, posted now, would give; but for a
\* mapping that cannot be confirmed, or reads two fields from one column.
Drawn(columns, rows, header, p) ==
  \/ rows = DetectSections(p.grid.rows, header, MappingFromForm(columns, p)).rows
  \/ "question" \notin DOMAIN MappingFromForm(columns, p)
  \/ columns = p.columns /\ ~OneFieldEach(p.bound)

\* So they are as long as no dropdown was changed since the page was drawn.
Synced == page.open /\ page.synced => Drawn(page.columns, page.rows, page.header, Preview(page.sheet))

\* The preview of the worksheet the page shows.
LEMMA PreviewAgain ==
  ASSUME Pages, page.open, NEW p, p = Preview(page.sheet)
  PROVE  /\ p = AsConfirmed(PreviewGrid(GridFor(page.sheet))) /\ p.grid = GridFor(page.sheet)
         /\ IsGrid(GridFor(page.sheet).rows)
<1>1. PICK grid : grid = GridFor(page.sheet) OBVIOUS
<1>2. p = AsConfirmed(PreviewGrid(GridFor(IF page.sheet = Blank THEN upload.sheet ELSE page.sheet)))
  BY DEF Preview
<1>3. GridFor(IF page.sheet = Blank THEN upload.sheet ELSE page.sheet) = grid
  <2>1. CASE page.sheet = Blank
    <3>1. upload.book.csv BY <2>1 DEF Pages, PageShows
    <3> QED BY <1>1, <2>1, <3>1 DEF GridFor
  <2>2. CASE page.sheet # Blank BY <1>1, <2>2
  <2> QED BY <2>1, <2>2
<1>4. IsGrid(grid.rows) BY <1>1, GridsFor DEF Pages
<1>5. p = AsConfirmed(PreviewGrid(grid)) BY <1>2, <1>3
<1>6. p.grid = grid BY <1>4, <1>5, PreviewFound DEF Pages
<1> QED BY <1>1, <1>4, <1>5, <1>6

\* A page just opened shows what its dropdowns would give.
LEMMA OpenedSynced ==
  ASSUME Pages, NEW sheet, MappingPage(sheet)
  PROVE  Synced'
<1>1. PICK grid : grid = GridFor(IF sheet = Blank THEN upload.sheet ELSE sheet) OBVIOUS
<1>2. UNCHANGED <<upload, mapping>> BY DEF MappingPage
<1>3. CASE grid.rows = <<>>
  <2>1. page' = NoPage BY <1>1, <1>3 DEF MappingPage
  <2> QED BY <2>1, NoPageIs DEF Synced
<1>4. CASE grid.rows # <<>>
  <2>1. PICK p : p = AsConfirmed(PreviewGrid(grid)) OBVIOUS
  <2>2. page' = PageOf(p) BY <1>1, <1>4, <2>1 DEF MappingPage, Preview
  <2>3. Readable(upload.book) /\ MappedBelow BY DEF Pages
  <2>4. IsGrid(grid.rows) BY <1>1, <2>3, GridsFor
  <2>5. p.grid = grid BY <2>1, <2>3, <2>4, PreviewFound
  <2>6. /\ page'.open /\ page'.sheet = grid.sheet /\ page'.header = p.header /\ page'.rows = p.rows
        /\ page'.columns = p.columns
    BY <2>2, <2>5 DEF PageOf
  <2>8. PICK x : x = Preview(page.sheet)' OBVIOUS
  <2>9. x = p
    <3>1. PICK s : s = grid.sheet /\ s = page'.sheet BY <2>6
    <3>2. Preview(page.sheet)' = Preview(s)' BY <3>1
    <3>3. Preview(s)' = Preview(s) BY <1>2 DEF Preview, AsConfirmed, GridFor
    <3>4. GridFor(s) = grid /\ (s = Blank => upload.book.csv) BY <1>1, <1>4, <2>3, <3>1, GridAgain
    <3>5. GridFor(IF s = Blank THEN upload.sheet ELSE s) = grid BY <3>4 DEF GridFor
    <3>6. Preview(s) = AsConfirmed(PreviewGrid(grid)) BY <3>5 DEF Preview
    <3> QED BY <2>1, <2>8, <3>2, <3>3, <3>6
  <2>10. PICK posted : posted = MappingFromForm(p.columns, p) OBVIOUS
  <2>11. OneFieldEach(p.bound) => p.rows = DetectSections(grid.rows, p.header, posted).rows
                                  \/ "question" \notin DOMAIN posted
    BY <2>1, <2>4, <2>10, PreviewPosted
  <2>12. Drawn(p.columns, p.rows, p.header, p) BY <2>5, <2>10, <2>11 DEF Drawn
  <2> QED BY <2>6, <2>8, <2>9, <2>12 DEF Synced
<1> QED BY <1>3, <1>4

\* So does a page just drawn again.
LEMMA RedrawnSynced ==
  ASSUME Pages, NEW c, NEW f, RepreviewMapping(c, f)
  PROVE  Synced'
<1>1. PICK columns, p : columns = [page.columns EXCEPT ![c] = f] /\ p = Preview(page.sheet) OBVIOUS
<1>2. /\ page.open /\ UNCHANGED <<upload, mapping>>
      /\ page' = IF NoFieldTwice(columns) THEN Redrawn(columns, p)
                 ELSE [page EXCEPT !.columns = columns, !.synced = FALSE]
  BY <1>1 DEF RepreviewMapping
<1>3. IsPage(page) BY DEF Pages
<1>4. CASE ~NoFieldTwice(columns)
  <2>1. page'.synced = FALSE
    <3>1. page' = [page EXCEPT !.columns = columns, !.synced = FALSE] BY <1>2, <1>4
    <3> QED BY <1>3, <3>1 DEF IsPage
  <2> QED BY <2>1 DEF Synced
<1>5. CASE NoFieldTwice(columns)
  <2>1. PICK found : found = DetectSections(p.grid.rows, page.header, MappingFromForm(columns, p)) OBVIOUS
  <2>2. page' = [page EXCEPT !.columns = columns, !.rows = found.rows, !.sections = found.sections, !.synced = TRUE]
    BY <1>2, <1>5, <2>1 DEF Redrawn
  <2>3. page'.sheet = page.sheet /\ page'.header = page.header BY <1>3, <2>2 DEF IsPage
  <2>4. page'.columns = columns /\ page'.rows = found.rows BY <1>3, <2>2 DEF IsPage
  <2>5. Preview(page.sheet)' = p
    <3>1. PICK s : s = page.sheet /\ s = page'.sheet BY <2>3
    <3>2. Preview(page.sheet)' = Preview(s)' BY <3>1
    <3>3. Preview(s)' = Preview(s) BY <1>2 DEF Preview, AsConfirmed, GridFor
    <3> QED BY <1>1, <3>1, <3>2, <3>3
  <2>6. Drawn(columns, found.rows, page.header, p) BY <2>1 DEF Drawn
  <2> QED BY <2>3, <2>4, <2>5, <2>6 DEF Synced
<1> QED BY <1>4, <1>5

\* Whatever the step, a page in step with its dropdowns shows what they would give.
LEMMA NextSynced == Pages /\ Synced /\ [Next]_vars => Synced'
<1> SUFFICES ASSUME Pages, Synced, [Next]_vars PROVE Synced' OBVIOUS
<1>1. CASE UNCHANGED <<upload, mapping, page>> BY <1>1 DEF Synced, Preview, AsConfirmed, GridFor
<1>2. CASE page' = NoPage BY <1>2, NoPageIs DEF Synced
<1>3. CASE MapStep
  <2>1. \A r, d : ConfirmMapping(r, d) => page' = NoPage BY Zenon DEF ConfirmMapping, Ingest
  <2> QED BY <1>2, <1>3, <2>1, OpenedSynced, RedrawnSynced, Zenon DEF MapStep
<1>4. CASE SignOffStep
  <2>1. ApplyDraft => UNCHANGED <<upload, mapping, page>> BY Zenon DEF ApplyDraft
  <2>2. \A id, text : Finalize(id, text) => UNCHANGED <<upload, mapping, page>> BY Zenon DEF Finalize
  <2>3. \A id : Unfinalize(id) => UNCHANGED <<upload, mapping, page>> BY Zenon DEF Unfinalize
  <2> QED BY <1>1, <1>4, <2>1, <2>2, <2>3, Zenon DEF SignOffStep
<1>5. CASE ReturnStep
  <2>1. Export => UNCHANGED <<upload, mapping, page>> BY Zenon DEF Export
  <2>2. UploadAnswerRevisions => UNCHANGED <<upload, mapping, page>> BY Zenon DEF UploadAnswerRevisions
  <2>3. \A ids : ApplyAnswerRevisions(ids) => UNCHANGED <<upload, mapping, page>>
    BY Zenon DEF ApplyAnswerRevisions
  <2>4. Upload => page' = NoPage BY Zenon DEF Upload
  <2> QED BY <1>1, <1>2, <1>5, <2>1, <2>2, <2>3, <2>4, Zenon DEF ReturnStep
<1>6. CASE UNCHANGED vars BY <1>1, <1>6 DEF vars
<1> QED BY <1>3, <1>4, <1>5, <1>6 DEF Next

\* No page is open at first.
LEMMA InitSynced == Init => Synced
BY NoPageIs DEF Init, Synced

\* The questions are made of the rows on the page.
LEMMA ConfirmedFromPage ==
  ASSUME Pages, Synced, page.synced, GuessedApart, NEW r, NEW d, ConfirmMapping(r, d),
         NEW asked, asked = QuestionRows(page.rows)
  PROVE  /\ questions' = {NewQuestion(mapped + 1, asked, DomainOverrides(r, d), i) : i \in DOMAIN asked}
         /\ \E n \in Nat : AreAsked(asked, n)
<1>1. PICK p, posted, grid, override :
        /\ p = Preview(page.sheet) /\ posted = MappingFromForm(page.columns, p) /\ grid = GridFor(page.sheet)
        /\ override = DomainOverrides(r, d)
  OBVIOUS
<1>2. Ingest(grid, posted, override) BY <1>1 DEF ConfirmMapping
<1>3. page.open /\ "question" \in DOMAIN posted BY <1>2 DEF Ingest, ValidateColumnMapping
<1>4. p.grid = grid /\ IsGrid(grid.rows) BY <1>1, <1>3, PreviewAgain
<1>5. Drawn(page.columns, page.rows, page.header, p) BY <1>1, <1>3 DEF Synced
<1>6. ~(page.columns = p.columns /\ ~OneFieldEach(p.bound)) BY <1>1 DEF GuessedApart
<1>7. page.rows = DetectSections(grid.rows, page.header, posted).rows BY <1>1, <1>3, <1>4, <1>5, <1>6 DEF Drawn
<1>8. asked = QuestionRows(DetectSections(grid.rows, page.header, posted).rows) BY <1>7
<1>9. questions' = {NewQuestion(mapped + 1, asked, override, i) : i \in DOMAIN asked} BY <1>2, <1>8, Ingesting
<1>10. PICK h, found : h = page.header /\ found = DetectSections(grid.rows, h, posted) OBVIOUS
<1>11. h \in Nat BY <1>10 DEF Pages
<1>12. \E n \in Nat : AreAsked(QuestionRows(found.rows), n) BY <1>4, <1>10, <1>11, AskedAre
<1> QED BY <1>1, <1>8, <1>9, <1>10, <1>12

\* Every row on the page is one of the questions, and posts its domain.
LEMMA PostedDomains ==
  ASSUME Pages, page.open, NEW asked, asked = QuestionRows(page.rows), NEW n \in Nat, AreAsked(asked, n),
         NEW r, NEW d, r = 0 \/ \E k \in DOMAIN Shown : r = Shown[k].index,
         NEW i \in 1 .. n
  PROVE  DomainFor(asked, DomainOverrides(r, d), i) = IF asked[i].index = r THEN d ELSE asked[i].domain
<1>1. PICK rows, h : rows = page.rows /\ h = page.header OBVIOUS
<1>2. h \in Nat BY <1>1 DEF Pages
<1>3. \E len \in Nat : AreRows(rows, h, len)
  <2>1. PICK grid : grid = GridFor(page.sheet) OBVIOUS
  <2>2. IsGrid(grid.rows) BY <2>1, GridsFor DEF Pages
  <2>3. CASE rows = <<>>
    <3>1. AreRows(<<>>, h, 0) BY DEF AreRows
    <3> QED BY <2>3, <3>1
  <2>4. CASE rows # <<>>
    <3>1. PICK bound : rows = DetectSections(grid.rows, h, bound).rows
      BY <1>1, <2>1, <2>4 DEF Pages, PageShows, FoundOrNone
    <3>2. PICK det : det = DetectSections(grid.rows, h, bound) OBVIOUS
    <3>3. \E len \in Nat : AreRows(det.rows, h, len) BY <1>2, <2>2, <3>2, RowsFound
    <3> QED BY <3>1, <3>2, <3>3
  <2> QED BY <2>3, <2>4
<1>4. PICK len \in Nat : AreRows(rows, h, len) BY <1>3
<1>5. DOMAIN rows = 1 .. len
  <2>1. rows = [j \in 1 .. len |-> rows[j]] BY <1>4 DEF AreRows
  <2> QED BY <2>1
<1>6. PICK P, Q : /\ P = {j \in DOMAIN rows : j <= PreviewRowLimit /\ rows[j].kind = "question"}
                  /\ Q = {j \in DOMAIN rows : rows[j].kind = "question"}
  OBVIOUS
<1>7. PICK shown : shown = Sublist(rows, P) OBVIOUS
<1>8. shown = Shown /\ asked = Sublist(rows, Q) BY <1>1, <1>6, <1>7 DEF Shown, QuestionRows
<1>9. P \in SUBSET {j \in 1 .. len : rows[j].kind = "question"} /\ P \in SUBSET Q
      /\ Q \in SUBSET {j \in 1 .. len : rows[j].kind = "question"}
  BY <1>5, <1>6
<1>10. PICK m, at : m \in Nat /\ AreAsked(shown, m) /\ GoesThrough(at, m, P)
                    /\ \A k \in 1 .. m : shown[k] = rows[at[k]]
  <2>1. \E x \in Nat : /\ AreAsked(Sublist(rows, P), x) /\ x = Cardinality(P)
                       /\ \E t : GoesThrough(t, x, P) /\ \A k \in 1 .. x : Sublist(rows, P)[k] = rows[t[k]]
    BY <1>2, <1>4, <1>9, SomeAsked
  <2> QED BY <1>7, <2>1
<1>11. PICK l, to : l \in Nat /\ AreAsked(asked, l) /\ GoesThrough(to, l, Q)
                    /\ \A k \in 1 .. l : asked[k] = rows[to[k]]
  <2>1. \E x \in Nat : /\ AreAsked(Sublist(rows, Q), x) /\ x = Cardinality(Q)
                       /\ \E t : GoesThrough(t, x, Q) /\ \A k \in 1 .. x : Sublist(rows, Q)[k] = rows[t[k]]
    BY <1>2, <1>4, <1>9, SomeAsked
  <2> QED BY <1>8, <2>1
<1>12. DOMAIN shown = 1 .. m /\ DOMAIN asked = 1 .. n /\ DOMAIN asked = 1 .. l
  <2>1. /\ shown = [k \in 1 .. m |-> shown[k]] /\ asked = [k \in 1 .. n |-> asked[k]]
        /\ asked = [k \in 1 .. l |-> asked[k]]
    BY <1>10, <1>11 DEF AreAsked
  <2> QED BY <2>1
<1>13. \A k \in 1 .. m : \E j \in 1 .. n : shown[k] = asked[j]
  <2> TAKE k \in 1 .. m
  <2>1. at[k] \in Q BY <1>9, <1>10 DEF GoesThrough
  <2>2. PICK j \in 1 .. l : to[j] = at[k] BY <1>11, <2>1 DEF GoesThrough
  <2> QED BY <1>10, <1>11, <1>12, <2>2
<1>14. \A j \in 1 .. n : asked[j].index \in Nat \ {0} BY DEF AreAsked
<1>15. ASSUME NEW j \in 1 .. n, NEW k \in 1 .. n, asked[j].index = asked[k].index PROVE j = k
  <2>1. j < k <=> asked[j].index < asked[k].index BY DEF AreAsked
  <2>2. k < j <=> asked[k].index < asked[j].index BY DEF AreAsked
  <2>3. asked[j].index \in Nat /\ asked[k].index \in Nat BY <1>14
  <2> QED BY <1>15, <2>1, <2>2, <2>3
<1>16. PICK override : override = DomainOverrides(r, d) OBVIOUS
<1>17. override = [x \in {shown[k].index : k \in DOMAIN shown} |->
                     IF x = r THEN d ELSE (CHOOSE row \in ToSet(shown) : row.index = x).domain]
  BY <1>8, <1>16 DEF DomainOverrides
<1>18. PICK x : x = asked[i].index OBVIOUS
<1>19. DomainFor(asked, override, i) = IF x \in DOMAIN override THEN override[x] ELSE asked[i].domain
  BY <1>18 DEF DomainFor
<1>20. CASE x \in DOMAIN override
  <2>1. PICK k \in 1 .. m : shown[k].index = x BY <1>12, <1>17, <1>20
  <2>2. shown[k] \in ToSet(shown) BY <1>12 DEF ToSet
  <2>3. PICK row : row = CHOOSE y \in ToSet(shown) : y.index = x OBVIOUS
  <2>4. row \in ToSet(shown) /\ row.index = x BY <2>1, <2>2, <2>3
  <2>5. PICK k2 \in 1 .. m : row = shown[k2] BY <1>12, <2>4 DEF ToSet
  <2>6. PICK j \in 1 .. n : row = asked[j] BY <1>13, <2>5
  <2>7. j = i BY <1>15, <1>18, <2>4, <2>6
  <2>8. override[x] = IF x = r THEN d ELSE row.domain BY <1>17, <1>20, <2>3
  <2> QED BY <1>16, <1>18, <1>19, <1>20, <2>6, <2>7, <2>8
<1>21. CASE x \notin DOMAIN override
  <2>1. x # r
    <3>1. x # 0 BY <1>14, <1>18
    <3>2. \A k \in DOMAIN shown : shown[k].index \in DOMAIN override BY <1>17
    <3> QED BY <1>8, <1>21, <3>1, <3>2
  <2> QED BY <1>16, <1>18, <1>19, <1>21, <2>1
<1> QED BY <1>20, <1>21

\* What is ingested is what the page showed when the button was pressed: the same rows
\* in the same order with the same texts, and their domains but for the corrected one.
THEOREM IngestedAsShown == Spec => ConfirmedAsShown
<1> DEFINE Inv == Rows /\ Pages /\ AsMapped /\ Finite /\ Synced
           AsShown == mapped' # mapped /\ page.synced /\ GuessedApart =>
             LET asked == QuestionRows(page.rows)
                 at(i)   == {q \in questions' : q.position = i}
             IN  /\ {q.position : q \in questions'} = DOMAIN asked
                 /\ \A i \in DOMAIN asked :
                      /\ Cardinality(at(i)) = 1
                      /\ \A q \in at(i) : q.row = asked[i].index /\ q.values = asked[i].values
                 /\ \A r \in {0} \cup {Shown[i].index : i \in DOMAIN Shown}, d \in DomainSet :
                      ConfirmMapping(r, d) =>
                        \A i \in DOMAIN asked : \A q \in at(i) :
                          q.domain = IF q.row = r THEN d ELSE asked[i].domain
<1>1. Init => Inv BY InitRows, InitPages, InitAsMapped, InitSynced
<1>2. Inv /\ [Next]_vars => Inv' BY NextRows, NextPages, NextAsMapped, NextSynced
<1>3. Inv /\ [Next]_vars => AsShown
  <2> SUFFICES ASSUME Inv, [Next]_vars, mapped' # mapped, page.synced, GuessedApart PROVE AsShown OBVIOUS
  <2>1. PICK asked : asked = QuestionRows(page.rows) OBVIOUS
  <2> DEFINE at(i) == {q \in questions' : q.position = i}
  <2>2. \E r, d : ConfirmMapping(r, d)
    <3>1. CASE MapStep
      <4>1. \A sheet : MappingPage(sheet) => mapped' = mapped BY Zenon DEF MappingPage
      <4>2. \A c, f : RepreviewMapping(c, f) => mapped' = mapped BY Zenon DEF RepreviewMapping
      <4> QED BY <3>1, <4>1, <4>2, Zenon DEF MapStep
    <3>2. SignOffStep => mapped' = mapped BY SignOffKeeps
    <3>3. CASE ReturnStep
      <4>1. Export => mapped' = mapped BY Zenon DEF Export
      <4>2. UploadAnswerRevisions => mapped' = mapped BY Zenon DEF UploadAnswerRevisions
      <4>3. Upload => mapped' = mapped BY Zenon DEF Upload
      <4>4. \A ids : ApplyAnswerRevisions(ids) => mapped' = mapped BY Zenon DEF ApplyAnswerRevisions
      <4> QED BY <3>3, <4>1, <4>2, <4>3, <4>4, Zenon DEF ReturnStep
    <3> QED BY <3>1, <3>2, <3>3 DEF Next, vars
  <2>3. ASSUME NEW r, NEW d, ConfirmMapping(r, d), r = 0 \/ \E k \in DOMAIN Shown : r = Shown[k].index,
               NEW i \in DOMAIN asked, NEW q \in at(i)
        PROVE  q.domain = IF q.row = r THEN d ELSE asked[i].domain
    <3>1. /\ questions' = {NewQuestion(mapped + 1, asked, DomainOverrides(r, d), j) : j \in DOMAIN asked}
          /\ \E n \in Nat : AreAsked(asked, n)
      BY <2>1, <2>3, ConfirmedFromPage
    <3>2. PICK n \in Nat : AreAsked(asked, n) BY <3>1
    <3>3. page.open BY <2>3, Zenon DEF ConfirmMapping, Ingest
    <3>4. i \in 1 .. n
      <4>1. asked = [k \in 1 .. n |-> asked[k]] BY <3>2 DEF AreAsked
      <4> QED BY <4>1
    <3>5. DomainFor(asked, DomainOverrides(r, d), i) = IF asked[i].index = r THEN d ELSE asked[i].domain
      BY <2>1, <2>3, <3>2, <3>3, <3>4, PostedDomains
    <3>6. PICK j \in DOMAIN asked : q = NewQuestion(mapped + 1, asked, DomainOverrides(r, d), j) BY <3>1
    <3>7. q.position = j /\ q.row = asked[j].index /\ q.domain = DomainFor(asked, DomainOverrides(r, d), j)
      BY <3>6 DEF NewQuestion
    <3> QED BY <3>5, <3>7
  <2>4. PICK r, d : ConfirmMapping(r, d) BY <2>2
  <2>5. PICK override : override = DomainOverrides(r, d) OBVIOUS
  <2>6. questions' = {NewQuestion(mapped + 1, asked, override, i) : i \in DOMAIN asked}
    BY <2>1, <2>4, <2>5, ConfirmedFromPage
  <2>7. \A i : /\ NewQuestion(mapped + 1, asked, override, i).position = i
               /\ NewQuestion(mapped + 1, asked, override, i).row = asked[i].index
               /\ NewQuestion(mapped + 1, asked, override, i).values = asked[i].values
    BY DEF NewQuestion
  <2>8. {q.position : q \in questions'} = DOMAIN asked BY <2>6, <2>7
  <2>9. ASSUME NEW i \in DOMAIN asked
        PROVE  /\ Cardinality(at(i)) = 1
               /\ \A q \in at(i) : q.row = asked[i].index /\ q.values = asked[i].values
    <3>1. PICK new : new = NewQuestion(mapped + 1, asked, override, i) OBVIOUS
    <3>2. at(i) = {new} BY <2>6, <2>7, <3>1
    <3>3. Cardinality({new}) = 1 BY FS_Singleton
    <3> QED BY <2>7, <3>1, <3>2, <3>3
  <2>10. ASSUME NEW x \in {0} \cup {Shown[i].index : i \in DOMAIN Shown}, NEW y \in DomainSet, ConfirmMapping(x, y)
         PROVE  \A i \in DOMAIN asked : \A q \in at(i) : q.domain = IF q.row = x THEN y ELSE asked[i].domain
    <3>1. x = 0 \/ \E k \in DOMAIN Shown : x = Shown[k].index OBVIOUS
    <3> QED BY <2>3, <2>10, <3>1
  <2> HIDE DEF at
  <2>11. /\ {q.position : q \in questions'} = DOMAIN asked
         /\ \A i \in DOMAIN asked : /\ Cardinality(at(i)) = 1
                                    /\ \A q \in at(i) : q.row = asked[i].index /\ q.values = asked[i].values
         /\ \A x \in {0} \cup {Shown[i].index : i \in DOMAIN Shown}, y \in DomainSet :
              ConfirmMapping(x, y) =>
                \A i \in DOMAIN asked : \A q \in at(i) : q.domain = IF q.row = x THEN y ELSE asked[i].domain
    BY <2>8, <2>9, <2>10
  <2> QED BY <2>1, <2>11 DEF at
<1> HIDE DEF Inv
<1>4. Inv /\ [Next]_vars => [AsShown]_vars BY <1>3
<1> QED BY <1>1, <1>2, <1>4, PTL DEF Spec, ConfirmedAsShown

(***************************************************************************)
(* What is written: every cell, answer and draft is a text.                *)
(***************************************************************************)
TextGrid(g)    == \A r \in DOMAIN g : \A c \in DOMAIN g[r] : g[r][c] \in Texts
TextBook(book) == \A i \in DOMAIN book.sheets : TextGrid(book.sheets[i].rows)

\* The texts of a question, which asks something.
TextValues(v) == v \in [FieldSet -> Texts] /\ v.question # Blank

\* A question whose texts are such.
TextQuestion(q) == IsRow(q) /\ TextValues(q.values) /\ q.draft \in Texts /\ q.final \in Texts /\ q.domain \in DomainSet

\* Outside its rows a grid is blank.
LEMMA CellText ==
  ASSUME NEW g, TextGrid(g), NEW r, NEW c
  PROVE  Cell(g, r, c) \in Texts
BY LikeAssumption DEF Cell, TextGrid

\* Padding adds blanks.
LEMMA NormalText ==
  ASSUME NEW rows, TextGrid(rows)
  PROVE  TextGrid(NormalizeRows(rows))
<1> DEFINE w == Max({0} \cup {Len(rows[r]) : r \in DOMAIN rows})
           n == Max({0} \cup {r \in DOMAIN rows : ~IsBlankRow(rows[r])})
<1>1. NormalizeRows(rows) = [r \in 1 .. n |-> [c \in 1 .. w |-> Cell(rows, r, c)]] BY DEF NormalizeRows
<1> HIDE DEF w, n
<1>2. \A r, c : Cell(rows, r, c) \in Texts BY CellText
<1> QED BY <1>1, <1>2 DEF TextGrid

\* A merged region shows one of its cells.
LEMMA MergedText ==
  ASSUME NEW sheet, TextGrid(sheet.rows), NEW g, TextGrid(g)
  PROVE  TextGrid(ExpandMerged(sheet, g))
<1> DEFINE value(m)  == Cell(sheet.rows, m.top, m.left)
           over(r, c) == {m \in sheet.merged : /\ r \in m.top .. m.bottom /\ c \in m.left .. m.right
                                               /\ value(m) # Blank}
           shown(r, c) == IF g[r][c] = Blank /\ over(r, c) # {} THEN value(CHOOSE m \in over(r, c) : TRUE)
                          ELSE g[r][c]
<1>1. ExpandMerged(sheet, g) = [r \in DOMAIN g |-> [c \in DOMAIN g[r] |-> shown(r, c)]] BY Zenon DEF ExpandMerged
<1>2. \A m : value(m) \in Texts BY CellText
<1> HIDE DEF value, over
<1>3. \A r \in DOMAIN g : \A c \in DOMAIN g[r] : shown(r, c) \in Texts BY <1>2 DEF TextGrid
<1> HIDE DEF shown
<1> QED BY <1>1, <1>3 DEF TextGrid

\* So every worksheet reads as texts.
LEMMA TextsRead ==
  ASSUME NEW book, IsBook(book), TextBook(book)
  PROVE  /\ TextGrid(ReadGrid(book).rows)
         /\ \A name : TextGrid(ReadExcelSheet(book, name).rows)
<1>1. PICK n \in Nat : book.sheets = [i \in 1 .. n |-> book.sheets[i]] BY DEF IsBook
<1>2. \A i \in 1 .. n : TextGrid(book.sheets[i].rows) BY <1>1 DEF TextBook
<1>3. ASSUME NEW i \in 1 .. n PROVE TextGrid(GridOf(book.sheets[i]).rows)
  <2>1. TextGrid(NormalizeRows(book.sheets[i].rows)) BY <1>2, NormalText
  <2>2. TextGrid(ExpandMerged(book.sheets[i], NormalizeRows(book.sheets[i].rows))) BY <1>2, <2>1, MergedText
  <2> QED BY <2>2 DEF GridOf
<1>4. TextGrid(NoGrid.rows) BY DEF NoGrid, TextGrid
<1>5. ASSUME NEW S \in SUBSET (1 .. n), S # {} PROVE Min(S) \in 1 .. n
  <2>1. S \in SUBSET Nat OBVIOUS
  <2>2. Min(S) \in S BY <1>5, <2>1, MinIs
  <2> QED BY <2>2
<1>6. TextGrid(ReadCSV(book).rows)
  <2>1. CASE book.sheets = <<>> BY <1>4, <2>1 DEF ReadCSV
  <2>2. CASE book.sheets # <<>>
    <3>1. n # 0 BY <1>1, <2>2
    <3>2. ReadCSV(book).rows = NormalizeRows(book.sheets[1].rows) BY <2>2 DEF ReadCSV
    <3>3. 1 \in 1 .. n BY <3>1
    <3> QED BY <1>2, <3>2, <3>3, NormalText
  <2> QED BY <2>1, <2>2
<1>7. ASSUME NEW name PROVE TextGrid(ReadExcelSheet(book, name).rows)
  <2> DEFINE named == {i \in DOMAIN book.sheets : book.sheets[i].name = name}
  <2>1. named \in SUBSET (1 .. n) BY <1>1
  <2>2. ReadExcelSheet(book, name) = IF named = {} THEN NoGrid ELSE GridOf(book.sheets[Min(named)])
    BY DEF ReadExcelSheet
  <2> HIDE DEF named
  <2> QED BY <1>3, <1>4, <1>5, <2>1, <2>2
<1>8. TextGrid(ReadExcel(book).rows)
  <2> DEFINE fill(i) == CountFilled(book.sheets[i].rows)
             fullest == {i \in DOMAIN book.sheets :
                           fill(i) > 0 /\ \A j \in DOMAIN book.sheets : fill(j) <= fill(i)}
  <2>1. fullest \in SUBSET (1 .. n) BY <1>1
  <2>2. ReadExcel(book) = IF fullest = {} THEN NoGrid ELSE GridOf(book.sheets[Min(fullest)])
    BY DEF ReadExcel
  <2> HIDE DEF fullest
  <2> QED BY <1>3, <1>4, <1>5, <2>1, <2>2
<1> QED BY <1>6, <1>7, <1>8 DEF ReadGrid

\* The questions found on a sheet of texts ask something, and say texts.
LEMMA TextsAsked ==
  ASSUME NEW g, IsGrid(g), TextGrid(g), NEW h \in Nat, NEW bound, NEW d, d = DetectSections(g, h, bound)
  PROVE  \A k \in DOMAIN QuestionRows(d.rows) : TextValues(QuestionRows(d.rows)[k].values)
<1>1. PICK head, val, len : head = Heads(g, h) /\ val = Vals(g, h, bound) /\ len = Below(g, h) OBVIOUS
<1>2. PICK secs : Settled(d, secs, h, head, val, len) BY <1>1, SheetSettled
<1>3. len \in Nat BY <1>1, BelowNat
<1>4. PICK rows : rows = d.rows OBVIOUS
<1>5. /\ DOMAIN rows = 1 .. len
      /\ \A i \in 1 .. len : HasDomain(rows[i], h, head, val, i, Home(secs))
  <2>1. rows = [i \in 1 .. len |-> rows[i]] BY <1>2, <1>4 DEF Settled
  <2> QED BY <1>2, <1>4, <2>1 DEF Settled
<1>6. ASSUME NEW i \in 1 .. len, rows[i].kind = "question" PROVE TextValues(rows[i].values)
  <2>1. rows[i].values = val[i] /\ KindAt(head, val, i) = "question" BY <1>5, <1>6 DEF HasDomain
  <2>2. val[i].question # Blank BY <2>1 DEF KindAt
  <2>3. val[i] = ExtractValues(g, h + i, bound) BY <1>1 DEF Vals
  <2>4. \A c : Cell(g, h + i, c) \in Texts BY CellText
  <2>5. ExtractValues(g, h + i, bound) \in [FieldSet -> Texts] BY <2>4, LikeAssumption DEF ExtractValues
  <2> QED BY <2>1, <2>2, <2>3, <2>5 DEF TextValues
<1>7. PICK n \in Nat : AreRows(rows, h, n) BY <1>4, RowsFound
<1>8. DOMAIN rows = 1 .. n
  <2>1. rows = [i \in 1 .. n |-> rows[i]] BY <1>7 DEF AreRows
  <2> QED BY <2>1
<1>9. PICK P : P = {i \in 1 .. n : rows[i].kind = "question"} OBVIOUS
<1>10. QuestionRows(d.rows) = Sublist(rows, P) BY <1>4, <1>8, <1>9 DEF QuestionRows
<1>11. PICK m, at : m \in Nat /\ AreAsked(Sublist(rows, P), m) /\ GoesThrough(at, m, P)
                    /\ \A k \in 1 .. m : Sublist(rows, P)[k] = rows[at[k]]
  <2>1. P \in SUBSET {i \in 1 .. n : rows[i].kind = "question"} BY <1>9
  <2>2. h \in Nat /\ n \in Nat OBVIOUS
  <2>3. \E x \in Nat : /\ AreAsked(Sublist(rows, P), x) /\ x = Cardinality(P)
                       /\ \E t : GoesThrough(t, x, P) /\ \A k \in 1 .. x : Sublist(rows, P)[k] = rows[t[k]]
    BY <1>7, <2>1, <2>2, SomeAsked
  <2> QED BY <2>3
<1>12. PICK asked : asked = Sublist(rows, P) OBVIOUS
<1>13. AreAsked(asked, m) /\ \A k \in 1 .. m : asked[k] = rows[at[k]] BY <1>11, <1>12
<1>15. DOMAIN asked = 1 .. m
  <2>1. asked = [k \in 1 .. m |-> asked[k]] BY <1>13 DEF AreAsked
  <2> QED BY <1>11, <2>1
<1>16. ASSUME NEW k \in 1 .. m PROVE TextValues(asked[k].values)
  <2>1. at[k] \in P BY <1>11 DEF GoesThrough
  <2>2. at[k] \in 1 .. len /\ rows[at[k]].kind = "question" BY <1>5, <1>8, <1>9, <2>1
  <2> QED BY <1>6, <1>13, <2>2
<1> QED BY <1>10, <1>12, <1>15, <1>16

(***************************************************************************)
(* The exported workbook: where each question's line stands.               *)
(***************************************************************************)
Titles         == [c \in DOMAIN Fields |-> Label[Fields[c]]]
Line(q)        == [c \in DOMAIN Fields |-> IF Fields[c] = "feedback" THEN ShownFeedback(q) ELSE q.values[Fields[c]]]
Banner(q)      == <<NameOf[q.domain]>>
Lines(list, i) == IF OpensDomain(list, i) THEN <<Banner(list[i]), Line(list[i])>> ELSE <<Line(list[i])>>
Written(list)  == <<Titles>> \o FlattenSeq([i \in DOMAIN list |-> Lines(list, i)])
Regions(rows)  == {[top |-> r, bottom |-> r, left |-> 1, right |-> Len(Fields)] :
                     r \in {x \in DOMAIN rows : Len(rows[x]) < Len(Fields)}}

LEMMA Workbook1 ==
  ASSUME NEW list, NEW rows, rows = Written(list)
  PROVE  ExportXLSX(list) = [csv |-> FALSE,
           sheets |-> <<[name |-> "Sheet1", rows |-> rows, merged |-> Regions(rows)]>>]
<1>1. PICK regions : regions = Regions(rows) OBVIOUS
<1>2. ExportXLSX(list) = [csv |-> FALSE, sheets |-> <<[name |-> "Sheet1", rows |-> rows, merged |-> regions]>>]
  BY <1>1 DEF ExportXLSX, Written, Lines, Line, Titles, Banner, Regions
<1> QED BY <1>1, <1>2

\* n questions, which say texts and ask something.
TextList(list, n) == list = [i \in 1 .. n |-> list[i]] /\ \A i \in 1 .. n : TextQuestion(list[i])

\* There is a column for every field, and a field for every column.
LEMMA Columns ==
  \E m \in Nat : /\ DOMAIN Fields = 1 .. m /\ Len(Fields) = m /\ m >= 3
                 /\ \A c \in 1 .. m : Fields[c] \in FieldSet
                 /\ \A f \in FieldSet : \E c \in 1 .. m : Fields[c] = f
                 /\ \A c, d \in 1 .. m : Fields[c] = Fields[d] => c = d
<1>1. PICK m \in Nat : m = Len(Fields) /\ DOMAIN Fields = 1 .. m BY FieldsAssumption
<1>2. \A c \in 1 .. m : Fields[c] \in FieldSet BY <1>1 DEF FieldSet
<1>3. \A f \in FieldSet : \E c \in 1 .. m : Fields[c] = f BY <1>1 DEF FieldSet
<1>4. \A c, d \in 1 .. m : Fields[c] = Fields[d] => c = d BY <1>1, FieldsAssumption
<1>5. m >= 3
  <2>1. "question" \in FieldSet /\ "answer" \in FieldSet /\ "feedback" \in FieldSet BY FieldsAssumption
  <2>2. PICK a \in 1 .. m : Fields[a] = "question" BY <1>3, <2>1
  <2>3. PICK b \in 1 .. m : Fields[b] = "answer" BY <1>3, <2>1
  <2>4. PICK c \in 1 .. m : Fields[c] = "feedback" BY <1>3, <2>1
  <2>5. a # b /\ b # c /\ a # c BY <2>2, <2>3, <2>4
  <2> QED BY <2>5
<1> QED BY <1>1, <1>2, <1>3, <1>4, <1>5

\* A question is written as texts, a column for each field.
LEMMA LineTexts ==
  ASSUME NEW m \in Nat, DOMAIN Fields = 1 .. m
  PROVE  /\ Titles \in [1 .. m -> Texts]
         /\ \A q : TextQuestion(q) => Line(q) \in [1 .. m -> Texts] /\ Banner(q) \in Seq(Texts) /\ Len(Banner(q)) = 1
<1>1. \A c \in 1 .. m : Fields[c] \in FieldSet BY DEF FieldSet
<1>2. Titles \in [1 .. m -> Texts] BY <1>1, TitlesAssumption DEF Titles
<1>3. ASSUME NEW q, TextQuestion(q)
      PROVE  Line(q) \in [1 .. m -> Texts] /\ Banner(q) \in Seq(Texts) /\ Len(Banner(q)) = 1
  <2>1. q.values \in [FieldSet -> Texts] /\ q.draft \in Texts /\ q.final \in Texts /\ q.domain \in DomainSet
    BY <1>3 DEF TextQuestion, TextValues
  <2>2. PICK said : said = EffectiveFeedback(q) OBVIOUS
  <2>3. said.text \in Texts BY <2>1, <2>2 DEF EffectiveFeedback
  <2>4. ShownFeedback(q) \in Texts
    <3>1. Marked[said.text] \in Texts BY <2>3, NamesAssumption
    <3> QED BY <2>2, <2>3, <3>1 DEF ShownFeedback
  <2>5. \A c \in 1 .. m : (IF Fields[c] = "feedback" THEN ShownFeedback(q) ELSE q.values[Fields[c]]) \in Texts
    BY <1>1, <2>1, <2>4
  <2>6. Line(q) \in [1 .. m -> Texts] BY <2>5 DEF Line
  <2>7. NameOf[q.domain] \in Texts BY <2>1, NamesAssumption
  <2> QED BY <2>6, <2>7 DEF Banner
<1> QED BY <1>2, <1>3

\* Question i's line stands in row at[i]: after the line of the one before, or after
\* its heading.  There are no other rows below the titles.
Laid(list, n, rows, at) ==
  /\ rows \in Seq(Seq(Texts)) /\ Len(rows) = at[n] /\ rows[1] = Titles
  /\ at \in [0 .. n -> Nat] /\ at[0] = 1
  /\ \A i \in 1 .. n : /\ at[i] = at[i - 1] + (IF OpensDomain(list, i) THEN 2 ELSE 1)
                       /\ rows[at[i]] = Line(list[i])
                       /\ OpensDomain(list, i) => rows[at[i] - 1] = Banner(list[i])
  /\ \A r \in 2 .. at[n] : \E i \in 1 .. n : r = at[i] \/ (OpensDomain(list, i) /\ r = at[i] - 1)

LEMMA LaidOut ==
  ASSUME NEW list, NEW n \in Nat, TextList(list, n), NEW rows, rows = Written(list)
  PROVE  \E at : Laid(list, n, rows, at)
<1>1. list = [i \in 1 .. n |-> list[i]] /\ DOMAIN list = 1 .. n /\ \A i \in 1 .. n : TextQuestion(list[i])
  <2>1. list = [i \in 1 .. n |-> list[i]] BY DEF TextList
  <2>2. DOMAIN list = 1 .. n BY <2>1
  <2> QED BY <2>1, <2>2 DEF TextList
<1>2. PICK m \in Nat : DOMAIN Fields = 1 .. m BY Columns
<1>3. PICK X : X = Seq(Texts) OBVIOUS
<1>4. Titles \in X
  <2>1. Titles \in [1 .. m -> Texts] BY <1>2, LineTexts
  <2> QED BY <1>3, <2>1
<1>5. ASSUME NEW i \in 1 .. n PROVE Line(list[i]) \in X /\ Banner(list[i]) \in X
  <2>1. Line(list[i]) \in [1 .. m -> Texts] /\ Banner(list[i]) \in Seq(Texts) BY <1>1, <1>2, LineTexts
  <2> QED BY <1>3, <2>1
<1>6. PICK parts : parts = [i \in 1 .. n |-> Lines(list, i)] OBVIOUS
<1>7. ASSUME NEW i \in 1 .. n
      PROVE  /\ parts[i] \in Seq(X)
             /\ OpensDomain(list, i) => Len(parts[i]) = 2 /\ parts[i][1] = Banner(list[i]) /\ parts[i][2] = Line(list[i])
             /\ ~OpensDomain(list, i) => Len(parts[i]) = 1 /\ parts[i][1] = Line(list[i])
  <2>1. PICK a, b : a = Banner(list[i]) /\ b = Line(list[i]) OBVIOUS
  <2>2. a \in X /\ b \in X BY <1>5, <2>1
  <2>3. parts[i] = IF OpensDomain(list, i) THEN <<a, b>> ELSE <<b>> BY <1>6, <2>1 DEF Lines
  <2>4. CASE OpensDomain(list, i) BY <2>1, <2>2, <2>3, <2>4
  <2>5. CASE ~OpensDomain(list, i) BY <2>1, <2>2, <2>3, <2>5
  <2> QED BY <2>4, <2>5
<1>8. parts \in Seq(Seq(X))
  <2>1. parts \in [1 .. n -> Seq(X)] BY <1>6, <1>7
  <2> QED BY <2>1
<1>9. Len(parts) = n BY <1>6
<1>10. PICK f : Appends(f, X, n, parts) /\ FlattenSeq(parts) = f[n] BY <1>8, <1>9, Flattening
<1>11. /\ \A k \in 0 .. n : f[k] \in Seq(X) /\ Begins(f[k], f[n])
       /\ Len(f[0]) = 0
       /\ \A k \in 1 .. n : /\ Len(f[k]) = Len(f[k - 1]) + Len(parts[k])
                            /\ \A i \in 1 .. Len(parts[k]) : f[k][Len(f[k - 1]) + i] = parts[k][i]
       /\ \A j \in 1 .. Len(f[n]) : \E k \in 1 .. n : j \in (Len(f[k - 1]) + 1) .. Len(f[k])
  BY <1>7, <1>10, Wholes
<1>12. PICK w : w = f[n] OBVIOUS
<1>13. w \in Seq(X) /\ rows = <<Titles>> \o w
  <2>1. [i \in DOMAIN list |-> Lines(list, i)] = parts BY <1>1, <1>6
  <2>2. Written(list) = <<Titles>> \o FlattenSeq(parts) BY <2>1, Zenon DEF Written
  <2>3. n \in 0 .. n OBVIOUS
  <2>4. f[n] \in Seq(X) BY <1>11, <2>3
  <2> QED BY <1>10, <1>12, <2>2, <2>4
<1>14. /\ rows \in Seq(X) /\ Len(rows) = Len(w) + 1 /\ rows[1] = Titles /\ Len(w) \in Nat
       /\ \A j \in 1 .. Len(w) : rows[j + 1] = w[j]
  BY <1>4, <1>13
<1>15. PICK len : len = [k \in 0 .. n |-> Len(f[k])] OBVIOUS
<1>16. PICK at : at = [k \in 0 .. n |-> len[k] + 1] OBVIOUS
<1>17. \A k \in 0 .. n : len[k] \in Nat /\ len[k] <= Len(w) /\ \A j \in 1 .. len[k] : w[j] = f[k][j]
  BY <1>11, <1>12, <1>15 DEF Begins
<1>18. at \in [0 .. n -> Nat] /\ at[0] = 1 /\ at[n] = Len(rows) BY <1>11, <1>12, <1>14, <1>15, <1>16, <1>17
<1>19. ASSUME NEW i \in 1 .. n
       PROVE  /\ i - 1 \in 0 .. n /\ len[i] = len[i - 1] + Len(parts[i])
              /\ \A j \in 1 .. Len(parts[i]) : rows[at[i - 1] + j] = parts[i][j]
  <2>1. i - 1 \in 0 .. n /\ i \in 0 .. n OBVIOUS
  <2>2. len[i] = len[i - 1] + Len(parts[i]) BY <1>11, <1>15, <2>1
  <2>3. ASSUME NEW j \in 1 .. Len(parts[i]) PROVE rows[at[i - 1] + j] = parts[i][j]
    <3>1. Len(parts[i]) \in Nat BY <1>7
    <3>2. PICK a \in Nat, p \in Nat, b \in Nat : a = len[i - 1] /\ p = Len(parts[i]) /\ b = len[i] BY <1>17, <2>1, <3>1
    <3>3. a + j \in 1 .. b BY <2>2, <3>2
    <3>4. f[i][a + j] = parts[i][j] BY <1>11, <1>15, <2>1, <3>2
    <3>5. w[a + j] = f[i][a + j] BY <1>17, <2>1, <3>2, <3>3
    <3>6. a + j \in 1 .. Len(w) BY <1>14, <1>17, <2>1, <3>2, <3>3
    <3>7. rows[(a + j) + 1] = w[a + j] BY <1>14, <3>6
    <3>8. at[i - 1] + j = (a + j) + 1 BY <1>16, <2>1, <3>2
    <3> QED BY <3>4, <3>5, <3>7, <3>8
  <2> QED BY <2>1, <2>2, <2>3
<1>20. ASSUME NEW i \in 1 .. n
       PROVE  /\ at[i] = at[i - 1] + (IF OpensDomain(list, i) THEN 2 ELSE 1)
              /\ rows[at[i]] = Line(list[i])
              /\ OpensDomain(list, i) => rows[at[i] - 1] = Banner(list[i])
  <2>1. PICK a \in Nat, b \in Nat : a = at[i - 1] /\ b = at[i] BY <1>18
  <2>2. b = a + Len(parts[i])
    <3>1. i - 1 \in 0 .. n /\ i \in 0 .. n OBVIOUS
    <3>2. Len(parts[i]) \in Nat BY <1>7
    <3>3. len[i] = len[i - 1] + Len(parts[i]) /\ len[i - 1] \in Nat BY <1>17, <1>19, <3>1
    <3>4. b = len[i] + 1 /\ a = len[i - 1] + 1 BY <1>16, <2>1, <3>1
    <3> QED BY <3>2, <3>3, <3>4
  <2>3. CASE OpensDomain(list, i)
    <3>1. Len(parts[i]) = 2 /\ 1 \in 1 .. 2 /\ 2 \in 1 .. 2 BY <1>7, <2>3
    <3>2. rows[a + 1] = parts[i][1] /\ rows[a + 2] = parts[i][2] BY <1>19, <2>1, <3>1
    <3>3. b = a + 2 /\ b - 1 = a + 1 BY <2>2, <3>1
    <3> QED BY <1>7, <2>1, <2>3, <3>2, <3>3
  <2>4. CASE ~OpensDomain(list, i)
    <3>1. Len(parts[i]) = 1 /\ 1 \in 1 .. 1 BY <1>7, <2>4
    <3>2. rows[a + 1] = parts[i][1] BY <1>19, <2>1, <3>1
    <3>3. b = a + 1 BY <2>2, <3>1
    <3> QED BY <1>7, <2>1, <2>4, <3>2, <3>3
  <2> QED BY <2>3, <2>4
<1>21. ASSUME NEW r \in 2 .. at[n] PROVE \E i \in 1 .. n : r = at[i] \/ (OpensDomain(list, i) /\ r = at[i] - 1)
  <2>1. r - 1 \in 1 .. Len(f[n]) BY <1>12, <1>14, <1>18
  <2>2. PICK i \in 1 .. n : r - 1 \in (Len(f[i - 1]) + 1) .. Len(f[i]) BY <1>11, <2>1
  <2>3. i - 1 \in 0 .. n /\ i \in 0 .. n OBVIOUS
  <2>4. PICK a \in Nat, b \in Nat : a = at[i - 1] /\ b = at[i] BY <1>18, <2>3
  <2>5. r \in (a + 1) .. b BY <1>15, <1>16, <1>17, <2>2, <2>3, <2>4
  <2>6. b = a + (IF OpensDomain(list, i) THEN 2 ELSE 1) BY <1>20, <2>4
  <2>7. r = b \/ (OpensDomain(list, i) /\ r = b - 1)
    <3>1. CASE OpensDomain(list, i) BY <2>5, <2>6, <3>1
    <3>2. CASE ~OpensDomain(list, i) BY <2>5, <2>6, <3>2
    <3> QED BY <3>1, <3>2
  <2> QED BY <2>4, <2>7
<1>22. Laid(list, n, rows, at) BY <1>3, <1>14, <1>18, <1>20, <1>21 DEF Laid
<1> QED BY <1>22

\* So what is exported is made of texts.
LEMMA ExportedTexts ==
  ASSUME NEW list, NEW n \in Nat, TextList(list, n)
  PROVE  TextBook(ExportXLSX(list))
<1>1. PICK rows : rows = Written(list) OBVIOUS
<1>2. PICK at : Laid(list, n, rows, at) BY <1>1, LaidOut
<1>3. rows \in Seq(Seq(Texts)) BY <1>2 DEF Laid
<1>4. TextGrid(rows) BY <1>3 DEF TextGrid
<1>5. PICK regions : regions = Regions(rows) OBVIOUS
<1>6. ExportXLSX(list) = [csv |-> FALSE, sheets |-> <<[name |-> "Sheet1", rows |-> rows, merged |-> regions]>>]
  BY <1>1, <1>5, Workbook1
<1>7. PICK sheets : sheets = <<[name |-> "Sheet1", rows |-> rows, merged |-> regions]>> OBVIOUS
<1>8. ExportXLSX(list).sheets = sheets /\ \A i \in DOMAIN sheets : sheets[i].rows = rows BY <1>6, <1>7
<1> QED BY <1>4, <1>8 DEF TextBook

\* Lines that go down the sheet, from row 1 to the last.
GoesDown(at, n) ==
  /\ \A i \in 0 .. n : at[i] \in Nat /\ 1 <= at[i] /\ at[i] <= at[n]
  /\ \A i, k \in 0 .. n : (i < k <=> at[i] < at[k]) /\ (at[i] = at[k] => i = k)

\* The rows of the workbook go down it.
LEMMA RowsRise ==
  ASSUME NEW list, NEW n \in Nat, NEW rows, NEW at, Laid(list, n, rows, at)
  PROVE  GoesDown(at, n)
<1>1. at \in [0 .. n -> Nat] /\ at[0] = 1 BY DEF Laid
<1>2. \A i \in 1 .. n : at[i - 1] < at[i]
  <2> TAKE i \in 1 .. n
  <2>1. i - 1 \in 0 .. n /\ at[i - 1] \in Nat BY <1>1
  <2>2. at[i] = at[i - 1] + (IF OpensDomain(list, i) THEN 2 ELSE 1) BY DEF Laid
  <2>3. at[i] = at[i - 1] + 1 \/ at[i] = at[i - 1] + 2 BY <2>2
  <2> QED BY <2>1, <2>3
<1>3. \A i, k \in 0 .. n : (i < k <=> at[i] < at[k]) /\ (at[i] = at[k] => i = k) BY <1>1, <1>2, Climbing
<1>4. ASSUME NEW i \in 0 .. n PROVE at[i] \in Nat /\ 1 <= at[i] /\ at[i] <= at[n]
  <2>1. at[i] \in Nat /\ at[n] \in Nat BY <1>1
  <2>2. i = 0 \/ 0 < i OBVIOUS
  <2>3. i = n \/ i < n OBVIOUS
  <2>4. 0 \in 0 .. n /\ n \in 0 .. n OBVIOUS
  <2> QED BY <1>1, <1>3, <2>1, <2>2, <2>3, <2>4
<1> QED BY <1>3, <1>4 DEF GoesDown

\* The heading across the sheet, and nothing else changed.
Across(q, m) == [c \in 1 .. m |-> NameOf[q.domain]]
Reread(list, n, g, at, m) ==
  /\ g = [r \in 1 .. at[n] |-> g[r]] /\ \A r \in 1 .. at[n] : g[r] \in [1 .. m -> Texts]
  /\ g[1] = Titles
  /\ \A i \in 1 .. n : /\ g[at[i]] = Line(list[i])
                       /\ OpensDomain(list, i) => g[at[i] - 1] = Across(list[i], m)

\* The rows are as wide as the titles, but for the headings; the last one asks something.
LEMMA RowsWide ==
  ASSUME NEW list, NEW n \in Nat, n > 0, TextList(list, n), NEW rows, NEW at, Laid(list, n, rows, at),
         NEW m \in Nat, Len(Fields) = m, DOMAIN Fields = 1 .. m
  PROVE  /\ rows[1] \in [1 .. m -> Texts] /\ m >= 3
         /\ \A i \in 1 .. n : rows[at[i]] \in [1 .. m -> Texts]
         /\ \A r \in 1 .. at[n] : \/ rows[r] \in [1 .. m -> Texts] /\ Len(rows[r]) = m
                                  \/ \E i \in 1 .. n : rows[r] = Banner(list[i]) /\ Len(rows[r]) = 1
         /\ ~IsBlankRow(rows[at[n]])
<1>1. \A i \in 1 .. n : TextQuestion(list[i]) BY DEF TextList
<1>2. Titles \in [1 .. m -> Texts] /\ \A i \in 1 .. n : Line(list[i]) \in [1 .. m -> Texts] /\ Len(Banner(list[i])) = 1
  BY <1>1, LineTexts
<1>3. rows[1] = Titles /\ \A i \in 1 .. n : rows[at[i]] = Line(list[i]) BY DEF Laid
<1>4. m >= 3 BY Columns
<1>5. \A row \in [1 .. m -> Texts] : Len(row) = m OBVIOUS
<1>6. ASSUME NEW r \in 1 .. at[n]
      PROVE  \/ rows[r] \in [1 .. m -> Texts] /\ Len(rows[r]) = m
             \/ \E i \in 1 .. n : rows[r] = Banner(list[i]) /\ Len(rows[r]) = 1
  <2>1. CASE r = 1 BY <1>2, <1>3, <1>5, <2>1
  <2>2. CASE r # 1
    <3>1. at[n] \in Nat BY DEF Laid
    <3>2. r \in 2 .. at[n] BY <2>2, <3>1
    <3>3. PICK i \in 1 .. n : r = at[i] \/ (OpensDomain(list, i) /\ r = at[i] - 1) BY <3>2 DEF Laid
    <3>4. CASE r = at[i] BY <1>2, <1>3, <1>5, <3>4
    <3>5. CASE OpensDomain(list, i) /\ r = at[i] - 1
      <4>1. rows[r] = Banner(list[i]) BY <3>5 DEF Laid
      <4> QED BY <1>2, <4>1
    <3> QED BY <3>3, <3>4, <3>5
  <2> QED BY <2>1, <2>2
<1>7. ~IsBlankRow(rows[at[n]])
  <2>1. n \in 1 .. n OBVIOUS
  <2>2. PICK c \in 1 .. m : Fields[c] = "question" BY FieldsAssumption DEF FieldSet
  <2>3. PICK row : row = rows[at[n]] OBVIOUS
  <2>4. row = Line(list[n]) /\ row \in [1 .. m -> Texts] BY <1>2, <1>3, <2>1, <2>3
  <2>5. row[c] = list[n].values.question BY <2>2, <2>4 DEF Line
  <2>6. list[n].values.question # Blank BY <1>1, <2>1 DEF TextQuestion, TextValues
  <2> QED BY <2>3, <2>4, <2>5, <2>6 DEF IsBlankRow
<1> QED BY <1>2, <1>3, <1>4, <1>6, <1>7

\* Nothing is cut off and the rows get the width of the titles.
LEMMA NormalBack ==
  ASSUME NEW list, NEW n \in Nat, n > 0, TextList(list, n), NEW rows, NEW at, Laid(list, n, rows, at),
         NEW m \in Nat, Len(Fields) = m, DOMAIN Fields = 1 .. m
  PROVE  NormalizeRows(rows) = [r \in 1 .. at[n] |-> [c \in 1 .. m |-> Cell(rows, r, c)]]
<1>1. PICK a \in Nat : a = at[n] /\ a >= 1
  <2>1. n \in 0 .. n OBVIOUS
  <2>2. GoesDown(at, n) BY RowsRise
  <2> QED BY <2>1, <2>2 DEF GoesDown
<1>2. DOMAIN rows = 1 .. a BY <1>1 DEF Laid
<1>3. /\ rows[1] \in [1 .. m -> Texts] /\ m >= 3 /\ ~IsBlankRow(rows[a])
      /\ \A r \in 1 .. a : Len(rows[r]) = m \/ Len(rows[r]) = 1
  <2>1. /\ rows[1] \in [1 .. m -> Texts] /\ m >= 3
        /\ \A r \in 1 .. at[n] : \/ rows[r] \in [1 .. m -> Texts] /\ Len(rows[r]) = m
                                 \/ \E i \in 1 .. n : rows[r] = Banner(list[i]) /\ Len(rows[r]) = 1
        /\ ~IsBlankRow(rows[at[n]])
    BY RowsWide
  <2> QED BY <1>1, <2>1
<1> DEFINE wide == {0} \cup {Len(rows[r]) : r \in DOMAIN rows}
           used == {0} \cup {r \in DOMAIN rows : ~IsBlankRow(rows[r])}
<1>4. Max(wide) = m
  <2>1. Len(rows[1]) = m /\ 1 \in 1 .. a BY <1>1, <1>3
  <2>2. wide \in SUBSET Nat /\ m \in wide /\ \A x \in wide : x <= m
    <3>1. m \in wide BY <1>2, <2>1
    <3>2. ASSUME NEW x \in wide PROVE x = 0 \/ x = 1 \/ x = m
      <4>1. x = 0 \/ \E r \in DOMAIN rows : x = Len(rows[r]) OBVIOUS
      <4>2. \A r \in DOMAIN rows : Len(rows[r]) = m \/ Len(rows[r]) = 1 BY <1>2, <1>3
      <4> QED BY <4>1, <4>2
    <3> HIDE DEF wide
    <3>3. \A x \in wide : x \in Nat /\ x <= m BY <1>3, <3>2
    <3> QED BY <3>1, <3>3
  <2> HIDE DEF wide
  <2>3. Max(wide) \in wide /\ \A x \in wide : x <= Max(wide) BY <2>2, MaxIs
  <2>4. Max(wide) \in Nat /\ Max(wide) <= m /\ m <= Max(wide) BY <2>2, <2>3
  <2> QED BY <2>4
<1>5. Max(used) = a
  <2>1. used \in SUBSET Nat /\ a \in used /\ \A x \in used : x <= a BY <1>1, <1>2, <1>3
  <2> HIDE DEF used
  <2>2. Max(used) \in used /\ \A x \in used : x <= Max(used) BY <2>1, MaxIs
  <2>3. Max(used) \in Nat /\ Max(used) <= a /\ a <= Max(used) BY <2>1, <2>2
  <2> QED BY <2>3
<1>6. NormalizeRows(rows) = [r \in 1 .. Max(used) |-> [c \in 1 .. Max(wide) |-> Cell(rows, r, c)]]
  BY DEF NormalizeRows
<1> HIDE DEF wide, used
<1> QED BY <1>1, <1>4, <1>5, <1>6

\* The merged headings show across the sheet.
LEMMA MergedBack ==
  ASSUME NEW list, NEW n \in Nat, n > 0, TextList(list, n), NEW rows, NEW at, Laid(list, n, rows, at),
         NEW m \in Nat, Len(Fields) = m, DOMAIN Fields = 1 .. m,
         NEW sheet, sheet.rows = rows, sheet.merged = Regions(rows),
         NEW g, g = ExpandMerged(sheet, NormalizeRows(rows))
  PROVE  Reread(list, n, g, at, m)
<1>1. PICK a \in Nat : a = at[n] /\ a >= 1
  <2>1. n \in 0 .. n OBVIOUS
  <2>2. GoesDown(at, n) BY RowsRise
  <2> QED BY <2>1, <2>2 DEF GoesDown
<1>2. DOMAIN rows = 1 .. a BY <1>1 DEF Laid
<1>3. /\ rows[1] \in [1 .. m -> Texts] /\ m >= 3
      /\ \A i \in 1 .. n : rows[at[i]] \in [1 .. m -> Texts]
      /\ \A r \in 1 .. a : \/ rows[r] \in [1 .. m -> Texts] /\ Len(rows[r]) = m
                           \/ \E i \in 1 .. n : rows[r] = Banner(list[i]) /\ Len(rows[r]) = 1
  <2>1. /\ rows[1] \in [1 .. m -> Texts] /\ m >= 3
        /\ \A i \in 1 .. n : rows[at[i]] \in [1 .. m -> Texts]
        /\ \A r \in 1 .. at[n] : \/ rows[r] \in [1 .. m -> Texts] /\ Len(rows[r]) = m
                                 \/ \E i \in 1 .. n : rows[r] = Banner(list[i]) /\ Len(rows[r]) = 1
    BY RowsWide
  <2> QED BY <1>1, <2>1
<1>4. PICK p : p = [r \in 1 .. a |-> [c \in 1 .. m |-> Cell(rows, r, c)]] OBVIOUS
<1>5. NormalizeRows(rows) = p BY <1>1, <1>4, NormalBack
<1> DEFINE value(x)  == Cell(sheet.rows, x.top, x.left)
           over(r, c) == {x \in sheet.merged : /\ r \in x.top .. x.bottom /\ c \in x.left .. x.right
                                               /\ value(x) # Blank}
           shown(r, c) == IF p[r][c] = Blank /\ over(r, c) # {} THEN value(CHOOSE x \in over(r, c) : TRUE)
                          ELSE p[r][c]
<1>6. g = [r \in DOMAIN p |-> [c \in DOMAIN p[r] |-> shown(r, c)]]
  <2>1. PICK norm : norm = NormalizeRows(rows) OBVIOUS
  <2>2. g = ExpandMerged(sheet, norm) BY <2>1
  <2>3. norm = p BY <1>5, <2>1
  <2>4. g = ExpandMerged(sheet, p) BY <2>2, <2>3
  <2>5. ExpandMerged(sheet, p) = [r \in DOMAIN p |-> [c \in DOMAIN p[r] |-> shown(r, c)]] BY Zenon DEF ExpandMerged
  <2> QED BY <2>4, <2>5, Zenon
<1>7. DOMAIN p = 1 .. a /\ \A r \in 1 .. a : DOMAIN p[r] = 1 .. m /\ \A c \in 1 .. m : p[r][c] = Cell(rows, r, c)
  BY <1>4
<1> DEFINE Region(x) == [top |-> x, bottom |-> x, left |-> 1, right |-> m]
<1>8. \A r, c, x : x \in over(r, c) => /\ r \in 1 .. a /\ Len(rows[r]) < m /\ x = Region(r)
  <2> TAKE r, c, x
  <2> HAVE x \in over(r, c)
  <2>1. PICK y \in 1 .. a : Len(rows[y]) < m /\ x = Region(y) BY <1>2 DEF Regions
  <2>2. r \in y .. y BY <2>1
  <2>3. r = y BY <2>2
  <2> QED BY <2>1, <2>3
<1>9. ASSUME NEW r \in 1 .. a, rows[r] \in [1 .. m -> Texts] PROVE \A c \in 1 .. m : shown(r, c) = rows[r][c]
  <2> TAKE c \in 1 .. m
  <2>1. Len(rows[r]) = m BY <1>9
  <2>2. over(r, c) = {}
    <3> HIDE DEF over
    <3>1. ASSUME NEW x \in over(r, c) PROVE FALSE
      <4>1. Len(rows[r]) < m BY <1>8, <3>1
      <4> QED BY <2>1, <4>1
    <3> QED BY <3>1
  <2>3. Cell(rows, r, c) = rows[r][c] BY <1>2, <1>9 DEF Cell
  <2>4. p[r][c] = rows[r][c] BY <1>7, <2>3
  <2> HIDE DEF over
  <2> QED BY <2>2, <2>4
<1>10. ASSUME NEW r \in 1 .. a, NEW i \in 1 .. n, rows[r] = Banner(list[i])
       PROVE  \A c \in 1 .. m : shown(r, c) = NameOf[list[i].domain]
  <2> TAKE c \in 1 .. m
  <2>1. PICK name : name = NameOf[list[i].domain] OBVIOUS
  <2>2. rows[r] = <<name>> /\ Len(rows[r]) = 1 BY <1>10, <2>1 DEF Banner
  <2>3. name # Blank
    <3>1. list[i].domain \in DomainSet BY DEF TextList, TextQuestion
    <3> QED BY <2>1, <3>1, NamesAssumption
  <2>4. Cell(rows, r, 1) = name /\ (c # 1 => Cell(rows, r, c) = Blank) BY <1>2, <2>2 DEF Cell
  <2>5. Region(r) \in over(r, c)
    <3>1. Region(r) \in sheet.merged
      <4>1. Len(rows[r]) < Len(Fields) /\ r \in DOMAIN rows BY <1>2, <1>3, <2>2
      <4>2. Region(r) = [top |-> r, bottom |-> r, left |-> 1, right |-> Len(Fields)] OBVIOUS
      <4> HIDE DEF Region
      <4>3. Region(r) \in Regions(rows) BY <4>1, <4>2 DEF Regions
      <4> QED BY <4>3
    <3>2. value(Region(r)) = name BY <2>4
    <3>3. r \in Region(r).top .. Region(r).bottom /\ c \in Region(r).left .. Region(r).right OBVIOUS
    <3> HIDE DEF Region, value
    <3> QED BY <2>3, <3>1, <3>2, <3>3
  <2>6. value(Region(r)) = name BY <2>4
  <2>7. (CHOOSE x \in over(r, c) : TRUE) = Region(r)
    <3> HIDE DEF over, Region
    <3> QED BY <1>8, <2>5
  <2>8. over(r, c) # {} BY <2>5
  <2>9. p[r][c] = Cell(rows, r, c) BY <1>7
  <2> HIDE DEF over, Region, value
  <2>10. CASE c = 1 BY <2>1, <2>3, <2>4, <2>9, <2>10
  <2>11. CASE c # 1 BY <2>1, <2>4, <2>6, <2>7, <2>8, <2>9, <2>11
  <2> QED BY <2>10, <2>11
<1> HIDE DEF shown
<1>11. ASSUME NEW r \in 1 .. a
       PROVE  /\ g[r] = [c \in 1 .. m |-> shown(r, c)]
              /\ rows[r] \in [1 .. m -> Texts] => g[r] = rows[r]
              /\ \A i \in 1 .. n : rows[r] = Banner(list[i]) => g[r] = Across(list[i], m)
              /\ g[r] \in [1 .. m -> Texts]
  <2>1. g[r] = [c \in 1 .. m |-> shown(r, c)] BY <1>6, <1>7
  <2>2. ASSUME rows[r] \in [1 .. m -> Texts] PROVE g[r] = rows[r]
    <3>1. PICK row : row = rows[r] OBVIOUS
    <3>2. \A c \in 1 .. m : shown(r, c) = row[c] BY <1>9, <2>2, <3>1
    <3>3. row = [c \in 1 .. m |-> row[c]] BY <2>2, <3>1
    <3> QED BY <2>1, <3>1, <3>2, <3>3
  <2>3. ASSUME NEW i \in 1 .. n, rows[r] = Banner(list[i]) PROVE g[r] = Across(list[i], m)
    <3>1. \A c \in 1 .. m : shown(r, c) = NameOf[list[i].domain] BY <1>10, <2>3
    <3> QED BY <2>1, <3>1 DEF Across
  <2>4. \A i \in 1 .. n : Across(list[i], m) \in [1 .. m -> Texts]
    <3> TAKE i \in 1 .. n
    <3>1. list[i].domain \in DomainSet BY DEF TextList, TextQuestion
    <3>2. NameOf[list[i].domain] \in Texts BY <3>1, NamesAssumption
    <3> QED BY <3>2 DEF Across
  <2>5. g[r] \in [1 .. m -> Texts] BY <1>3, <2>2, <2>3, <2>4
  <2> QED BY <2>1, <2>2, <2>3, <2>5
<1>12. g = [r \in 1 .. a |-> g[r]]
  <2>1. g = [r \in 1 .. a |-> [c \in DOMAIN p[r] |-> shown(r, c)]] BY <1>6, <1>7
  <2> QED BY <2>1
<1>13. g[1] = Titles
  <2>1. 1 \in 1 .. a BY <1>1
  <2>2. rows[1] = Titles BY DEF Laid
  <2> QED BY <1>3, <1>11, <2>1, <2>2
<1>15. GoesDown(at, n) BY RowsRise
<1>14. ASSUME NEW i \in 1 .. n
       PROVE  g[at[i]] = Line(list[i]) /\ (OpensDomain(list, i) => g[at[i] - 1] = Across(list[i], m))
  <2>1. i \in 0 .. n /\ i - 1 \in 0 .. n /\ i - 1 < i OBVIOUS
  <2>2. at[i] \in 1 .. a /\ at[i - 1] \in 1 .. a /\ at[i - 1] < at[i]
    <3>2. at[i] \in Nat /\ 1 <= at[i] /\ at[i] <= a BY <1>1, <1>15, <2>1 DEF GoesDown
    <3>3. at[i - 1] \in Nat /\ 1 <= at[i - 1] /\ at[i - 1] <= a BY <1>1, <1>15, <2>1 DEF GoesDown
    <3>4. at[i - 1] < at[i] BY <1>15, <2>1 DEF GoesDown
    <3> QED BY <3>2, <3>3, <3>4
  <2>3. at[i] \in 1 .. a /\ at[i] - 1 \in 1 .. a BY <2>2
  <2>4. rows[at[i]] = Line(list[i]) /\ (OpensDomain(list, i) => rows[at[i] - 1] = Banner(list[i])) BY DEF Laid
  <2> QED BY <1>3, <1>11, <2>3, <2>4
<1> QED BY <1>1, <1>11, <1>12, <1>13, <1>14 DEF Reread

(***************************************************************************)
(* The columns: what AutoMap pairs, and that nothing better was left out.  *)
(***************************************************************************)
Like(g, h, c, f) == FieldLike[g[h][c]][f]
Pairings(g, h)   == {p \in [col : 1 .. Width(g), field : FieldSet] :
                       FieldLike[g[h][p.col]][p.field] >= AutoMapThreshold}
Column(f)        == CHOOSE i \in DOMAIN Fields : Fields[i] = f
Ahead(g, h, p, q) ==
  \/ FieldLike[g[h][p.col]][p.field] > FieldLike[g[h][q.col]][q.field]
  \/ FieldLike[g[h][p.col]][p.field] = FieldLike[g[h][q.col]][q.field] /\ p.col < q.col
  \/ FieldLike[g[h][p.col]][p.field] = FieldLike[g[h][q.col]][q.field] /\ p.col = q.col
       /\ Column(p.field) < Column(q.field)
Taken(b, p) == p.field \in DOMAIN b \/ \E f \in DOMAIN b : b[f].col = p.col
Take(b, p)  == IF Taken(b, p) THEN b ELSE Bind(b, p.field, p.col)

\* n pairings, the best first.
Ranked(g, h, pairs, o, n) ==
  /\ n \in Nat /\ o \in [1 .. n -> pairs] /\ \A p \in pairs : \E k \in 1 .. n : o[k] = p
  /\ \A i, k \in 1 .. n : i < k => Like(g, h, o[k].col, o[k].field) <= Like(g, h, o[i].col, o[i].field)

\* The pairings are finitely many and in order, the best first.
LEMMA PairingsRank ==
  ASSUME NEW g, NEW h, NEW w \in Nat, Width(g) = w, \A c \in 1 .. w : g[h][c] \in Texts,
         NEW pairs, pairs = Pairings(g, h),
         NEW order, order = {x \in pairs \X pairs : Ahead(g, h, x[1], x[2])}
  PROVE  Ranked(g, h, pairs, InOrder(pairs, order), Cardinality(pairs))
<1>1. PICK m \in Nat : DOMAIN Fields = 1 .. m BY Columns
<1>2. \A f \in FieldSet : Column(f) \in 1 .. m /\ Fields[Column(f)] = f BY <1>1 DEF Column, FieldSet
<1>3. pairs \in SUBSET [col : 1 .. w, field : FieldSet] BY DEF Pairings
<1>4. ASSUME NEW p \in pairs
      PROVE  /\ p.col \in 1 .. w /\ p.field \in FieldSet /\ p = [col |-> p.col, field |-> p.field]
             /\ FieldLike[g[h][p.col]][p.field] \in Nat
             /\ Column(p.field) \in 1 .. m /\ Fields[Column(p.field)] = p.field
  <2>1. p.col \in 1 .. w /\ p.field \in FieldSet /\ p = [col |-> p.col, field |-> p.field] BY <1>3
  <2>2. FieldLike[g[h][p.col]] \in [FieldSet -> 0 .. 100] BY <2>1, LikeAssumption
  <2>3. FieldLike[g[h][p.col]][p.field] \in 0 .. 100 BY <2>1, <2>2
  <2> QED BY <1>2, <2>1, <2>3
<1>5. IsFiniteSet(pairs)
  <2>1. IsFiniteSet(1 .. w) /\ IsFiniteSet(1 .. m) BY FS_Interval
  <2>2. IsFiniteSet((1 .. w) \X (1 .. m)) BY <2>1, FS_Product
  <2>3. PICK f : f = [x \in (1 .. w) \X (1 .. m) |-> [col |-> x[1], field |-> Fields[x[2]]]] OBVIOUS
  <2>4. \A p \in pairs : \E s \in (1 .. w) \X (1 .. m) : p = f[s]
    <3> TAKE p \in pairs
    <3>1. <<p.col, Column(p.field)>> \in (1 .. w) \X (1 .. m) BY <1>4
    <3>2. f[<<p.col, Column(p.field)>>] = [col |-> p.col, field |-> p.field] BY <1>4, <2>3, <3>1
    <3> QED BY <1>4, <3>1, <3>2
  <2> QED BY <2>2, <2>4, Covered
<1>6. \A p, q \in pairs : <<p, q>> \in order <=> Ahead(g, h, p, q) OBVIOUS
<1>7. Ordering(pairs, order)
  <2>1. ASSUME NEW x \in pairs PROVE <<x, x>> \notin order
    <3>1. PICK l, c, k \in Nat : l = FieldLike[g[h][x.col]][x.field] /\ c = x.col /\ k = Column(x.field)
      BY <1>4
    <3>2. ~(l > l) /\ ~(c < c) /\ ~(k < k) OBVIOUS
    <3>3. ~Ahead(g, h, x, x) BY <3>1, <3>2, Zenon DEF Ahead
    <3> QED BY <1>6, <3>3
  <2>2. ASSUME NEW x \in pairs, NEW y \in pairs, NEW z \in pairs, <<x, y>> \in order, <<y, z>> \in order
        PROVE  <<x, z>> \in order
    <3>1. Ahead(g, h, x, y) /\ Ahead(g, h, y, z) BY <1>6, <2>2
    <3>2. PICK lx, ly, lz \in Nat : /\ lx = FieldLike[g[h][x.col]][x.field] /\ ly = FieldLike[g[h][y.col]][y.field]
                                   /\ lz = FieldLike[g[h][z.col]][z.field]
      BY <1>4
    <3>3. PICK cx, cy, cz, px, py, pz \in Nat : /\ cx = x.col /\ cy = y.col /\ cz = z.col
                                   /\ px = Column(x.field) /\ py = Column(y.field) /\ pz = Column(z.field)
      BY <1>4
    <3>4. /\ lx > ly \/ (lx = ly /\ cx < cy) \/ (lx = ly /\ cx = cy /\ px < py)
          /\ ly > lz \/ (ly = lz /\ cy < cz) \/ (ly = lz /\ cy = cz /\ py < pz)
      BY <3>1, <3>2, <3>3, Zenon DEF Ahead
    <3>5. lx > lz \/ (lx = lz /\ cx < cz) \/ (lx = lz /\ cx = cz /\ px < pz) BY <3>4
    <3>6. Ahead(g, h, x, z) BY <3>2, <3>3, <3>5, Zenon DEF Ahead
    <3> QED BY <1>6, <3>6
  <2>3. ASSUME NEW x \in pairs, NEW y \in pairs PROVE x = y \/ <<x, y>> \in order \/ <<y, x>> \in order
    <3>1. CASE Column(x.field) = Column(y.field) /\ x.col = y.col
      <4>1. x.field = y.field BY <1>4, <3>1
      <4> QED BY <1>4, <3>1, <4>1
    <3>2. CASE ~(Column(x.field) = Column(y.field) /\ x.col = y.col)
      <4>1. Ahead(g, h, x, y) \/ Ahead(g, h, y, x) BY <1>4, <3>2 DEF Ahead
      <4> QED BY <1>6, <4>1
    <3> QED BY <3>1, <3>2
  <2> QED BY <2>1, <2>2, <2>3 DEF Ordering
<1>8. PICK o, n : o = InOrder(pairs, order) /\ n = Cardinality(pairs) OBVIOUS
<1>9. /\ n \in Nat /\ o \in [1 .. n -> pairs]
      /\ \A p \in pairs : \E k \in 1 .. n : o[k] = p
      /\ \A i, k \in 1 .. n : i < k <=> <<o[i], o[k]>> \in order
  <2>1. PICK S, ord : S = pairs /\ ord = order OBVIOUS
  <2>2. IsFiniteSet(S) /\ Ordering(S, ord) BY <1>5, <1>7, <2>1, Zenon
  <2>3. /\ Cardinality(S) \in Nat /\ InOrder(S, ord) \in [1 .. Cardinality(S) -> S]
        /\ \A x \in S : \E k \in 1 .. Cardinality(S) : InOrder(S, ord)[k] = x
        /\ \A i, k \in 1 .. Cardinality(S) : i < k <=> <<InOrder(S, ord)[i], InOrder(S, ord)[k]>> \in ord
    BY <2>2, InOrderRanks
  <2>4. o = InOrder(S, ord) /\ n = Cardinality(S) BY <1>8, <2>1, Zenon
  <2>5. n \in Nat /\ o \in [1 .. n -> pairs] BY <2>1, <2>3, <2>4
  <2>6. \A p \in pairs : \E k \in 1 .. n : o[k] = p BY <2>1, <2>3, <2>4
  <2>7. \A i, k \in 1 .. n : i < k <=> <<o[i], o[k]>> \in order BY <2>1, <2>3, <2>4
  <2> QED BY <2>5, <2>6, <2>7
<1>10. ASSUME NEW i \in 1 .. n, NEW k \in 1 .. n, i < k
       PROVE  Like(g, h, o[k].col, o[k].field) <= Like(g, h, o[i].col, o[i].field)
  <2>1. o[i] \in pairs /\ o[k] \in pairs /\ <<o[i], o[k]>> \in order BY <1>9, <1>10
  <2>2. Ahead(g, h, o[i], o[k]) BY <1>6, <2>1
  <2>3. PICK lx, ly \in Nat : lx = FieldLike[g[h][o[i].col]][o[i].field] /\ ly = FieldLike[g[h][o[k].col]][o[k].field]
    BY <1>4, <2>1
  <2>4. lx > ly \/ lx = ly BY <2>2, <2>3, Zenon DEF Ahead
  <2>5. ly <= lx BY <2>4
  <2> QED BY <2>3, <2>5, Zenon DEF Like
<1>11. Ranked(g, h, pairs, o, n) BY <1>9, <1>10, Zenon DEF Ranked
<1> QED BY <1>8, <1>11

\* Tables that say of some fields which column they are read from.
Bounds(w) == UNION {[D -> [col : 1 .. w, manual : {FALSE}]] : D \in SUBSET FieldSet}

\* One more field.
Adds(t, b, f, c, w) ==
  /\ t \in Bounds(w) /\ DOMAIN t = (DOMAIN b) \cup {f}
  /\ f \notin DOMAIN b => t[f].col = c
  /\ \A x \in DOMAIN b : t[x] = b[x]

LEMMA Binding ==
  ASSUME NEW w, NEW b \in Bounds(w), NEW f \in FieldSet, NEW c \in 1 .. w, NEW t, t = Bind(b, f, c)
  PROVE  Adds(t, b, f, c, w)
<1>1. PICK D \in SUBSET FieldSet : b \in [D -> [col : 1 .. w, manual : {FALSE}]] BY DEF Bounds
<1>2. PICK e : e = [col |-> c, manual |-> FALSE] OBVIOUS
<1>3. t = [x \in D \cup {f} |-> IF x \in D THEN b[x] ELSE e] BY <1>1, <1>2 DEF Bind
<1>4. e \in [col : 1 .. w, manual : {FALSE}] /\ e.col = c BY <1>2
<1>5. t \in [D \cup {f} -> [col : 1 .. w, manual : {FALSE}]] BY <1>1, <1>3, <1>4
<1>6. D \cup {f} \in SUBSET FieldSet OBVIOUS
<1>7. t \in Bounds(w) BY <1>5, <1>6 DEF Bounds
<1> QED BY <1>1, <1>3, <1>4, <1>7 DEF Adds

\* The tables AutoMap goes through, pairing by pairing.
Goes(b, n, o) == b[0] = NoColumns /\ \A k \in 1 .. n : b[k] = Take(b[k - 1], o[k])

\* A recursion over such steps has a solution.
Repeats(b, X, base, n, step) == b \in [0 .. n -> X] /\ b[0] = base /\ \A k \in 1 .. n : b[k] = step[k][b[k - 1]]

LEMMA Repeated ==
  ASSUME NEW X, NEW base, NEW n, NEW step, base \in X /\ n \in Nat /\ step \in [1 .. n -> [X -> X]]
  PROVE  \E b : Repeats(b, X, base, n, step)
<1>1. PICK b \in [0 .. n -> X] : b[0] = base /\ \A k \in 1 .. n : b[k] = step[k][b[k - 1]]
  BY Recursion
<1> QED BY <1>1 DEF Repeats

LEMMA Bindings ==
  ASSUME NEW w, NEW n \in Nat, NEW o, \A k \in 1 .. n : o[k] \in [col : 1 .. w, field : FieldSet]
  PROVE  /\ NoColumns \in Bounds(w)
         /\ \A b \in Bounds(w), k \in 1 .. n : Take(b, o[k]) \in Bounds(w)
         /\ \E b : b \in [0 .. n -> Bounds(w)] /\ Goes(b, n, o)
<1>2. NoColumns \in Bounds(w)
  <2>1. NoColumns \in [{} -> [col : 1 .. w, manual : {FALSE}]] BY DEF NoColumns
  <2>2. {} \in SUBSET FieldSet OBVIOUS
  <2> QED BY <2>1, <2>2 DEF Bounds
<1>3. ASSUME NEW b \in Bounds(w), NEW k \in 1 .. n PROVE Take(b, o[k]) \in Bounds(w)
  <2>5. o[k] \in [col : 1 .. w, field : FieldSet] OBVIOUS
  <2>1. PICK p : p = o[k] /\ p.col \in 1 .. w /\ p.field \in FieldSet BY <2>5
  <2>2. PICK c \in 1 .. w, f \in FieldSet : c = p.col /\ f = p.field BY <2>1
  <2>6. Adds(Bind(b, f, c), b, f, c, w) BY Binding
  <2>3. Bind(b, f, c) \in Bounds(w) BY <2>6 DEF Adds
  <2> QED BY <2>1, <2>2, <2>3 DEF Take
<1>4. PICK X : X = Bounds(w) OBVIOUS
<1>5. PICK step : step = [k \in 1 .. n |-> [b \in X |-> Take(b, o[k])]] OBVIOUS
<1>6. step \in [1 .. n -> [X -> X]] BY <1>3, <1>4, <1>5
<1>7. PICK b \in [0 .. n -> X] : b[0] = NoColumns /\ \A k \in 1 .. n : b[k] = step[k][b[k - 1]]
  <2>1. NoColumns \in X BY <1>2, <1>4
  <2>2. NoColumns \in X /\ n \in Nat /\ step \in [1 .. n -> [X -> X]] BY <1>6, <2>1
  <2>3. PICK b : Repeats(b, X, NoColumns, n, step) BY <2>2, Repeated
  <2> QED BY <2>3 DEF Repeats
<1>8. ASSUME NEW k \in 1 .. n PROVE b[k] = Take(b[k - 1], o[k])
  <2>1. k - 1 \in 0 .. n /\ b[k - 1] \in X BY <1>7
  <2> QED BY <1>5, <1>7, <2>1
<1>9. Goes(b, n, o) BY <1>7, <1>8 DEF Goes
<1> QED BY <1>2, <1>3, <1>4, <1>7, <1>9

Stepped(g, h, o, n, w) == \E b : b \in [0 .. n -> Bounds(w)] /\ Goes(b, n, o) /\ AutoMap(g, h) = b[n]

LEMMA AutoMapGoes ==
  ASSUME NEW g, NEW h, NEW w \in Nat, Width(g) = w, NEW pairs, pairs = Pairings(g, h),
         NEW order, order = {x \in pairs \X pairs : Ahead(g, h, x[1], x[2])},
         NEW o, o = InOrder(pairs, order), NEW n, n = Cardinality(pairs), Ranked(g, h, pairs, o, n)
  PROVE  Stepped(g, h, o, n, w)
<1>20. pairs \in SUBSET [col : 1 .. w, field : FieldSet] BY DEF Pairings
<1>21. n \in Nat /\ o \in [1 .. n -> pairs] BY DEF Ranked
<1> DEFINE Body(b) == b = [k \in 0 .. Cardinality(pairs) |-> IF k = 0 THEN NoColumns ELSE Take(b[k - 1], o[k])]
           bound == CHOOSE b : Body(b)
<1>1. AutoMap(g, h) = bound[Cardinality(pairs)]
  <2> DEFINE P     == Pairings(g, h)
             Ord   == {x \in P \X P : Ahead(g, h, x[1], x[2])}
             Goal(b) == b = [k \in 0 .. Cardinality(P) |->
                               IF k = 0 THEN NoColumns ELSE Take(b[k - 1], InOrder(P, Ord)[k])]
  <2>1. AutoMap(g, h) = (CHOOSE b : Goal(b))[Cardinality(P)] BY DEF AutoMap, Pairings, Ahead, Column, Taken, Take
  <2>2. P = pairs OBVIOUS
  <2> HIDE DEF P
  <2>3. Ord = order BY <2>2
  <2> HIDE DEF Ord
  <2>4. \A b : Goal(b) <=> Body(b) BY <2>2, <2>3
  <2> HIDE DEF Goal, Body
  <2>5. (CHOOSE b : Goal(b)) = (CHOOSE b : Body(b)) BY <2>4
  <2> QED BY <2>1, <2>2, <2>5
<1>2. \A k \in 1 .. n : o[k] \in [col : 1 .. w, field : FieldSet] BY <1>20, <1>21
<1>3. PICK oo : oo = o OBVIOUS
<1>4. /\ NoColumns \in Bounds(w)
      /\ \A b \in Bounds(w), k \in 1 .. n : Take(b, oo[k]) \in Bounds(w)
      /\ \E b : b \in [0 .. n -> Bounds(w)] /\ Goes(b, n, oo)
  <2>1. n \in Nat /\ \A k \in 1 .. n : oo[k] \in [col : 1 .. w, field : FieldSet] BY <1>2, <1>3, <1>21
  <2> QED BY <2>1, Bindings
<1>5. PICK b : b \in [0 .. n -> Bounds(w)] /\ Goes(b, n, o) BY <1>3, <1>4
<1>6. PICK X : X = Bounds(w) OBVIOUS
<1>7. \A k \in 1 .. n : b[k] = Take(b[k - 1], o[k]) BY <1>5 DEF Goes
<1>9. Body(b)
  <2>1. ASSUME NEW k \in 0 .. n PROVE b[k] = IF k = 0 THEN NoColumns ELSE Take(b[k - 1], o[k])
    <3>1. k = 0 \/ k \in 1 .. n BY <1>21
    <3>2. b[0] = NoColumns BY <1>5 DEF Goes
    <3> QED BY <1>7, <3>1, <3>2
  <2>2. b = [k \in 0 .. n |-> b[k]] BY <1>5
  <2> QED BY <2>1, <2>2
<1> HIDE DEF Body
<1>10. Body(bound) BY <1>9
<1> HIDE DEF bound
<1>11. bound = [k \in 0 .. n |-> IF k = 0 THEN NoColumns ELSE Take(bound[k - 1], o[k])] BY <1>10 DEF Body
<1>12. Goes(bound, n, o)
  <2>1. 0 \in 0 .. n BY <1>21
  <2>2. bound[0] = NoColumns BY <1>11, <2>1
  <2>3. ASSUME NEW k \in 1 .. n PROVE bound[k] = Take(bound[k - 1], o[k])
    <3>1. k \in 0 .. n /\ k # 0 BY <1>21
    <3> QED BY <1>11, <3>1
  <2> QED BY <2>2, <2>3 DEF Goes
<1>13. \A k \in 0 .. n : bound[k] \in X
  <2>1. bound[0] \in X BY <1>4, <1>6, <1>12 DEF Goes
  <2>2. ASSUME NEW k \in 1 .. n, bound[k - 1] \in X PROVE bound[k] \in X
    <3>1. bound[k] = Take(bound[k - 1], o[k]) BY <1>12 DEF Goes
    <3> QED BY <1>3, <1>4, <1>6, <2>2, <3>1
  <2>3. PICK f : f = bound OBVIOUS
  <2>4. f[0] \in X /\ \A k \in 1 .. n : f[k - 1] \in X => f[k] \in X BY <2>1, <2>2, <2>3
  <2>5. \A k \in 0 .. n : f[k] \in X BY <1>21, <2>4, StaysIn
  <2> QED BY <2>3, <2>5
<1>14. bound \in [0 .. n -> Bounds(w)]
  <2>1. bound = [k \in 0 .. n |-> bound[k]] BY <1>11
  <2> QED BY <1>6, <1>13, <2>1
<1> QED BY <1>1, <1>12, <1>14 DEF Stepped

\* After k pairings, every one of them was bound, or gave way to one before it.
Greedy(t, k, o) ==
  /\ \A f \in DOMAIN t : \E j \in 1 .. k : o[j].col = t[f].col /\ o[j].field = f
  /\ \A f, e \in DOMAIN t : t[f].col = t[e].col => f = e
  /\ \A j \in 1 .. k : \E f \in DOMAIN t : /\ f = o[j].field \/ t[f].col = o[j].col
                                           /\ \E i \in 1 .. j : o[i].col = t[f].col /\ o[i].field = f

LEMMA OneMorePairing ==
  ASSUME NEW w, NEW t \in Bounds(w), NEW k \in Nat, NEW o, o[k + 1] \in [col : 1 .. w, field : FieldSet],
         Greedy(t, k, o), NEW u, u = Take(t, o[k + 1])
  PROVE  Greedy(u, k + 1, o)
<1>1. PICK p : p = o[k + 1] /\ p.col \in 1 .. w /\ p.field \in FieldSet OBVIOUS
<1>2. /\ \A f \in DOMAIN t : \E j \in 1 .. k : o[j].col = t[f].col /\ o[j].field = f
      /\ \A f, e \in DOMAIN t : t[f].col = t[e].col => f = e
      /\ \A j \in 1 .. k : \E f \in DOMAIN t : /\ f = o[j].field \/ t[f].col = o[j].col
                                               /\ \E i \in 1 .. j : o[i].col = t[f].col /\ o[i].field = f
  BY DEF Greedy
<1>3. \A j \in 1 .. (k + 1) : j \in 1 .. k \/ j = k + 1 OBVIOUS
<1>4. k + 1 \in 1 .. (k + 1) /\ \A j \in 1 .. k : j \in 1 .. (k + 1) OBVIOUS
<1>5. CASE Taken(t, p)
  <2>1. u = t BY <1>1, <1>5 DEF Take
  <2>2. PICK f \in DOMAIN t : f = p.field \/ t[f].col = p.col BY <1>5 DEF Taken
  <2>3. PICK i \in 1 .. k : o[i].col = t[f].col /\ o[i].field = f BY <1>2
  <2>4. ASSUME NEW j \in 1 .. (k + 1)
        PROVE  \E e \in DOMAIN t : /\ e = o[j].field \/ t[e].col = o[j].col
                                   /\ \E l \in 1 .. j : o[l].col = t[e].col /\ o[l].field = e
    <3>1. CASE j \in 1 .. k BY <1>2, <3>1
    <3>2. CASE j = k + 1
      <4>1. i \in 1 .. j BY <3>2
      <4> QED BY <1>1, <2>2, <2>3, <3>2, <4>1
    <3> QED BY <1>3, <3>1, <3>2
  <2>5. \A e \in DOMAIN t : \E j \in 1 .. (k + 1) : o[j].col = t[e].col /\ o[j].field = e BY <1>2, <1>4
  <2>6. Greedy(t, k + 1, o) BY <1>2, <2>4, <2>5, Zenon DEF Greedy
  <2> QED BY <2>1, <2>6
<1>6. CASE ~Taken(t, p)
  <2>1. PICK c \in 1 .. w : c = p.col BY <1>1
  <2>2. PICK x \in FieldSet : x = p.field BY <1>1
  <2>3. u = Bind(t, x, c) BY <1>1, <1>6, <2>1, <2>2 DEF Take
  <2>4. x \notin DOMAIN t /\ \A f \in DOMAIN t : t[f].col # c BY <1>6, <2>1, <2>2 DEF Taken
  <2>9. PICK v : v = Bind(t, x, c) OBVIOUS
  <2>10. /\ v \in Bounds(w) /\ DOMAIN v = (DOMAIN t) \cup {x}
         /\ x \notin DOMAIN t => v[x].col = c
         /\ \A f \in DOMAIN t : v[f] = t[f]
    <3>1. Adds(v, t, x, c, w) BY <2>9, Binding
    <3> QED BY <3>1, Zenon DEF Adds
  <2>5. DOMAIN u = (DOMAIN t) \cup {x} /\ u[x].col = c /\ \A f \in DOMAIN t : u[f] = t[f]
    BY <2>3, <2>4, <2>9, <2>10
  <2>6. ASSUME NEW f \in DOMAIN u PROVE \E j \in 1 .. (k + 1) : o[j].col = u[f].col /\ o[j].field = f
    <3>1. CASE f \in DOMAIN t BY <1>2, <1>4, <2>5, <3>1
    <3>2. CASE f = x BY <1>1, <1>4, <2>1, <2>2, <2>5, <3>2
    <3> QED BY <2>5, <3>1, <3>2
  <2>7. ASSUME NEW f \in DOMAIN u, NEW e \in DOMAIN u, u[f].col = u[e].col PROVE f = e
    <3>1. CASE f \in DOMAIN t /\ e \in DOMAIN t BY <1>2, <2>5, <2>7, <3>1
    <3>2. CASE f = x /\ e = x BY <3>2
    <3>3. CASE f \in DOMAIN t /\ e = x BY <2>4, <2>5, <2>7, <3>3
    <3>4. CASE f = x /\ e \in DOMAIN t BY <2>4, <2>5, <2>7, <3>4
    <3> QED BY <2>5, <3>1, <3>2, <3>3, <3>4
  <2>8. ASSUME NEW j \in 1 .. (k + 1)
        PROVE  \E e \in DOMAIN u : /\ e = o[j].field \/ u[e].col = o[j].col
                                   /\ \E l \in 1 .. j : o[l].col = u[e].col /\ o[l].field = e
    <3>1. CASE j \in 1 .. k
      <4>1. PICK e \in DOMAIN t : /\ e = o[j].field \/ t[e].col = o[j].col
                                  /\ \E l \in 1 .. j : o[l].col = t[e].col /\ o[l].field = e
        BY <1>2, <3>1
      <4>2. e \in DOMAIN u /\ u[e] = t[e] BY <2>5
      <4> QED BY <4>1, <4>2
    <3>2. CASE j = k + 1
      <4>1. j \in 1 .. j BY <3>2
      <4>2. o[j].col = u[x].col /\ o[j].field = x /\ x \in DOMAIN u BY <1>1, <2>1, <2>2, <2>5, <3>2
      <4> QED BY <4>1, <4>2
    <3> QED BY <1>3, <3>1, <3>2
  <2> QED BY <2>6, <2>7, <2>8, Zenon DEF Greedy
<1> QED BY <1>5, <1>6

\* AutoMap's columns resemble their fields, no column has two fields, and whatever
\* else resembles enough gave way to a pairing at least as good.
BestPaired(g, h, b, w) ==
  /\ b \in Bounds(w)
  /\ \A f \in DOMAIN b : Like(g, h, b[f].col, f) >= AutoMapThreshold
  /\ \A f, e \in DOMAIN b : b[f].col = b[e].col => f = e
  /\ \A c \in 1 .. w, f \in FieldSet : Like(g, h, c, f) >= AutoMapThreshold =>
       \E k \in DOMAIN b : (b[k].col = c \/ k = f) /\ Like(g, h, c, f) <= Like(g, h, b[k].col, k)

LEMMA AutoMapIs ==
  ASSUME NEW g, NEW h, NEW w \in Nat, Width(g) = w, \A c \in 1 .. w : g[h][c] \in Texts
  PROVE  BestPaired(g, h, AutoMap(g, h), w)
<1>1. PICK pairs : pairs = Pairings(g, h) OBVIOUS
<1>2. PICK order : order = {x \in pairs \X pairs : Ahead(g, h, x[1], x[2])} OBVIOUS
<1>3. PICK o, n : o = InOrder(pairs, order) /\ n = Cardinality(pairs) OBVIOUS
<1>4. Ranked(g, h, pairs, o, n)
  <2>1. Ranked(g, h, pairs, InOrder(pairs, order), Cardinality(pairs)) BY <1>1, <1>2, PairingsRank
  <2> QED BY <1>3, <2>1
<1>5. pairs \in SUBSET [col : 1 .. w, field : FieldSet] BY <1>1 DEF Pairings
<1>6. PICK b : b \in [0 .. n -> Bounds(w)] /\ Goes(b, n, o) /\ AutoMap(g, h) = b[n]
  <2>1. Stepped(g, h, o, n, w) BY <1>1, <1>2, <1>3, <1>4, AutoMapGoes
  <2> QED BY <2>1 DEF Stepped
<1>15. /\ n \in Nat /\ o \in [1 .. n -> pairs] /\ \A p \in pairs : \E k \in 1 .. n : o[k] = p
       /\ \A i, k \in 1 .. n : i < k => Like(g, h, o[k].col, o[k].field) <= Like(g, h, o[i].col, o[i].field)
  BY <1>4 DEF Ranked
<1>7. \A k \in 0 .. n : Greedy(b[k], k, o)
  <2>1. PICK P : P = {k \in 0 .. n : Greedy(b[k], k, o)} OBVIOUS
  <2>2. 0 \in P
    <3>1. b[0] = NoColumns BY <1>6 DEF Goes
    <3>2. DOMAIN b[0] = {} BY <3>1 DEF NoColumns
    <3>3. Greedy(b[0], 0, o) BY <3>2 DEF Greedy
    <3> QED BY <1>15, <2>1, <3>3
  <2>3. ASSUME NEW k \in 0 .. (n - 1), k \in P PROVE k + 1 \in P
    <3>1. k + 1 \in 1 .. n /\ (k + 1) - 1 = k /\ k \in Nat /\ k \in 0 .. n /\ k + 1 \in 0 .. n BY <1>15
    <3>2. b[k + 1] = Take(b[k], o[k + 1]) BY <1>6, <3>1 DEF Goes
    <3>3. b[k] \in Bounds(w) BY <1>6, <3>1
    <3>4. o[k + 1] \in [col : 1 .. w, field : FieldSet] BY <1>15, <1>5, <3>1
    <3>5. Greedy(b[k], k, o) BY <2>1, <2>3
    <3>6. PICK t, u : t = b[k] /\ u = b[k + 1] OBVIOUS
    <3>7. Greedy(u, k + 1, o) BY <3>1, <3>2, <3>3, <3>4, <3>5, <3>6, OneMorePairing
    <3> QED BY <2>1, <3>1, <3>6, <3>7
  <2>4. P \in SUBSET (0 .. n) BY <2>1
  <2>5. P = 0 .. n BY <1>15, <2>2, <2>3, <2>4, UpTo
  <2> QED BY <2>1, <2>5
<1>8. PICK t : t = b[n] OBVIOUS
<1>9. n \in 0 .. n BY <1>15
<1>10. t \in Bounds(w) /\ Greedy(t, n, o) BY <1>6, <1>7, <1>8, <1>9
<1>11. ASSUME NEW f \in DOMAIN t PROVE Like(g, h, t[f].col, f) >= AutoMapThreshold
  <2>1. PICK j \in 1 .. n : o[j].col = t[f].col /\ o[j].field = f BY <1>10 DEF Greedy
  <2>2. o[j] \in pairs BY <1>15
  <2>3. FieldLike[g[h][o[j].col]][o[j].field] >= AutoMapThreshold BY <1>1, <2>2 DEF Pairings
  <2> QED BY <2>1, <2>3 DEF Like
<1>12. ASSUME NEW c \in 1 .. w, NEW f \in FieldSet, Like(g, h, c, f) >= AutoMapThreshold
       PROVE  \E k \in DOMAIN t : (t[k].col = c \/ k = f) /\ Like(g, h, c, f) <= Like(g, h, t[k].col, k)
  <2>1. PICK p : p = [col |-> c, field |-> f] OBVIOUS
  <2>2. p.col = c /\ p.field = f /\ p \in [col : 1 .. w, field : FieldSet] BY <2>1
  <2>3. p \in pairs BY <1>1, <1>12, <2>2 DEF Pairings, Like
  <2>4. PICK j \in 1 .. n : o[j] = p BY <1>15, <2>3
  <2>5. PICK k \in DOMAIN t : /\ k = o[j].field \/ t[k].col = o[j].col
                              /\ \E i \in 1 .. j : o[i].col = t[k].col /\ o[i].field = k
    BY <1>10 DEF Greedy
  <2>6. PICK i \in 1 .. j : o[i].col = t[k].col /\ o[i].field = k BY <2>5
  <2>7. Like(g, h, c, f) \in Nat
    <3>1. FieldLike[g[h][c]] \in [FieldSet -> 0 .. 100] BY LikeAssumption
    <3>2. FieldLike[g[h][c]][f] \in 0 .. 100 BY <3>1
    <3> QED BY <3>2 DEF Like
  <2>8. Like(g, h, c, f) <= Like(g, h, t[k].col, k)
    <3>1. CASE i = j
      <4>1. t[k].col = c /\ k = f BY <2>2, <2>4, <2>6, <3>1
      <4> QED BY <2>7, <4>1
    <3>2. CASE i # j
      <4>1. i \in 1 .. n /\ i < j BY <1>15, <3>2
      <4>2. Like(g, h, o[j].col, o[j].field) <= Like(g, h, o[i].col, o[i].field) BY <1>15, <4>1
      <4> QED BY <2>2, <2>4, <2>6, <4>2
    <3> QED BY <3>1, <3>2
  <2> QED BY <2>2, <2>4, <2>5, <2>8
<1>13. \A f, e \in DOMAIN t : t[f].col = t[e].col => f = e BY <1>10 DEF Greedy
<1>14. BestPaired(g, h, t, w) BY <1>10, <1>11, <1>12, <1>13, Zenon DEF BestPaired
<1> QED BY <1>6, <1>8, <1>14

(***************************************************************************)
(* Whatever happens, what is stored, sent and returned says texts.         *)
(***************************************************************************)
\* What is written in place of a question says texts too.
LEMMA SameTexted ==
  ASSUME NEW q, TextQuestion(q), NEW text \in Texts, NEW st
  PROVE  /\ TextQuestion(Texted(q, text, st)) /\ TextQuestion(Drafted(q, text, st))
         /\ TextQuestion(Moved(q, st)) /\ TextQuestion(Revised(q, text, st))
         /\ TextQuestion([q EXCEPT !.values.answer = text])
         /\ text # Blank => TextQuestion([q EXCEPT !.values.question = text])
<1>1. PICK id, row, position, values, domain, draft, final, status :
        q = [id |-> id, row |-> row, position |-> position, values |-> values, domain |-> domain,
             draft |-> draft, final |-> final, status |-> status]
  BY DEF TextQuestion, IsRow
<1> DEFINE Kept(v, a, f, s) ==
      [id |-> id, row |-> row, position |-> position, values |-> v, domain |-> domain,
       draft |-> a, final |-> f, status |-> s]
<1>2. values \in [FieldSet -> Texts] /\ values.question # Blank /\ draft \in Texts /\ final \in Texts /\ domain \in DomainSet
  BY <1>1 DEF TextQuestion, TextValues
<1>3. ASSUME NEW v \in [FieldSet -> Texts], v.question # Blank, NEW a \in Texts, NEW f \in Texts, NEW s
      PROVE  TextQuestion(Kept(v, a, f, s))
  <2>1. PICK x : x = Kept(v, a, f, s) OBVIOUS
  <2>2. IsRow(x) BY <2>1, Zenon DEF IsRow
  <2>3. x.values = v /\ x.draft = a /\ x.final = f /\ x.domain = domain BY <2>1
  <2>4. TextQuestion(x) BY <1>2, <1>3, <2>2, <2>3 DEF TextQuestion, TextValues
  <2> HIDE DEF Kept
  <2> QED BY <2>1, <2>4
<1>4. PICK v : v = [values EXCEPT !.answer = text] OBVIOUS
<1>5. PICK w : w = [values EXCEPT !.question = text] OBVIOUS
<1>6. v \in [FieldSet -> Texts] /\ v.question # Blank BY <1>2, <1>4, FieldsAssumption
<1>7. w \in [FieldSet -> Texts] /\ w.question = text BY <1>2, <1>5, FieldsAssumption
<1>8. Texted(q, text, st) = Kept(values, draft, text, st)
  <2>1. PICK x : x = [q EXCEPT !.final = text] OBVIOUS
  <2>2. x = Kept(values, draft, text, status) BY <1>1, <2>1
  <2>3. [x EXCEPT !.status = st] = Kept(values, draft, text, st) BY <2>2
  <2> HIDE DEF Kept
  <2> QED BY <2>1, <2>3 DEF Texted
<1>9. Drafted(q, text, st) = Kept(values, text, final, st)
  <2>1. PICK x : x = [q EXCEPT !.draft = text] OBVIOUS
  <2>2. x = Kept(values, text, final, status) BY <1>1, <2>1
  <2>3. [x EXCEPT !.status = st] = Kept(values, text, final, st) BY <2>2
  <2> HIDE DEF Kept
  <2> QED BY <2>1, <2>3 DEF Drafted
<1>10. Moved(q, st) = Kept(values, draft, final, st) BY <1>1 DEF Moved
<1>11. Revised(q, text, st) = Kept(v, draft, final, st)
  <2>1. PICK x : x = [q EXCEPT !.values = v] OBVIOUS
  <2>2. x = Kept(v, draft, final, status) BY <1>1, <2>1
  <2>3. [x EXCEPT !.status = st] = Kept(v, draft, final, st) BY <2>2
  <2>4. q.values = values BY <1>1
  <2> HIDE DEF Kept
  <2> QED BY <1>4, <2>1, <2>3, <2>4 DEF Revised
<1>12. [q EXCEPT !.values.answer = text] = Kept(v, draft, final, status) BY <1>1, <1>4
<1>13. [q EXCEPT !.values.question = text] = Kept(w, draft, final, status) BY <1>1, <1>5
<1> HIDE DEF Kept
<1>14. text # Blank => TextQuestion(Kept(w, draft, final, status)) BY <1>2, <1>3, <1>7
<1> QED BY <1>2, <1>3, <1>6, <1>8, <1>9, <1>10, <1>11, <1>12, <1>13, <1>14

\* So do the questions of a sheet of texts, as they are ingested.
LEMMA NewTexted ==
  ASSUME NEW m, NEW asked, NEW override, NEW i, TextValues(asked[i].values), DomainFor(asked, override, i) \in DomainSet
  PROVE  TextQuestion(NewQuestion(m, asked, override, i))
<1>1. PICK x : x = NewQuestion(m, asked, override, i) OBVIOUS
<1>2. IsRow(x) BY <1>1, Zenon DEF NewQuestion, IsRow
<1>3. x.values = asked[i].values /\ x.draft = asked[i].values.feedback /\ x.final = Blank
      /\ x.domain = DomainFor(asked, override, i)
  BY <1>1 DEF NewQuestion
<1>4. asked[i].values.feedback \in Texts BY FieldsAssumption DEF TextValues
<1> QED BY <1>1, <1>2, <1>3, <1>4, LikeAssumption DEF TextQuestion

LEMMA SignOffTexted ==
  ASSUME Rows, \A q \in questions : TextQuestion(q), SignOffStep
  PROVE  (\A q \in questions' : TextQuestion(q)) /\ UNCHANGED <<upload, sent, returned>>
<1>1. ASSUME NEW id \in Ids, NEW new, Rewrite(id, new), TextQuestion(Question(id)) => TextQuestion(new)
      PROVE  \A q \in questions' : TextQuestion(q)
  <2>1. Question(id) \in questions BY ById
  <2>2. questions' = (questions \ {Question(id)}) \cup {new} BY <1>1 DEF Rewrite
  <2> QED BY <1>1, <2>1, <2>2
<1>2. CASE ApplyDraft
  <2> DEFINE New(q) == [q EXCEPT !.draft = Said, !.status = IF @ = "finalized" THEN @ ELSE "ai_drafted"]
  <2>1. questions' = {New(q) : q \in questions} /\ UNCHANGED <<upload, sent, returned>> BY <1>2 DEF ApplyDraft
  <2>2. ASSUME NEW q \in questions PROVE TextQuestion(New(q))
    <3>1. PICK st : st = IF q.status = "finalized" THEN q.status ELSE "ai_drafted" OBVIOUS
    <3>2. New(q) = Drafted(q, Said, st) BY <3>1 DEF Drafted
    <3>3. Said \in Texts BY WordsAssumption
    <3>4. TextQuestion(Drafted(q, Said, st)) BY <3>3, SameTexted
    <3> HIDE DEF New
    <3> QED BY <3>2, <3>4
  <2> HIDE DEF New
  <2> QED BY <2>1, <2>2
<1>3. ASSUME NEW id \in Ids, NEW text \in Texts, Finalize(id, text)
      PROVE  (\A q \in questions' : TextQuestion(q)) /\ UNCHANGED <<upload, sent, returned>>
  <2>1. Rewrite(id, Texted(Question(id), text, "finalized")) /\ UNCHANGED <<upload, sent, returned>>
    BY <1>3 DEF Finalize, Texted
  <2>2. PICK q : q = Question(id) OBVIOUS
  <2>3. TextQuestion(q) => TextQuestion(Texted(q, text, "finalized")) BY SameTexted
  <2> QED BY <1>1, <2>1, <2>2, <2>3
<1>4. ASSUME NEW id \in Ids, Unfinalize(id)
      PROVE  (\A q \in questions' : TextQuestion(q)) /\ UNCHANGED <<upload, sent, returned>>
  <2>1. PICK st : st = IF Question(id).draft = Blank THEN "pending" ELSE "ai_drafted" OBVIOUS
  <2>2. Rewrite(id, Moved(Question(id), st)) /\ UNCHANGED <<upload, sent, returned>>
    BY <1>4, <2>1 DEF Unfinalize, Moved
  <2>3. PICK q : q = Question(id) OBVIOUS
  <2>4. TextQuestion(q) => TextQuestion(Moved(q, st)) BY SameTexted, LikeAssumption
  <2> QED BY <1>1, <2>2, <2>3, <2>4
<1>5. ApplyDraft \/ \E id \in Ids : Finalize(id, Own) \/ Finalize(id, Question(id).draft) \/ Unfinalize(id)
  BY DEF SignOffStep
<1>6. ASSUME NEW id \in Ids, Finalize(id, Own) \/ Finalize(id, Question(id).draft) \/ Unfinalize(id)
      PROVE  (\A q \in questions' : TextQuestion(q)) /\ UNCHANGED <<upload, sent, returned>>
  <2>1. Own \in Texts BY WordsAssumption
  <2>2. Question(id).draft \in Texts
    <3>1. Question(id) \in questions BY ById
    <3> QED BY <3>1 DEF TextQuestion
  <2> QED BY <1>3, <1>4, <1>6, <2>1, <2>2
<1> QED BY <1>2, <1>5, <1>6

\* The answers on the page of revised answers are texts.
TextRows(rows) == \A i \in DOMAIN rows : rows[i].answer \in Texts

LEMMA RevisionTexted ==
  ASSUME \A q \in questions : TextQuestion(q), TextRows(returned.rows),
         NEW ids \in SUBSET Checked, ApplyAnswerRevisions(ids)
  PROVE  (\A q \in questions' : TextQuestion(q)) /\ UNCHANGED <<upload, sent>> /\ returned' = NoRevisions
<1> DEFINE new(id) == (CHOOSE row \in ToSet(returned.rows) : row.id = id).answer
           hit(q)  == q.id \in ids /\ new(q.id) # Blank /\ new(q.id) # q.values.answer
           New(q)  == IF hit(q) THEN ReviseAnswer(q, new(q.id)) ELSE q
<1>1. questions' = {New(q) : q \in questions} BY Zenon DEF ApplyAnswerRevisions
<1>2. UNCHANGED <<upload, sent>> /\ returned' = NoRevisions BY DEF ApplyAnswerRevisions
<1>3. \A id : new(id) = Row(id).answer BY Zenon DEF Row
<1>4. \A q : hit(q) => q.id \in ids OBVIOUS
<1> HIDE DEF new, hit
<1>5. ASSUME NEW id \in ids PROVE Row(id).answer \in Texts
  <2>1. PICK rows : rows = returned.rows OBVIOUS
  <2>2. \E i \in DOMAIN rows : rows[i].id = id BY <2>1, Zenon DEF Checked
  <2>3. \E row \in ToSet(rows) : row.id = id BY <2>2 DEF ToSet
  <2>4. Row(id) \in ToSet(rows) BY <2>1, <2>3, Zenon DEF Row
  <2>5. PICK i \in DOMAIN rows : Row(id) = rows[i] BY <2>4 DEF ToSet
  <2> QED BY <2>1, <2>5 DEF TextRows
<1>6. ASSUME NEW q \in questions PROVE TextQuestion(New(q))
  <2>1. CASE hit(q)
    <3>1. PICK text : text = new(q.id) OBVIOUS
    <3>2. text \in Texts BY <1>3, <1>4, <1>5, <2>1, <3>1
    <3>3. New(q) = Revised(q, text, "pending") BY <2>1, <3>1 DEF ReviseAnswer, Revised
    <3> HIDE DEF New
    <3>4. TextQuestion(Revised(q, text, "pending")) BY <3>2, SameTexted
    <3> QED BY <3>3, <3>4
  <2>2. CASE ~hit(q)
    <3>1. New(q) = q BY <2>2
    <3> HIDE DEF New
    <3> QED BY <3>1
  <2> QED BY <2>1, <2>2
<1> HIDE DEF New
<1> QED BY <1>1, <1>2, <1>6

\* What a mapping stores.
LEMMA IngestTexted ==
  ASSUME Pages, TextBook(upload.book), NEW r, NEW d, d \in DomainSet \/ r = 0, ConfirmMapping(r, d)
  PROVE  (\A q \in questions' : TextQuestion(q)) /\ upload'.book = upload.book /\ UNCHANGED <<sent, returned>>
<1>1. PICK grid, bound, override :
        /\ grid = GridFor(page.sheet) /\ bound = MappingFromForm(page.columns, Preview(page.sheet))
        /\ override = DomainOverrides(r, d) /\ Ingest(grid, bound, override)
  BY DEF ConfirmMapping
<1>2. PICK asked : asked = QuestionRows(DetectSections(grid.rows, page.header, bound).rows) OBVIOUS
<1>3. questions' = {NewQuestion(mapped + 1, asked, override, i) : i \in DOMAIN asked} BY <1>1, <1>2, Ingesting
<1>4. page.open /\ UNCHANGED <<sent, returned>> /\ upload' = [upload EXCEPT !.sheet = grid.sheet] BY <1>1 DEF Ingest
<1>5. \A i \in DOMAIN override : override[i] \in DomainSet BY <1>1, <1>4, Overrides
<1>6. IsGrid(grid.rows) /\ page.header \in Nat BY <1>1, GridsFor DEF Pages
<1>7. PICK n \in Nat : AreAsked(asked, n) BY <1>2, <1>6, AskedAre
<1>8. DOMAIN asked = 1 .. n /\ \A k \in 1 .. n : asked[k].domain \in DomainSet
  <2>1. asked = [k \in 1 .. n |-> asked[k]] BY <1>7 DEF AreAsked
  <2>2. \A k \in 1 .. n : asked[k].domain \in DomainSet BY <1>7 DEF AreAsked
  <2> QED BY <2>1, <2>2
<1>9. TextGrid(grid.rows)
  <2>1. IsBook(upload.book) BY DEF Pages, Readable
  <2> QED BY <1>1, <2>1, TextsRead DEF GridFor
<1>10. \A k \in DOMAIN asked : TextValues(asked[k].values)
  <2>1. PICK g, h, det : g = grid.rows /\ h = page.header /\ det = DetectSections(g, h, bound) OBVIOUS
  <2>2. \A k \in DOMAIN QuestionRows(det.rows) : TextValues(QuestionRows(det.rows)[k].values)
    BY <1>6, <1>9, <2>1, TextsAsked
  <2> QED BY <1>2, <2>1, <2>2
<1>11. ASSUME NEW i \in DOMAIN asked PROVE TextQuestion(NewQuestion(mapped + 1, asked, override, i))
  <2>1. DomainFor(asked, override, i) \in DomainSet BY <1>5, <1>8, <1>11 DEF DomainFor
  <2> QED BY <1>10, <2>1, NewTexted
<1>12. upload'.book = upload.book
  <2>1. upload = [book |-> upload.book, sheet |-> upload.sheet] BY DEF Pages
  <2> QED BY <1>4, <2>1
<1> QED BY <1>3, <1>4, <1>11, <1>12

\* A list of n questions is a list.
LEMMA ListIs ==
  ASSUME NEW n \in Nat, NEW list, TextList(list, n)
  PROVE  /\ \E S : list \in Seq(S) /\ list \in [1 .. n -> S] /\ \A q \in S : TextQuestion(q)
         /\ DOMAIN list = 1 .. n /\ Len(list) = n
<1>1. list = [i \in 1 .. n |-> list[i]] /\ \A i \in 1 .. n : TextQuestion(list[i]) BY DEF TextList
<1>2. PICK S : S = {list[i] : i \in 1 .. n} OBVIOUS
<1>3. \A q \in S : TextQuestion(q) BY <1>1, <1>2
<1>4. \A i \in 1 .. n : list[i] \in S BY <1>2
<1>5. list \in [1 .. n -> S] BY <1>1, <1>4
<1>6. list \in Seq(S) /\ DOMAIN list = 1 .. n /\ Len(list) = n BY <1>5
<1> QED BY <1>3, <1>5, <1>6

LEMMA IsList ==
  ASSUME NEW S, NEW list \in Seq(S), \A q \in S : TextQuestion(q)
  PROVE  \E n \in Nat : TextList(list, n)
<1>1. PICK n \in Nat : list \in [1 .. n -> S] OBVIOUS
<1>2. list = [i \in 1 .. n |-> list[i]] /\ \A i \in 1 .. n : TextQuestion(list[i]) BY <1>1
<1> QED BY <1>2 DEF TextList

\* What comes back from the vendor still asks something, and says texts.
LEMMA EditedTexted ==
  ASSUME NEW n \in Nat, NEW sheet, TextList(sheet, n), NEW list \in Edits(sheet)
  PROVE  \E k \in Nat : TextList(list, k)
<1>1. PICK S : sheet \in Seq(S) /\ sheet \in [1 .. n -> S] /\ \A q \in S : TextQuestion(q) BY ListIs
<1>2. DOMAIN sheet = 1 .. n /\ Len(sheet) = n BY ListIs
<1>3. \/ list = sheet \/ list = Reverse(sheet)
      \/ \E i \in 1 .. n : list = RemoveAt(sheet, i)
      \/ \E i \in 1 .. n : list = InsertAt(sheet, i, sheet[i])
      \/ \E i \in 1 .. n : \E text \in {Blank, Own} : list = Answered(sheet, i, text)
      \/ \E i \in 1 .. n : \E text \in Reworded[sheet[i].values.question] : list = Rephrased(sheet, i, text)
  <2>1. \/ list = sheet \/ list = Reverse(sheet)
        \/ \E i \in DOMAIN sheet : list = RemoveAt(sheet, i)
        \/ \E i \in DOMAIN sheet : list = InsertAt(sheet, i, sheet[i])
        \/ \E i \in DOMAIN sheet : \E text \in {Blank, Own} : list = Answered(sheet, i, text)
        \/ \E i \in DOMAIN sheet : \E text \in Reworded[sheet[i].values.question] : list = Rephrased(sheet, i, text)
    BY SMT DEF Edits
  <2> QED BY <1>2, <2>1, Zenon
<1>4. CASE list = sheet BY <1>4
<1>5. CASE list = Reverse(sheet)
  <2>1. list = [i \in 1 .. n |-> sheet[(n - i) + 1]] BY <1>2, <1>5 DEF Reverse
  <2>2. \A i \in 1 .. n : (n - i) + 1 \in 1 .. n OBVIOUS
  <2>3. list \in [1 .. n -> S] BY <1>1, <2>1, <2>2
  <2>4. list \in Seq(S) BY <2>3
  <2> QED BY <1>1, <2>4, IsList
<1>6. CASE \E i \in 1 .. n : list = RemoveAt(sheet, i)
  <2>1. PICK i \in 1 .. n : list = SubSeq(sheet, 1, i - 1) \o SubSeq(sheet, i + 1, Len(sheet)) BY <1>6 DEF RemoveAt
  <2>2. PICK a, b : a = SubSeq(sheet, 1, i - 1) /\ b = SubSeq(sheet, i + 1, Len(sheet)) OBVIOUS
  <2>3. a \in Seq(S) /\ b \in Seq(S) BY <1>1, <1>2, <2>2
  <2>4. list \in Seq(S) BY <2>1, <2>2, <2>3
  <2> QED BY <1>1, <2>4, IsList
<1>7. CASE \E i \in 1 .. n : list = InsertAt(sheet, i, sheet[i])
  <2>1. PICK i \in 1 .. n : list = SubSeq(sheet, 1, i - 1) \o <<sheet[i]>> \o SubSeq(sheet, i, Len(sheet))
    BY <1>7 DEF InsertAt
  <2>2. PICK a, b, c : a = SubSeq(sheet, 1, i - 1) /\ b = <<sheet[i]>> /\ c = SubSeq(sheet, i, Len(sheet))
    OBVIOUS
  <2>3. a \in Seq(S) /\ b \in Seq(S) /\ c \in Seq(S) BY <1>1, <1>2, <2>2
  <2>4. (a \o b) \in Seq(S) BY <2>3
  <2>5. list \in Seq(S) BY <2>1, <2>2, <2>3, <2>4
  <2> QED BY <1>1, <2>5, IsList
<1>8. ASSUME NEW i \in 1 .. n, NEW new, list = [sheet EXCEPT ![i] = new], TextQuestion(new)
      PROVE  \E k \in Nat : TextList(list, k)
  <2>1. list \in [1 .. n -> S \cup {new}] BY <1>1, <1>8
  <2>2. \A q \in S \cup {new} : TextQuestion(q) BY <1>1, <1>8
  <2>3. list \in Seq(S \cup {new}) BY <2>1
  <2>4. PICK T : T = S \cup {new} OBVIOUS
  <2> QED BY <2>2, <2>3, <2>4, IsList
<1>9. CASE \E i \in 1 .. n : \E text \in {Blank, Own} : list = Answered(sheet, i, text)
  <2>1. PICK i \in 1 .. n : \E text \in {Blank, Own} : list = Answered(sheet, i, text) BY <1>9
  <2>2. PICK text \in {Blank, Own} : list = [sheet EXCEPT ![i].values.answer = text] BY <2>1 DEF Answered
  <2>3. PICK q, new : q = sheet[i] /\ new = [q EXCEPT !.values.answer = text] OBVIOUS
  <2>4. list = [sheet EXCEPT ![i] = new] BY <2>2, <2>3
  <2>5. text \in Texts BY LikeAssumption, WordsAssumption
  <2>6. TextQuestion(q) BY <1>1, <2>3
  <2>7. TextQuestion([q EXCEPT !.values.answer = text]) BY <2>5, <2>6, SameTexted
  <2> QED BY <1>8, <2>3, <2>4, <2>7
<1>10. CASE \E i \in 1 .. n : \E text \in Reworded[sheet[i].values.question] : list = Rephrased(sheet, i, text)
  <2>1. PICK i \in 1 .. n : \E text \in Reworded[sheet[i].values.question] : list = Rephrased(sheet, i, text)
    BY <1>10
  <2>2. PICK q : q = sheet[i] OBVIOUS
  <2>3. TextQuestion(q) BY <1>1, <2>2
  <2>4. q.values.question \in Texts BY <2>3, FieldsAssumption DEF TextQuestion, TextValues
  <2>5. PICK text \in Reworded[q.values.question] : list = [sheet EXCEPT ![i].values.question = text]
    BY <2>1, <2>2 DEF Rephrased
  <2>6. text \in Texts /\ text # Blank BY <2>4, <2>5, WordsAssumption
  <2>7. PICK new : new = [q EXCEPT !.values.question = text] OBVIOUS
  <2>8. list = [sheet EXCEPT ![i] = new] BY <2>2, <2>5, <2>7
  <2>9. TextQuestion([q EXCEPT !.values.question = text]) BY <2>3, <2>6, SameTexted
  <2> QED BY <1>8, <2>7, <2>8, <2>9
<1> QED BY <1>3, <1>4, <1>5, <1>6, <1>7, <1>9, <1>10

\* The questions of a file of texts say texts.
LEMMA ReturningTexts ==
  ASSUME NEW book, Readable(book), TextBook(book)
  PROVE  \A k \in DOMAIN Returning(book) : TextValues(Returning(book)[k].values)
<1>1. PICK grid, h, p : grid = ReadGrid(book) /\ h = DetectHeaderRow(grid.rows) /\ p = PreviewGrid(grid) OBVIOUS
<1>2. IsBook(book) BY DEF Readable
<1>3. IsGrid(grid.rows) /\ TextGrid(grid.rows) BY <1>1, <1>2, GridsRead, TextsRead
<1>4. h \in Nat BY <1>1, <1>3, HeaderRow
<1>5. FoundOrNone(p.rows, p.sections, grid.rows, h) BY <1>1, GuessFound DEF PreviewGrid
<1>6. CASE p.rows = <<>>
  <2>1. PICK P : P = {i \in DOMAIN <<>> : <<>>[i].kind = "question"} OBVIOUS
  <2>2. P = {} /\ <<>> \in Seq({}) BY <2>1
  <2>3. P \in SUBSET DOMAIN <<>> /\ Cardinality(P) = 0 BY <2>2, FS_EmptySet
  <2>4. Sublist(<<>>, P) \in Seq({}) /\ Len(Sublist(<<>>, P)) = 0 BY <2>2, <2>3, SublistPlaces
  <2>5. DOMAIN QuestionRows(<<>>) = {} BY <2>1, <2>4 DEF QuestionRows
  <2> QED BY <1>1, <1>6, <2>5 DEF Returning
<1>7. CASE p.rows # <<>>
  <2>1. PICK bound : p.rows = DetectSections(grid.rows, h, bound).rows BY <1>5, <1>7 DEF FoundOrNone
  <2>2. PICK g, d : g = grid.rows /\ d = DetectSections(g, h, bound) OBVIOUS
  <2>3. \A k \in DOMAIN QuestionRows(d.rows) : TextValues(QuestionRows(d.rows)[k].values)
    BY <1>3, <1>4, <2>2, TextsAsked
  <2> QED BY <1>1, <2>1, <2>2, <2>3 DEF Returning
<1> QED BY <1>6, <1>7

\* So the answers offered are texts.
LEMMA AnswersTexted ==
  ASSUME NEW list, NEW asked, NEW n, NEW r, Paired(list, asked, r, n), DOMAIN asked = 1 .. n,
         \A k \in 1 .. n : TextValues(asked[k].values)
  PROVE  TextRows(r.rows)
<1>1. PICK m, from, who : Pairs(list, asked, r.rows, m, from, who, n) BY DEF Paired
<1>2. PICK rows : rows = r.rows OBVIOUS
<1>3. /\ m \in Nat /\ rows = [i \in 1 .. m |-> rows[i]] /\ from \in [1 .. m -> 1 .. n]
      /\ \A i \in 1 .. m : rows[i] = Revision(list[who[i]], asked[from[i]])
  BY <1>1, <1>2 DEF Pairs
<1>4. DOMAIN rows = 1 .. m BY <1>3
<1>5. ASSUME NEW i \in 1 .. m PROVE rows[i].answer \in Texts
  <2>1. PICK row, q : row = asked[from[i]] /\ q = list[who[i]] OBVIOUS
  <2>2. TextValues(row.values) BY <1>3, <2>1
  <2>3. rows[i] = Revision(q, row) BY <1>3, <2>1
  <2>4. Revision(q, row).answer = row.values.answer BY DEF Revision
  <2>5. row.values.answer \in Texts BY <2>2, FieldsAssumption DEF TextValues
  <2> QED BY <2>3, <2>4, <2>5
<1> QED BY <1>2, <1>4, <1>5 DEF TextRows

\* The file, the questions, what was sent and what came back say texts.
Worded ==
  /\ TextBook(upload.book)
  /\ \A q \in questions : TextQuestion(q)
  /\ \E n \in Nat : TextList(sent, n)
  /\ TextRows(returned.rows)

LEMMA InitWorded == Init => Worded
<1> SUFFICES ASSUME Init PROVE Worded OBVIOUS
<1>1. PICK book \in Books : upload = Stored(book) BY DEF Init
<1>2. upload.book = book BY <1>1 DEF Stored
<1>3. TextBook(book)
  <2>1. ASSUME NEW i \in DOMAIN book.sheets PROVE TextGrid(book.sheets[i].rows)
    <3>1. book.sheets[i].rows \in Seq(Seq(Texts)) BY BooksAssumption
    <3>2. PICK rows : rows = book.sheets[i].rows OBVIOUS
    <3>3. \A r \in DOMAIN rows : rows[r] \in Seq(Texts) BY <3>1, <3>2
    <3>4. TextGrid(rows) BY <3>3 DEF TextGrid
    <3> QED BY <3>2, <3>4
  <2> QED BY <2>1 DEF TextBook
<1>4. questions = {} /\ sent = <<>> /\ returned.rows = <<>> BY DEF Init, NoRevisions
<1>5. TextList(<<>>, 0) BY DEF TextList
<1>6. TextRows(<<>>) BY DEF TextRows
<1> QED BY <1>2, <1>3, <1>4, <1>5, <1>6 DEF Worded

LEMMA NextWorded == Rows /\ Pages /\ AsMapped /\ Finite /\ Worded /\ [Next]_vars => Worded'
<1> SUFFICES ASSUME Rows, Pages, AsMapped, Finite, Worded, [Next]_vars PROVE Worded' OBVIOUS
<1>1. /\ TextBook(upload.book) /\ TextRows(returned.rows) /\ \A q \in questions : TextQuestion(q)
      /\ \E n \in Nat : TextList(sent, n)
  BY DEF Worded
<1>2. TextRows(NoRevisions.rows) /\ TextList(<<>>, 0)
  <2>1. NoRevisions.rows = <<>> BY DEF NoRevisions
  <2> QED BY <2>1 DEF TextRows, TextList
<1>3. ASSUME upload'.book = upload.book, sent' = sent, \A q \in questions' : TextQuestion(q),
             returned' = returned \/ returned' = NoRevisions
      PROVE  Worded'
  <2>1. TextBook(upload'.book) BY <1>1, <1>3
  <2>2. TextRows(returned'.rows) BY <1>1, <1>2, <1>3
  <2>3. \E n \in Nat : TextList(sent', n) BY <1>1, <1>3
  <2> QED BY <1>3, <2>1, <2>2, <2>3 DEF Worded
<1>4. ASSUME NEW r, NEW d, d \in DomainSet \/ r = 0, ConfirmMapping(r, d) PROVE Worded'
  <2>1. (\A q \in questions' : TextQuestion(q)) /\ upload'.book = upload.book /\ UNCHANGED <<sent, returned>>
    BY <1>1, <1>4, IngestTexted
  <2> QED BY <1>3, <2>1
<1>5. CASE MapStep
  <2>1. ConfirmMapping(0, NoDomain) => Worded' BY <1>4
  <2>2. \A i \in DOMAIN Shown, d \in DomainSet : ConfirmMapping(Shown[i].index, d) => Worded' BY <1>4
  <2>3. \A sheet : MappingPage(sheet) => UNCHANGED <<upload, questions, sent, returned>> BY Zenon DEF MappingPage
  <2>4. \A c, f : RepreviewMapping(c, f) => UNCHANGED <<upload, questions, sent, returned>>
    BY Zenon DEF RepreviewMapping
  <2>5. UNCHANGED <<upload, questions, sent, returned>> => Worded' BY <1>1, <1>3
  <2> QED BY <1>5, <2>1, <2>2, <2>3, <2>4, <2>5, Zenon DEF MapStep
<1>6. CASE SignOffStep
  <2>1. (\A q \in questions' : TextQuestion(q)) /\ UNCHANGED <<upload, sent, returned>> BY <1>1, <1>6, SignOffTexted
  <2> QED BY <1>3, <2>1
<1>7. CASE ReturnStep
  <2>1. CASE Export
    <3>1. sent' = ListForReview(questions) /\ UNCHANGED <<upload, questions, returned>> BY <2>1 DEF Export
    <3>2. PICK Q, s : Q = questions /\ s = sent' OBVIOUS
    <3>3. PICK n \in Nat : s \in [1 .. n -> Q] BY <3>1, <3>2, ListOf
    <3>4. s \in Seq(Q) /\ \A q \in Q : TextQuestion(q) BY <1>1, <3>2, <3>3
    <3>5. \E k \in Nat : TextList(s, k) BY <3>4, IsList
    <3> QED BY <1>1, <3>1, <3>2, <3>5 DEF Worded
  <2>2. CASE UploadAnswerRevisions
    <3>1. PICK shown, list : /\ shown = ListForReview(questions) /\ list \in Edits(sent)
                             /\ returned' = PreviewAnswerRevisions(shown, ExportXLSX(list))
                             /\ UNCHANGED <<upload, questions, sent>>
      BY <2>2, Zenon DEF UploadAnswerRevisions
    <3>2. PICK n \in Nat : TextList(sent, n) BY <1>1
    <3>3. PICK was : was = sent OBVIOUS
    <3>4. PICK l \in Nat : TextList(list, l) BY <3>1, <3>2, <3>3, EditedTexted
    <3>5. PICK T : list \in Seq(T) BY <3>4, ListIs
    <3>6. PICK book, r, asked : book = ExportXLSX(list) /\ r = returned' /\ asked = Returning(book) OBVIOUS
    <3>7. Readable(book) /\ TextBook(book) BY <3>4, <3>5, <3>6, ReturnedBook, ExportedTexts
    <3>8. r = PreviewAnswerRevisions(shown, book) BY <3>1, <3>6
    <3>9. r = NoRevisions \/ \E m \in Nat : \E f : AreAsked(asked, m) /\ Shows(r, f, shown, asked, m)
      BY <3>6, <3>7, <3>8, RevisionsShown
    <3>10. \A k \in DOMAIN asked : TextValues(asked[k].values) BY <3>6, <3>7, ReturningTexts
    <3>11. ASSUME NEW m \in Nat, NEW f, AreAsked(asked, m), Shows(r, f, shown, asked, m) PROVE TextRows(r.rows)
      <4>1. PICK x \in Nat : shown \in [1 .. x -> questions] BY <3>1, ListOf
      <4>2. shown \in Seq(questions) BY <4>1
      <4>3. Paired(shown, asked, r, m) BY <3>11, <4>2, RevisionsPaired
      <4>4. DOMAIN asked = 1 .. m
        <5>1. asked = [k \in 1 .. m |-> asked[k]] BY <3>11 DEF AreAsked
        <5> QED BY <5>1
      <4>5. \A k \in 1 .. m : TextValues(asked[k].values) BY <3>10, <4>4
      <4> QED BY <4>3, <4>4, <4>5, AnswersTexted
    <3>12. TextRows(r.rows) BY <1>2, <3>9, <3>11
    <3> QED BY <1>1, <3>1, <3>6, <3>12 DEF Worded
  <2>3. CASE Upload
    <3>1. upload' = Stored(ExportXLSX(sent)) /\ questions' = {} /\ sent' = <<>> /\ returned' = NoRevisions
      BY <2>3 DEF Upload
    <3>2. upload'.book = ExportXLSX(sent) BY <3>1 DEF Stored
    <3>3. PICK n \in Nat : TextList(sent, n) BY <1>1
    <3>4. PICK was : was = sent OBVIOUS
    <3>5. TextBook(ExportXLSX(was)) BY <3>3, <3>4, ExportedTexts
    <3> QED BY <1>2, <3>1, <3>2, <3>4, <3>5 DEF Worded
  <2>4. CASE \E ids \in SUBSET Checked : ApplyAnswerRevisions(ids)
    <3>1. PICK ids \in SUBSET Checked : ApplyAnswerRevisions(ids) BY <2>4
    <3>2. (\A q \in questions' : TextQuestion(q)) /\ UNCHANGED <<upload, sent>> /\ returned' = NoRevisions
      BY <1>1, <3>1, RevisionTexted
    <3> QED BY <1>3, <3>2
  <2> QED BY <1>7, <2>1, <2>2, <2>3, <2>4, Zenon DEF ReturnStep
<1>8. CASE UNCHANGED vars BY <1>1, <1>3, <1>8 DEF vars
<1> QED BY <1>5, <1>6, <1>7, <1>8 DEF Next

(***************************************************************************)
(* The guesses                                                             *)
(***************************************************************************)
\* A header is guessed on the sheet, and a question column too, if any.
LEMMA Guessed ==
  ASSUME NEW g, IsGrid(g), g # <<>>
  PROVE  \E w \in Nat : /\ Width(g) = w /\ DetectHeaderRow(g) \in DOMAIN g
                        /\ \A h : FallbackQuestionColumn(g, h) \in 0 .. w
                        /\ \A r \in DOMAIN g : DOMAIN g[r] = 1 .. w
<1>1. PICK X : \E w \in Nat : g \in Seq([1 .. w -> X]) BY DEF IsGrid
<1>2. PICK w \in Nat : g \in Seq([1 .. w -> X]) BY <1>1
<1>3. PICK n \in Nat : g \in [1 .. n -> [1 .. w -> X]] BY <1>2
<1>4. n > 0
  <2>1. g \in Seq([1 .. w -> X]) /\ Len(g) = n BY <1>2, <1>3
  <2>2. Len(g) # 0 BY <1>2
  <2> QED BY <2>1, <2>2
<1>5. 1 \in 1 .. n /\ DOMAIN g = 1 .. n /\ \A r \in 1 .. n : DOMAIN g[r] = 1 .. w BY <1>3, <1>4
<1>6. Width(g) = w
  <2>1. PICK row : row = g[1] OBVIOUS
  <2>2. row \in [1 .. w -> X] BY <1>3, <1>5, <2>1
  <2>3. Len(row) = w BY <2>2
  <2> QED BY <2>1, <2>3 DEF Width
<1>7. DetectHeaderRow(g) \in DOMAIN g
  <2> DEFINE near == {r \in DOMAIN g : r <= HeaderScanRows /\ ScoreHeaderRow(g[r]) > 0}
             best == {r \in near : \A s \in near : ScoreHeaderRow(g[s]) <= ScoreHeaderRow(g[r])}
  <2>1. best \in SUBSET (1 .. n) BY <1>5
  <2>2. DetectHeaderRow(g) = IF best = {} THEN 1 ELSE Min(best) BY DEF DetectHeaderRow
  <2> HIDE DEF best
  <2>3. ASSUME best # {} PROVE Min(best) \in 1 .. n
    <3>1. best \in SUBSET Nat BY <2>1
    <3> QED BY <2>1, <2>3, <3>1, MinIs
  <2> QED BY <1>5, <2>2, <2>3
<1>8. ASSUME NEW h PROVE FallbackQuestionColumn(g, h) \in 0 .. w
  <2> DEFINE wordy == {c \in 1 .. Width(g) : ProseScore(g, h, c) > 0}
             best  == {c \in wordy : \A d \in wordy : ProseScore(g, h, d) <= ProseScore(g, h, c)}
  <2>1. FallbackQuestionColumn(g, h) = IF best = {} THEN 0 ELSE Min(best) BY DEF FallbackQuestionColumn
  <2>2. best \in SUBSET (1 .. w) BY <1>6
  <2> HIDE DEF best
  <2>3. PICK S : S = best OBVIOUS
  <2>4. S \in SUBSET (1 .. w) /\ S \in SUBSET Nat BY <2>2, <2>3
  <2>5. S # {} => Min(S) \in S BY <2>4, MinIs
  <2>6. FallbackQuestionColumn(g, h) = IF S = {} THEN 0 ELSE Min(S) BY <2>1, <2>3, Zenon
  <2>7. \A x \in S : x \in 0 .. w BY <2>4
  <2>8. 0 \in 0 .. w OBVIOUS
  <2> QED BY <2>5, <2>6, <2>7, <2>8, Zenon
<1> QED BY <1>5, <1>6, <1>7, <1>8

\* The dropdowns show the columns bound, and nothing else.
Dropdowns(columns, b, w) ==
  /\ DOMAIN columns = 1 .. w
  /\ \A f \in DOMAIN b : b[f].col \in 1 .. w /\ columns[b[f].col] = f /\ f # Blank
  /\ \A c \in 1 .. w : columns[c] # Blank => columns[c] \in DOMAIN b /\ b[columns[c]].col = c

LEMMA SyncShows ==
  ASSUME NEW g, NEW h, NEW b, NEW w \in Nat, Width(g) = w, BestPaired(g, h, b, w)
  PROVE  Dropdowns(SyncCandidates(g, b), b, w) /\ DOMAIN b \subseteq FieldSet
<1>1. b \in Bounds(w) /\ \A f, e \in DOMAIN b : b[f].col = b[e].col => f = e BY DEF BestPaired
<1>2. PICK D : D \in SUBSET FieldSet /\ b \in [D -> [col : 1 .. w, manual : {FALSE}]] BY <1>1 DEF Bounds
<1>3. DOMAIN b \subseteq FieldSet /\ \A f \in DOMAIN b : b[f].col \in 1 .. w /\ f # Blank
  BY <1>2, FieldsAssumption
<1>4. PICK columns : columns = SyncCandidates(g, b) OBVIOUS
<1> DEFINE on(c) == CHOOSE f \in DOMAIN b : b[f].col = c
<1>5. columns = [c \in 1 .. w |-> IF \E f \in DOMAIN b : b[f].col = c THEN on(c) ELSE Blank]
  BY <1>4 DEF SyncCandidates
<1>6. ASSUME NEW c \in 1 .. w, NEW f \in DOMAIN b, b[f].col = c PROVE on(c) = f
  <2>1. on(c) \in DOMAIN b /\ b[on(c)].col = c BY <1>6
  <2> HIDE DEF on
  <2> QED BY <1>1, <1>6, <2>1
<1> HIDE DEF on
<1>7. ASSUME NEW f \in DOMAIN b PROVE columns[b[f].col] = f
  <2>1. PICK c : c = b[f].col /\ c \in 1 .. w BY <1>3
  <2>2. on(c) = f BY <1>6, <2>1
  <2> QED BY <1>5, <2>1, <2>2
<1>8. ASSUME NEW c \in 1 .. w, columns[c] # Blank PROVE columns[c] \in DOMAIN b /\ b[columns[c]].col = c
  <2>1. PICK f \in DOMAIN b : b[f].col = c BY <1>5, <1>8
  <2>2. columns[c] = f BY <1>7, <2>1
  <2> QED BY <2>1, <2>2
<1>9. DOMAIN columns = 1 .. w BY <1>5
<1> QED BY <1>3, <1>4, <1>7, <1>8, <1>9 DEF Dropdowns

\* The dropdowns are the best there are.
BestShown(g, h, columns) ==
  /\ NoFieldTwice(columns)
  /\ \A c \in DOMAIN columns, f \in FieldSet : Like(g, h, c, f) >= AutoMapThreshold =>
       \E x \in Chosen(columns) : LET k == columns[x] IN
         \/ (x = c \/ k = f) /\ (k = "question" \/ Like(g, h, x, k) >= Like(g, h, c, f))
         \/ k = "question" /\ Like(g, h, x, f) >= Like(g, h, c, f)

LEMMA BestGuess ==
  ASSUME NEW grid, NEW h, NEW w \in Nat, Width(grid.rows) = w, \A c \in 1 .. w : grid.rows[h][c] \in Texts,
         NEW auto, BestPaired(grid.rows, h, auto, w), NEW guess \in 0 .. w,
         NEW p, p = Guess(grid, h, auto, guess)
  PROVE  BestShown(grid.rows, h, p.columns)
<1>1. PICK g : g = grid.rows OBVIOUS
<1>2. PICK sync : sync = SyncCandidates(g, auto) OBVIOUS
<1>3. Dropdowns(sync, auto, w) /\ DOMAIN auto \subseteq FieldSet BY <1>1, <1>2, SyncShows
<1>4. /\ DOMAIN sync = 1 .. w
      /\ \A f \in DOMAIN auto : auto[f].col \in 1 .. w /\ sync[auto[f].col] = f /\ f # Blank
      /\ \A c \in 1 .. w : sync[c] # Blank => sync[c] \in DOMAIN auto /\ auto[sync[c]].col = c
  BY <1>3 DEF Dropdowns
<1>5. \A c \in 1 .. w, f \in FieldSet : Like(g, h, c, f) \in Nat
  <2> TAKE c \in 1 .. w, f \in FieldSet
  <2>1. PICK t \in Texts : t = g[h][c] BY <1>1
  <2>2. FieldLike[t][f] \in 0 .. 100 BY LikeAssumption
  <2> QED BY <2>1, <2>2 DEF Like
<1>6. \A c \in 1 .. w, f \in FieldSet : Like(g, h, c, f) >= AutoMapThreshold =>
        \E k \in DOMAIN auto : (auto[k].col = c \/ k = f) /\ Like(g, h, c, f) <= Like(g, h, auto[k].col, k)
  BY <1>1 DEF BestPaired
<1>7. PICK columns : columns = IF "question" \in DOMAIN auto \/ guess = 0 THEN sync ELSE [sync EXCEPT ![guess] = "question"]
  OBVIOUS
<1>8. p.columns = columns BY <1>1, <1>2, <1>7 DEF Guess
<1>9. DOMAIN columns = 1 .. w BY <1>4, <1>7
<1>10. "question" # Blank BY FieldsAssumption
<1>11. CASE "question" \in DOMAIN auto \/ guess = 0
  <2>1. columns = sync BY <1>7, <1>11
  <2>2. ASSUME NEW c \in Chosen(columns), NEW d \in Chosen(columns), columns[c] = columns[d] PROVE c = d
    BY <1>4, <2>1, <2>2 DEF Chosen
  <2>3. ASSUME NEW c \in 1 .. w, NEW f \in FieldSet, Like(g, h, c, f) >= AutoMapThreshold
        PROVE  \E x \in Chosen(columns) : (x = c \/ columns[x] = f) /\ Like(g, h, x, columns[x]) >= Like(g, h, c, f)
    <3>1. PICK k \in DOMAIN auto : (auto[k].col = c \/ k = f) /\ Like(g, h, c, f) <= Like(g, h, auto[k].col, k)
      BY <1>6, <2>3
    <3>2. PICK x : x = auto[k].col OBVIOUS
    <3>3. x \in 1 .. w /\ columns[x] = k /\ k # Blank BY <1>4, <2>1, <3>2
    <3>4. x \in Chosen(columns) BY <1>9, <3>3 DEF Chosen
    <3>5. Like(g, h, c, f) \in Nat /\ Like(g, h, x, k) \in Nat BY <1>3, <1>5, <3>3
    <3>6. Like(g, h, x, k) >= Like(g, h, c, f) BY <3>1, <3>2, <3>5
    <3> QED BY <3>1, <3>2, <3>3, <3>4, <3>6
  <2> QED BY <1>1, <1>8, <1>9, <2>2, <2>3 DEF BestShown, NoFieldTwice
<1>12. CASE ~("question" \in DOMAIN auto \/ guess = 0)
  <2>1. guess \in 1 .. w /\ "question" \notin DOMAIN auto BY <1>12
  <2>2. columns = [sync EXCEPT ![guess] = "question"] BY <1>7, <1>12
  <2>3. columns[guess] = "question" /\ \A c \in 1 .. w : c # guess => columns[c] = sync[c] BY <1>4, <2>1, <2>2
  <2>4. ASSUME NEW c \in Chosen(columns), NEW d \in Chosen(columns), columns[c] = columns[d] PROVE c = d
    <3>1. c \in 1 .. w /\ d \in 1 .. w /\ columns[c] # Blank /\ columns[d] # Blank BY <1>9 DEF Chosen
    <3>2. \A x \in 1 .. w : x # guess /\ columns[x] # Blank => columns[x] # "question" BY <1>4, <2>1, <2>3
    <3>3. CASE c = guess \/ d = guess BY <2>3, <2>4, <3>1, <3>2, <3>3
    <3>4. CASE c # guess /\ d # guess BY <1>4, <2>3, <2>4, <3>1, <3>4
    <3> QED BY <3>3, <3>4
  <2>5. guess \in Chosen(columns) BY <1>9, <1>10, <2>1, <2>3 DEF Chosen
  <2>6. ASSUME NEW c \in 1 .. w, NEW f \in FieldSet, Like(g, h, c, f) >= AutoMapThreshold
        PROVE  \E x \in Chosen(columns) :
                 \/ (x = c \/ columns[x] = f) /\ (columns[x] = "question" \/ Like(g, h, x, columns[x]) >= Like(g, h, c, f))
                 \/ columns[x] = "question" /\ Like(g, h, x, f) >= Like(g, h, c, f)
    <3>1. PICK k \in DOMAIN auto : (auto[k].col = c \/ k = f) /\ Like(g, h, c, f) <= Like(g, h, auto[k].col, k)
      BY <1>6, <2>6
    <3>2. PICK x : x = auto[k].col OBVIOUS
    <3>3. x \in 1 .. w /\ sync[x] = k /\ k # Blank BY <1>4, <3>2
    <3>4. Like(g, h, c, f) \in Nat /\ Like(g, h, x, k) \in Nat BY <1>3, <1>5, <3>3
    <3>5. Like(g, h, x, k) >= Like(g, h, c, f) BY <3>1, <3>2, <3>4
    <3>6. CASE x # guess
      <4>1. columns[x] = k BY <2>3, <3>3, <3>6
      <4>2. x \in Chosen(columns) BY <1>9, <3>3, <4>1 DEF Chosen
      <4> QED BY <3>1, <3>2, <3>5, <4>1, <4>2
    <3>7. CASE x = guess
      <4>1. CASE x = c BY <2>3, <2>5, <3>7, <4>1
      <4>2. CASE k = f BY <2>3, <2>5, <3>5, <3>7, <4>2
      <4> QED BY <3>1, <3>2, <4>1, <4>2
    <3> QED BY <3>6, <3>7
  <2> QED BY <1>1, <1>8, <1>9, <2>4, <2>6 DEF BestShown, NoFieldTwice
<1> QED BY <1>11, <1>12

\* The page opens on them.
LEMMA OpensGuessed ==
  ASSUME Pages, TextBook(upload.book), mapping = None, page'.open, NEW sheet, MappingPage(sheet)
  PROVE  BestShown(GridFor(page'.sheet).rows, page'.header, page'.columns)
<1>1. PICK grid : grid = GridFor(IF sheet = Blank THEN upload.sheet ELSE sheet) OBVIOUS
<1>2. grid.rows # <<>>
  <2>1. CASE grid.rows = <<>>
    <3>1. page' = NoPage BY <1>1, <2>1 DEF MappingPage
    <3> QED BY <3>1, NoPageIs
  <2> QED BY <2>1
<1>3. PICK g, h : g = grid.rows /\ h = DetectHeaderRow(grid.rows) OBVIOUS
<1>4. PICK auto, guess : auto = AutoMap(g, h) /\ guess = FallbackQuestionColumn(g, h) OBVIOUS
<1>5. PICK p : p = Guess(grid, h, auto, guess) OBVIOUS
<1>6. p = PreviewGrid(grid) BY <1>3, <1>4, <1>5 DEF PreviewGrid
<1>7. page' = PageOf(p)
  <2>1. AsConfirmed(p) = p BY DEF AsConfirmed
  <2> QED BY <1>1, <1>2, <1>6, <2>1 DEF MappingPage, Preview
<1>8. Readable(upload.book) /\ IsBook(upload.book) BY DEF Pages, Readable
<1>9. IsGrid(g) /\ TextGrid(g) BY <1>1, <1>3, <1>8, GridsFor, TextsRead DEF GridFor
<1>10. PICK w \in Nat : /\ Width(g) = w /\ h \in DOMAIN g /\ guess \in 0 .. w /\ DOMAIN g[h] = 1 .. w
  BY <1>2, <1>3, <1>4, <1>9, Guessed
<1>11. \A c \in 1 .. w : g[h][c] \in Texts BY <1>9, <1>10 DEF TextGrid
<1>12. BestPaired(g, h, auto, w) BY <1>4, <1>10, <1>11, AutoMapIs
<1>13. BestShown(g, h, p.columns)
  <2>1. BestShown(grid.rows, h, p.columns) BY <1>3, <1>5, <1>10, <1>11, <1>12, BestGuess
  <2> QED BY <1>3, <2>1
<1>14. p.grid = grid /\ p.header = h BY <1>5, GuessFound
<1>15. GridFor(grid.sheet) = grid BY <1>1, <1>2, <1>8, GridAgain
<1>16. page'.sheet = grid.sheet /\ page'.header = h /\ page'.columns = p.columns BY <1>7, <1>14 DEF PageOf
<1> QED BY <1>3, <1>13, <1>15, <1>16

\* When nothing was confirmed before, the page opens on the best guesses there are,
\* for every sheet and however much its titles resemble the fields.
THEOREM BestGuesses == Spec => GuessesAreTheBest
<1> DEFINE Inv  == Rows /\ Pages /\ AsMapped /\ Finite /\ Worded
           Best == mapping = None /\ page'.open /\ ~page.open =>
                     LET g == GridFor(page'.sheet).rows
                         like(c, f) == FieldLike[g[page'.header][c]][f]
                     IN  /\ NoFieldTwice(page'.columns)
                         /\ \A c \in DOMAIN page'.columns, f \in FieldSet : like(c, f) >= AutoMapThreshold =>
                              \E x \in Chosen(page'.columns) : LET k == page'.columns[x] IN
                                \/ (x = c \/ k = f) /\ (k = "question" \/ like(x, k) >= like(c, f))
                                \/ k = "question" /\ like(x, f) >= like(c, f)
<1>1. Init => Inv BY InitRows, InitPages, InitAsMapped, InitWorded
<1>2. Inv /\ [Next]_vars => Inv' BY NextRows, NextPages, NextAsMapped, NextWorded
<1>3. Inv /\ [Next]_vars => Best
  <2> SUFFICES ASSUME Inv, [Next]_vars, mapping = None, page'.open, ~page.open PROVE Best OBVIOUS
  <2>1. (\E sheet : MappingPage(sheet)) \/ page' = page \/ page' = NoPage
    <3>1. CASE MapStep
      <4>1. \A c, f : ~RepreviewMapping(c, f) BY DEF RepreviewMapping
      <4>2. \A r, d : ~ConfirmMapping(r, d) BY DEF ConfirmMapping, Ingest
      <4> QED BY <3>1, <4>1, <4>2, Zenon DEF MapStep
    <3>2. CASE SignOffStep
      <4>1. ApplyDraft => page' = page BY DEF ApplyDraft
      <4>2. \A id, text : Finalize(id, text) => page' = page BY DEF Finalize
      <4>3. \A id : Unfinalize(id) => page' = page BY DEF Unfinalize
      <4> QED BY <3>2, <4>1, <4>2, <4>3, Zenon DEF SignOffStep
    <3>3. CASE ReturnStep
      <4>1. Export => page' = page BY DEF Export
      <4>2. UploadAnswerRevisions => page' = page BY DEF UploadAnswerRevisions
      <4>3. \A ids : ApplyAnswerRevisions(ids) => page' = page BY DEF ApplyAnswerRevisions
      <4>4. Upload => page' = NoPage BY DEF Upload
      <4> QED BY <3>3, <4>1, <4>2, <4>3, <4>4, Zenon DEF ReturnStep
    <3>4. CASE UNCHANGED vars BY <3>4 DEF vars
    <3> QED BY <3>1, <3>2, <3>3, <3>4 DEF Next
  <2>2. PICK sheet : MappingPage(sheet) BY <2>1, NoPageIs
  <2>3. BestShown(GridFor(page'.sheet).rows, page'.header, page'.columns)
    BY <2>2, OpensGuessed DEF Worded
  <2> QED BY <2>3, Zenon DEF BestShown, Like
<1> HIDE DEF Inv
<1>4. [Best]_vars <=> (Best \/ UNCHANGED vars) OBVIOUS
<1>5. Spec => [][Best]_vars
  <2>1. Inv /\ [Next]_vars => [Best]_vars BY <1>3
  <2> HIDE DEF Best
  <2> QED BY <1>1, <1>2, <2>1, PTL DEF Spec
<1>6. [][Best]_vars => GuessesAreTheBest BY Zenon DEF GuessesAreTheBest
<1> QED BY <1>5, <1>6

(***************************************************************************)
(* The exported workbook is read back.                                     *)
(***************************************************************************)
\* A text matches a field up to 100 percent.
LEMMA Matches ==
  ASSUME NEW t \in Texts
  PROVE  MatchField(t) \in 0 .. 100 /\ \A f \in FieldSet : FieldLike[t][f] <= MatchField(t)
<1>1. PICK S : S = {FieldLike[t][f] : f \in FieldSet} OBVIOUS
<1>2. FieldLike[t] \in [FieldSet -> 0 .. 100] BY LikeAssumption
<1>3. \A f \in FieldSet : FieldLike[t][f] \in 0 .. 100 /\ FieldLike[t][f] \in S BY <1>1, <1>2
<1>4. S \in SUBSET Nat /\ S # {} /\ \A n \in S : n <= 100
  <2>1. "question" \in FieldSet BY FieldsAssumption
  <2>2. S # {} BY <1>3, <2>1
  <2> QED BY <1>1, <1>3, <2>2
<1>5. Max(S) \in S /\ \A n \in S : n <= Max(S) BY <1>4, MaxIs
<1>6. MatchField(t) = Max(S) BY <1>1 DEF MatchField
<1> QED BY <1>1, <1>3, <1>5, <1>6

\* A row of m cells scores up to m times that.
TextRow(row, m)      == row \in [1 .. m -> Texts]
MatchesFully(row, m) == \A c \in 1 .. m : MatchField(row[c]) = 100

LEMMA Scores ==
  ASSUME NEW m \in Nat, NEW row, TextRow(row, m)
  PROVE  /\ ScoreHeaderRow(row) \in Nat /\ ScoreHeaderRow(row) <= 100 * m
         /\ MatchesFully(row, m) => ScoreHeaderRow(row) = 100 * m
<1> DEFINE score(c) == IF MatchField(row[c]) >= AutoMapThreshold THEN MatchField(row[c]) ELSE 0
           Body(f)  == f = [c \in 0 .. Len(row) |-> IF c = 0 THEN 0 ELSE f[c - 1] + score(c)]
           total    == CHOOSE f : Body(f)
<1>1. ScoreHeaderRow(row) = total[Len(row)] BY DEF ScoreHeaderRow
<1>2. Len(row) = m BY DEF TextRow
<1>3. PICK s : s = [c \in 1 .. m |-> score(c)] OBVIOUS
<1>4. \A c \in 1 .. m : s[c] \in 0 .. 100
  <2> TAKE c \in 1 .. m
  <2>1. row[c] \in Texts BY DEF TextRow
  <2>2. MatchField(row[c]) \in 0 .. 100 BY <2>1, Matches
  <2> QED BY <1>3, <2>2
<1>22. MatchesFully(row, m) => \A c \in 1 .. m : s[c] = 100
  BY <1>3 DEF MatchesFully, AutoMapThreshold
<1>5. \A f : Body(f) <=> f = [c \in 0 .. m |-> IF c = 0 THEN 0 ELSE f[c - 1] + s[c]]
  <2>1. \A c \in 0 .. m : c # 0 => c \in 1 .. m OBVIOUS
  <2>2. \A f : [c \in 0 .. m |-> IF c = 0 THEN 0 ELSE f[c - 1] + score(c)]
               = [c \in 0 .. m |-> IF c = 0 THEN 0 ELSE f[c - 1] + s[c]]
    BY <1>3, <2>1
  <2> QED BY <1>2, <2>2
<1> HIDE DEF Body
<1>6. PICK step : step = [c \in 1 .. m |-> [x \in Nat |-> x + s[c]]] OBVIOUS
<1>7. step \in [1 .. m -> [Nat -> Nat]]
  <2>1. ASSUME NEW c \in 1 .. m, NEW x \in Nat PROVE x + s[c] \in Nat
    <3>1. s[c] \in 0 .. 100 BY <1>4
    <3> QED BY <3>1
  <2>2. \A c \in 1 .. m : [x \in Nat |-> x + s[c]] \in [Nat -> Nat] BY <2>1
  <2> QED BY <1>6, <2>2
<1>8. PICK f : Repeats(f, Nat, 0, m, step)
  <2>1. 0 \in Nat /\ m \in Nat /\ step \in [1 .. m -> [Nat -> Nat]] BY <1>7
  <2> QED BY <2>1, Repeated
<1>9. f \in [0 .. m -> Nat] /\ f[0] = 0 /\ \A k \in 1 .. m : f[k] = f[k - 1] + s[k]
  <2>1. f \in [0 .. m -> Nat] /\ f[0] = 0 /\ \A k \in 1 .. m : f[k] = step[k][f[k - 1]] BY <1>8 DEF Repeats
  <2>2. \A k \in 1 .. m : k - 1 \in 0 .. m /\ f[k - 1] \in Nat BY <2>1
  <2> QED BY <1>6, <2>1, <2>2
<1>10. Body(f)
  <2>1. f = [k \in 0 .. m |-> f[k]] BY <1>9
  <2>2. \A k \in 0 .. m : f[k] = IF k = 0 THEN 0 ELSE f[k - 1] + s[k] BY <1>9
  <2>3. f = [c \in 0 .. m |-> IF c = 0 THEN 0 ELSE f[c - 1] + s[c]] BY <2>1, <2>2
  <2> QED BY <1>5, <2>3
<1>11. Body(total) BY <1>10
<1> HIDE DEF total
<1>12. PICK g : g = total OBVIOUS
<1>13. g[0] = 0 /\ \A k \in 1 .. m : g[k] = g[k - 1] + s[k]
  <2>1. g = [c \in 0 .. m |-> IF c = 0 THEN 0 ELSE g[c - 1] + s[c]] BY <1>5, <1>11, <1>12
  <2>2. \A k \in 0 .. m : g[k] = IF k = 0 THEN 0 ELSE g[k - 1] + s[k] BY <2>1
  <2>3. 0 \in 0 .. m OBVIOUS
  <2> QED BY <2>2, <2>3
<1>14. PICK top : top = IF MatchesFully(row, m) THEN 100 ELSE 0 OBVIOUS
<1>15. PICK P : P = {k \in 0 .. m : g[k] \in Nat /\ g[k] <= 100 * k /\ top * k <= g[k]} OBVIOUS
<1>23. \A c \in 1 .. m : s[c] \in Nat /\ s[c] <= 100 /\ top <= s[c]
  <2>1. CASE MatchesFully(row, m) BY <1>4, <1>14, <1>22, <2>1
  <2>2. CASE ~MatchesFully(row, m)
    <3> TAKE c \in 1 .. m
    <3>1. top = 0 BY <1>14, <2>2
    <3>2. s[c] \in 0 .. 100 BY <1>4
    <3> QED BY <3>1, <3>2
  <2> QED BY <2>1, <2>2
<1>24. top = 100 \/ top = 0 BY <1>14
<1>16. P \in SUBSET (0 .. m) /\ 0 \in P BY <1>13, <1>15, <1>24
<1>17. ASSUME NEW k \in 0 .. (m - 1), k \in P PROVE k + 1 \in P
  <2>1. k + 1 \in 1 .. m /\ (k + 1) - 1 = k OBVIOUS
  <2>2. g[k + 1] = g[k] + s[k + 1] BY <1>13, <2>1
  <2>3. g[k] \in Nat /\ g[k] <= 100 * k /\ top * k <= g[k] BY <1>15, <1>17
  <2>4. s[k + 1] \in Nat /\ s[k + 1] <= 100 /\ top <= s[k + 1] BY <1>23, <2>1
  <2>5. PICK x, y \in Nat : x = g[k] /\ y = s[k + 1] BY <2>3, <2>4
  <2>6. x + y \in Nat /\ x + y <= 100 * (k + 1) BY <2>3, <2>4, <2>5
  <2>7. top * (k + 1) <= x + y
    <3>1. CASE top = 100 BY <2>3, <2>4, <2>5, <3>1
    <3>2. CASE top = 0 BY <2>3, <2>4, <2>5, <3>2
    <3> QED BY <1>24, <3>1, <3>2
  <2>8. g[k + 1] = x + y /\ k + 1 \in 0 .. m BY <2>2, <2>5
  <2> QED BY <1>15, <2>6, <2>7, <2>8
<1>18. P = 0 .. m BY <1>16, <1>17, UpTo
<1>19. m \in P BY <1>18
<1>20. g[m] \in Nat /\ g[m] <= 100 * m /\ top * m <= g[m] BY <1>15, <1>19
<1>21. ScoreHeaderRow(row) = g[m] BY <1>1, <1>2, <1>12
<1>25. ASSUME MatchesFully(row, m) PROVE g[m] = 100 * m
  <2>1. top = 100 BY <1>14, <1>25
  <2> QED BY <1>20, <2>1
<1> QED BY <1>20, <1>21, <1>25

\* The titles are found: no row scores higher, and they come first.
LEMMA TitlesFirst ==
  ASSUME NEW a \in Nat, a >= 1, NEW m \in Nat, DOMAIN Fields = 1 .. m, m > 0,
         NEW g \in [1 .. a -> [1 .. m -> Texts]], g[1] = Titles
  PROVE  DetectHeaderRow(g) = 1
<1>1. \A c \in 1 .. m : Titles[c] = Label[Fields[c]] /\ Fields[c] \in FieldSet BY DEF Titles, FieldSet
<1>2. ASSUME NEW c \in 1 .. m PROVE MatchField(Titles[c]) = 100
  <2>1. PICK f, t : f = Fields[c] /\ t = Label[f] OBVIOUS
  <2>2. f \in FieldSet /\ t \in Texts /\ Titles[c] = t BY <1>1, <2>1, TitlesAssumption
  <2>3. FieldLike[t][f] = 100 BY <2>1, <2>2, TitlesAssumption
  <2>4. MatchField(t) \in 0 .. 100 /\ FieldLike[t][f] <= MatchField(t) BY <2>2, Matches
  <2>5. PICK x : x = MatchField(t) OBVIOUS
  <2>6. 100 <= x /\ x \in 0 .. 100 BY <2>3, <2>4, <2>5
  <2>7. x = 100 BY <2>6
  <2> QED BY <2>2, <2>5, <2>7
<1>3. 1 \in 1 .. a /\ Titles \in [1 .. m -> Texts]
  <2>1. 1 \in 1 .. a OBVIOUS
  <2>2. g[1] \in [1 .. m -> Texts] BY <2>1
  <2> QED BY <2>1, <2>2
<1>4. ScoreHeaderRow(g[1]) = 100 * m
  <2>1. PICK row \in [1 .. m -> Texts] : row = Titles BY <1>3
  <2>2. MatchesFully(row, m) BY <1>2, <2>1 DEF MatchesFully
  <2>4. TextRow(row, m) BY DEF TextRow
  <2>3. ScoreHeaderRow(row) = 100 * m BY <2>2, <2>4, Scores
  <2> QED BY <1>3, <2>1, <2>3
<1>5. \A r \in 1 .. a : ScoreHeaderRow(g[r]) \in Nat /\ ScoreHeaderRow(g[r]) <= 100 * m
  <2> TAKE r \in 1 .. a
  <2>1. PICK row \in [1 .. m -> Texts] : row = g[r] OBVIOUS
  <2>3. TextRow(row, m) BY DEF TextRow
  <2>2. ScoreHeaderRow(row) \in Nat /\ ScoreHeaderRow(row) <= 100 * m BY <2>3, Scores
  <2> QED BY <2>1, <2>2
<1> DEFINE near == {r \in DOMAIN g : r <= HeaderScanRows /\ ScoreHeaderRow(g[r]) > 0}
           best == {r \in near : \A s \in near : ScoreHeaderRow(g[s]) <= ScoreHeaderRow(g[r])}
<1>6. DetectHeaderRow(g) = IF best = {} THEN 1 ELSE Min(best) BY DEF DetectHeaderRow
<1>7. 1 \in near
  <2>1. 1 <= HeaderScanRows BY HeaderAssumption
  <2>2. ScoreHeaderRow(g[1]) > 0 BY <1>4
  <2> QED BY <1>3, <2>1, <2>2
<1>8. 1 \in best
  <2>1. \A s \in near : ScoreHeaderRow(g[s]) <= ScoreHeaderRow(g[1]) BY <1>4, <1>5
  <2> QED BY <1>7, <2>1
<1>9. \A r \in best : r \in Nat /\ 1 <= r OBVIOUS
<1> HIDE DEF best
<1>10. PICK S : S = best OBVIOUS
<1>11. S \in SUBSET Nat /\ S # {} /\ 1 \in S /\ \A r \in S : r \in Nat /\ 1 <= r BY <1>8, <1>9, <1>10
<1>12. Min(S) \in S /\ \A r \in S : Min(S) <= r BY <1>11, MinIs
<1>13. Min(S) = 1
  <2>1. PICK x \in Nat : x = Min(S) /\ 1 <= x BY <1>11, <1>12
  <2>2. x <= 1 BY <1>11, <1>12, <2>1
  <2> QED BY <2>1, <2>2
<1> QED BY <1>6, <1>10, <1>11, <1>13

\* Every field is read from the column of its title.
OwnColumns(b, m) == \A c \in 1 .. m : Fields[c] \in DOMAIN b /\ b[Fields[c]].col = c

LEMMA TitlesMap ==
  ASSUME NEW m \in Nat, DOMAIN Fields = 1 .. m, Titles \in [1 .. m -> Texts],
         NEW g, Width(g) = m, g[1] = Titles
  PROVE  OwnColumns(AutoMap(g, 1), m)
<1>1. \A c \in 1 .. m : g[1][c] \in Texts OBVIOUS
<1>2. PICK b : b = AutoMap(g, 1) OBVIOUS
<1>3. BestPaired(g, 1, b, m) BY <1>1, <1>2, AutoMapIs
<1>4. \A c \in 1 .. m : Fields[c] \in FieldSet BY DEF FieldSet
<1>5. \A c, d \in 1 .. m : Fields[c] = Fields[d] => c = d BY FieldsAssumption
<1>6. ASSUME NEW c \in 1 .. m, NEW k \in FieldSet
      PROVE  Like(g, 1, c, k) \in 0 .. 100 /\ (Like(g, 1, c, k) = 100 <=> k = Fields[c])
  <2>1. PICK f, t : f = Fields[c] /\ t = Label[f] OBVIOUS
  <2>2. f \in FieldSet /\ t \in Texts /\ g[1][c] = t BY <1>4, <2>1, TitlesAssumption DEF Titles
  <2>3. FieldLike[t][k] = 100 <=> k = f BY <2>1, <2>2, TitlesAssumption
  <2>4. FieldLike[t][k] \in 0 .. 100 BY <2>2, LikeAssumption
  <2> QED BY <2>1, <2>2, <2>3, <2>4 DEF Like
<1>7. \A f \in DOMAIN b : f \in FieldSet /\ b[f].col \in 1 .. m
  <2>1. b \in Bounds(m) BY <1>3 DEF BestPaired
  <2>2. PICK D : D \in SUBSET FieldSet /\ b \in [D -> [col : 1 .. m, manual : {FALSE}]] BY <2>1 DEF Bounds
  <2> QED BY <2>2
<1>8. ASSUME NEW c \in 1 .. m PROVE Fields[c] \in DOMAIN b /\ b[Fields[c]].col = c
  <2>1. PICK f : f = Fields[c] /\ f \in FieldSet BY <1>4
  <2>2. Like(g, 1, c, f) = 100 BY <1>6, <2>1
  <2>3. Like(g, 1, c, f) >= AutoMapThreshold BY <2>2 DEF AutoMapThreshold
  <2>4. PICK k \in DOMAIN b : (b[k].col = c \/ k = f) /\ Like(g, 1, c, f) <= Like(g, 1, b[k].col, k)
    BY <1>3, <2>1, <2>3 DEF BestPaired
  <2>5. PICK d \in 1 .. m : d = b[k].col /\ k \in FieldSet BY <1>7
  <2>6. Like(g, 1, d, k) = 100
    <3>1. Like(g, 1, d, k) \in 0 .. 100 BY <1>6, <2>5
    <3>2. PICK x : x = Like(g, 1, d, k) OBVIOUS
    <3>3. 100 <= x BY <2>2, <2>4, <2>5, <3>2
    <3>4. x \in 0 .. 100 BY <3>1, <3>2
    <3>5. x = 100 BY <3>3, <3>4
    <3> QED BY <3>2, <3>5
  <2>7. k = Fields[d] BY <1>6, <2>5, <2>6
  <2>8. d = c /\ k = f
    <3>1. CASE d = c BY <2>1, <2>7, <3>1
    <3>2. CASE k = f BY <1>5, <2>1, <2>7, <3>2
    <3> QED BY <2>4, <2>5, <3>1, <3>2
  <2> QED BY <2>1, <2>5, <2>8
<1> QED BY <1>2, <1>8 DEF OwnColumns

\* The workbook has one sheet to read.
LEMMA GridBack ==
  ASSUME NEW list, NEW n \in Nat, n > 0, TextList(list, n), NEW rows, rows = Written(list),
         NEW at, Laid(list, n, rows, at), NEW m \in Nat, Len(Fields) = m, DOMAIN Fields = 1 .. m
  PROVE  Reread(list, n, ReadGrid(ExportXLSX(list)).rows, at, m)
<1>1. PICK sheet : sheet = [name |-> "Sheet1", rows |-> rows, merged |-> Regions(rows)] OBVIOUS
<1>2. sheet.rows = rows /\ sheet.merged = Regions(rows) BY <1>1
<1>3. PICK book : book = [csv |-> FALSE, sheets |-> <<sheet>>] OBVIOUS
<1>4. ExportXLSX(list) = book
  <2>1. ExportXLSX(list) = [csv |-> FALSE, sheets |-> <<[name |-> "Sheet1", rows |-> rows, merged |-> Regions(rows)]>>]
    BY Workbook1
  <2> QED BY <1>1, <1>3, <2>1, Zenon
<1>5. DOMAIN book.sheets = {1} /\ book.sheets[1] = sheet /\ book.csv = FALSE BY <1>3
<1>6. ReadGrid(book) = ReadExcel(book) BY <1>5 DEF ReadGrid
<1>7. CountFilled(rows) \in Nat /\ CountFilled(rows) > 0
  <2>1. PICK a \in Nat : a = at[n] /\ a >= 1
    <3>1. n \in 0 .. n OBVIOUS
    <3>2. GoesDown(at, n) BY RowsRise
    <3> QED BY <3>1, <3>2 DEF GoesDown
  <2>2. DOMAIN rows = 1 .. a BY <2>1 DEF Laid
  <2>3. ~IsBlankRow(rows[a]) BY <2>1, RowsWide
  <2>4. PICK S : S = {r \in DOMAIN rows : ~IsBlankRow(rows[r])} OBVIOUS
  <2>5. S \in SUBSET (1 .. a) /\ a \in S BY <2>1, <2>2, <2>3, <2>4
  <2>6. IsFiniteSet(1 .. a) BY <2>1, FS_Interval
  <2>7. IsFiniteSet(S) BY <2>5, <2>6, FS_Subset
  <2>8. Cardinality(S) \in Nat /\ Cardinality(S) # 0 BY <2>5, <2>7, FS_CardinalityType, FS_EmptySet
  <2>9. CountFilled(rows) = Cardinality(S) BY <2>4 DEF CountFilled
  <2> QED BY <2>8, <2>9
<1>8. ReadExcel(book) = GridOf(sheet)
  <2> DEFINE fill(i) == CountFilled(book.sheets[i].rows)
             fullest == {i \in DOMAIN book.sheets :
                           fill(i) > 0 /\ \A j \in DOMAIN book.sheets : fill(j) <= fill(i)}
  <2>1. ReadExcel(book) = IF fullest = {} THEN NoGrid ELSE GridOf(book.sheets[Min(fullest)]) BY DEF ReadExcel
  <2>2. fill(1) = CountFilled(rows) BY <1>2, <1>5
  <2>3. fullest = {1}
    <3>1. \A i : i \in fullest => i = 1 BY <1>5
    <3>2. 1 \in fullest BY <1>5, <1>7, <2>2
    <3> HIDE DEF fullest
    <3> QED BY <3>1, <3>2
  <2> HIDE DEF fullest
  <2>4. PICK S : S = fullest /\ S = {1} BY <2>3
  <2>5. Min(S) = 1
    <3>1. S \in SUBSET Nat /\ S # {} BY <2>4
    <3>2. Min(S) \in S BY <3>1, MinIs
    <3> QED BY <2>4, <3>2
  <2> QED BY <1>5, <2>1, <2>4, <2>5
<1>9. PICK g : g = ExpandMerged(sheet, NormalizeRows(rows)) OBVIOUS
<1>10. ReadGrid(ExportXLSX(list)).rows = g
  <2>1. GridOf(sheet).rows = ExpandMerged(sheet, NormalizeRows(sheet.rows)) BY DEF GridOf
  <2> QED BY <1>2, <1>4, <1>6, <1>8, <1>9, <2>1
<1>11. Reread(list, n, g, at, m) BY <1>2, <1>9, MergedBack
<1> QED BY <1>10, <1>11

\* The domains a text reads as best, by their places.
ReadsAs(t) ==
  {i \in DOMAIN Domains : /\ DomainLike[t][Domains[i]] >= DividerThreshold
                          /\ \A j \in DOMAIN Domains : DomainLike[t][Domains[j]] >= DividerThreshold =>
                               DomainLike[t][Domains[j]] <= DomainLike[t][Domains[i]]}

\* A row that says the same in every cell reads as the first of them.
LEMMA SameCells ==
  ASSUME NEW t, NEW m \in Nat, m > 0, NEW row, row = [c \in 1 .. m |-> t]
  PROVE  Heading(row) = IF ReadsAs(t) = {} THEN NoDomain ELSE Domains[Min(ReadsAs(t))]
<1> DEFINE like(p) == DomainLike[row[p.col]][Domains[p.at]]
           places  == {p \in [col : DOMAIN row, at : DOMAIN Domains] : like(p) >= DividerThreshold}
           best    == {p \in places : \A q \in places : like(q) <= like(p)}
           first(p, q) == p.col < q.col \/ (p.col = q.col /\ p.at <= q.at)
           chosen == CHOOSE x \in best : \A q \in best : first(x, q)
<1>1. MatchDivider(row) = IF best = {} THEN [domain |-> NoDomain, col |-> 0]
                          ELSE [domain |-> Domains[chosen.at], col |-> chosen.col]
  BY DEF MatchDivider
<1>2. PICK k \in Nat : DOMAIN Domains = 1 .. k BY DomainsAssumption
<1>3. DOMAIN row = 1 .. m /\ \A c \in 1 .. m : row[c] = t OBVIOUS
<1>4. PICK S : S = ReadsAs(t) OBVIOUS
<1>5. S \in SUBSET (1 .. k) /\ S \in SUBSET Nat BY <1>2, <1>4 DEF ReadsAs
<1>6. \A p : p \in places <=> /\ p \in [col : 1 .. m, at : 1 .. k]
                              /\ DomainLike[t][Domains[p.at]] >= DividerThreshold
  BY <1>2, <1>3
<1>7. \A p : p \in places => like(p) = DomainLike[t][Domains[p.at]] BY <1>2, <1>3
<1> HIDE DEF places, like
<1>8. ASSUME NEW p \in best PROVE p \in [col : 1 .. m, at : 1 .. k] /\ p.at \in S
  <2>1. p \in places /\ \A q \in places : like(q) <= like(p) OBVIOUS
  <2>2. p.at \in 1 .. k /\ DomainLike[t][Domains[p.at]] >= DividerThreshold BY <1>6, <2>1
  <2>3. ASSUME NEW j \in 1 .. k, DomainLike[t][Domains[j]] >= DividerThreshold
        PROVE  DomainLike[t][Domains[j]] <= DomainLike[t][Domains[p.at]]
    <3>1. PICK q : q = [col |-> 1, at |-> j] OBVIOUS
    <3>2. q \in [col : 1 .. m, at : 1 .. k] /\ q.at = j BY <3>1
    <3>3. q \in places BY <1>6, <2>3, <3>2
    <3>4. like(q) <= like(p) BY <2>1, <3>3
    <3>5. like(q) = DomainLike[t][Domains[j]] /\ like(p) = DomainLike[t][Domains[p.at]] BY <1>7, <2>1, <3>2, <3>3
    <3> QED BY <3>4, <3>5
  <2>4. p \in [col : 1 .. m, at : 1 .. k] BY <1>6, <2>1
  <2> QED BY <1>2, <1>4, <2>2, <2>3, <2>4 DEF ReadsAs
<1>9. ASSUME NEW c \in 1 .. m, NEW i \in S PROVE [col |-> c, at |-> i] \in best
  <2>1. PICK p : p = [col |-> c, at |-> i] OBVIOUS
  <2>2. p \in [col : 1 .. m, at : 1 .. k] /\ p.at = i BY <1>5, <2>1
  <2>3. /\ DomainLike[t][Domains[i]] >= DividerThreshold
        /\ \A j \in 1 .. k : DomainLike[t][Domains[j]] >= DividerThreshold =>
             DomainLike[t][Domains[j]] <= DomainLike[t][Domains[i]]
    BY <1>2, <1>4 DEF ReadsAs
  <2>4. p \in places BY <1>6, <2>2, <2>3
  <2>5. ASSUME NEW q \in places PROVE like(q) <= like(p)
    <3>1. q.at \in 1 .. k /\ DomainLike[t][Domains[q.at]] >= DividerThreshold BY <1>6
    <3>2. DomainLike[t][Domains[q.at]] <= DomainLike[t][Domains[i]] BY <2>3, <3>1
    <3>3. like(q) = DomainLike[t][Domains[q.at]] /\ like(p) = DomainLike[t][Domains[i]] BY <1>7, <2>2, <2>4
    <3> QED BY <3>2, <3>3
  <2> QED BY <2>1, <2>4, <2>5
<1> HIDE DEF best
<1>10. CASE S = {}
  <2>1. best = {} BY <1>8, <1>10
  <2>2. MatchDivider(row).domain = NoDomain BY <1>1, <2>1
  <2> QED BY <1>4, <1>10, <2>2 DEF Heading, Unmixed
<1>11. CASE S # {}
  <2>1. PICK a : a = Min(S) OBVIOUS
  <2>2. a \in S /\ \A i \in S : a <= i BY <1>5, <1>11, <2>1, MinIs
  <2>3. PICK p : p = [col |-> 1, at |-> a] OBVIOUS
  <2>4. 1 \in 1 .. m OBVIOUS
  <2>5. p \in best /\ p.col = 1 /\ p.at = a BY <1>9, <2>2, <2>3, <2>4
  <2>6. ASSUME NEW q \in best PROVE first(p, q)
    <3>1. q.col \in 1 .. m /\ q.at \in S BY <1>8
    <3>2. q.at \in Nat /\ a \in Nat /\ a <= q.at BY <1>5, <2>2, <3>1
    <3> QED BY <2>5, <3>1, <3>2
  <2>7. ASSUME NEW x \in best, \A q \in best : first(x, q) PROVE x = p
    <3>1. x \in [col : 1 .. m, at : 1 .. k] /\ x.at \in S BY <1>8
    <3>2. first(x, p) BY <2>5, <2>7
    <3>3. x.col \in 1 .. m /\ x.at \in Nat /\ a \in Nat /\ a <= x.at BY <1>5, <2>2, <3>1
    <3>4. x.col = 1 /\ x.at = a BY <2>5, <3>2, <3>3
    <3> QED BY <2>3, <3>1, <3>4
  <2> HIDE DEF first
  <2>8. chosen \in best /\ \A q \in best : first(chosen, q) BY <2>5, <2>6
  <2>9. chosen = p BY <2>7, <2>8
  <2>10. best # {} BY <2>5
  <2> HIDE DEF chosen
  <2>11. MatchDivider(row) = [domain |-> Domains[a], col |-> 1] BY <1>1, <2>5, <2>9, <2>10
  <2>12. ~HasDistinctContent(row, 1) BY <1>3, <2>4 DEF HasDistinctContent
  <2>13. a \in 1 .. k /\ Domains[a] \in DomainSet BY <1>2, <1>5, <2>2 DEF DomainSet
  <2>14. Domains[a] # NoDomain BY <2>13, DomainsAssumption
  <2>15. Heading(row) = Domains[a] BY <2>11, <2>12, <2>14 DEF Heading, Unmixed
  <2> QED BY <1>4, <1>11, <2>1, <2>15
<1> QED BY <1>10, <1>11

\* So a heading reads the same across the sheet.
LEMMA HeadingAcross ==
  ASSUME NEW q, NEW m \in Nat, m > 0
  PROVE  Heading(Across(q, m)) = Heading(Banner(q))
<1>1. PICK t : t = NameOf[q.domain] OBVIOUS
<1>2. PICK wide, short : wide = [c \in 1 .. m |-> t] /\ short = [c \in 1 .. 1 |-> t] OBVIOUS
<1>3. Across(q, m) = wide BY <1>1, <1>2 DEF Across
<1>4. Banner(q) = short BY <1>1, <1>2 DEF Banner
<1>5. Heading(wide) = IF ReadsAs(t) = {} THEN NoDomain ELSE Domains[Min(ReadsAs(t))] BY <1>2, SameCells
<1>6. Heading(short) = IF ReadsAs(t) = {} THEN NoDomain ELSE Domains[Min(ReadsAs(t))]
  <2>1. 1 \in Nat /\ 1 > 0 OBVIOUS
  <2> QED BY <1>2, <2>1, SameCells
<1> QED BY <1>3, <1>4, <1>5, <1>6

\* Of two ways down the same places, one is not ahead of the other.
LEMMA NotBefore ==
  ASSUME NEW P \in SUBSET Nat, NEW n \in Nat, NEW a, GoesThrough(a, n, P), NEW b, GoesThrough(b, n, P),
         NEW i \in 0 .. (n - 1), \A j \in 1 .. i : a[j] = b[j]
  PROVE  ~(a[i + 1] < b[i + 1])
<1> SUFFICES ASSUME a[i + 1] < b[i + 1] PROVE FALSE OBVIOUS
<1>1. i + 1 \in 1 .. n OBVIOUS
<1>2. a[i + 1] \in P BY <1>1 DEF GoesThrough
<1>3. PICK j \in 1 .. n : b[j] = a[i + 1] BY <1>2 DEF GoesThrough
<1>4. b[j] < b[i + 1] BY <1>3
<1>5. j < i + 1 BY <1>1, <1>4 DEF GoesThrough
<1>6. j \in 1 .. i BY <1>5
<1>7. a[j] = a[i + 1] BY <1>3, <1>6
<1>8. a[j] < a[i + 1] BY <1>1, <1>5 DEF GoesThrough
<1>9. a[j] \in Nat /\ a[i + 1] \in Nat BY <1>1 DEF GoesThrough
<1> QED BY <1>7, <1>8, <1>9

\* There is one way down.
LEMMA OneWay ==
  ASSUME NEW P \in SUBSET Nat, NEW n \in Nat, NEW a, GoesThrough(a, n, P),
         NEW k \in Nat, NEW b, GoesThrough(b, k, P)
  PROVE  n = k /\ \A i \in 1 .. n : a[i] = b[i]
<1>1. ASSUME NEW l \in Nat, NEW f, GoesThrough(f, l, P) PROVE Cardinality(P) = l
  <2>1. f \in [1 .. l -> P] BY <1>1 DEF GoesThrough
  <2>2. \A i, j \in 1 .. l : f[i] = f[j] => i = j
    <3> TAKE i, j \in 1 .. l
    <3>3. f[i] \in P /\ f[j] \in P BY <2>1
    <3>4. f[i] \in Nat /\ f[j] \in Nat BY <3>3
    <3>5. i \in Nat /\ j \in Nat OBVIOUS
    <3>1. i \in Nat /\ j \in Nat /\ f[i] \in Nat /\ f[j] \in Nat BY <3>4, <3>5
    <3>2. (i < j <=> f[i] < f[j]) /\ (j < i <=> f[j] < f[i]) BY <1>1 DEF GoesThrough
    <3> QED BY <3>1, <3>2
  <2>3. \A p \in P : \E i \in 1 .. l : f[i] = p BY <1>1 DEF GoesThrough
  <2>4. f \in Bijection(1 .. l, P) BY <2>1, <2>2, <2>3 DEF Bijection, Injection, Surjection, IsInjective
  <2>5. IsFiniteSet(1 .. l) /\ Cardinality(1 .. l) = l BY FS_Interval
  <2>6. PICK I : I = 1 .. l OBVIOUS
  <2>7. IsFiniteSet(I) /\ Cardinality(I) = l /\ ExistsBijection(I, P) BY <2>4, <2>5, <2>6 DEF ExistsBijection
  <2> QED BY <2>7, FS_Bijection
<1>2. n = k BY <1>1
<1>3. PICK Q : Q = {i \in 0 .. n : \A j \in 1 .. i : a[j] = b[j]} OBVIOUS
<1>4. Q \in SUBSET (0 .. n) /\ 0 \in Q BY <1>3
<1>5. ASSUME NEW i \in 0 .. (n - 1), i \in Q PROVE i + 1 \in Q
  <2>1. \A j \in 1 .. i : a[j] = b[j] BY <1>3, <1>5
  <2>2. GoesThrough(b, n, P) BY <1>2
  <2>3. ~(a[i + 1] < b[i + 1]) BY <2>1, <2>2, NotBefore
  <2>4. \A j \in 1 .. i : b[j] = a[j] BY <2>1
  <2>5. ~(b[i + 1] < a[i + 1]) BY <2>2, <2>4, NotBefore
  <2>6. i + 1 \in 1 .. n OBVIOUS
  <2>7. a[i + 1] \in Nat /\ b[i + 1] \in Nat BY <2>2, <2>6 DEF GoesThrough
  <2>8. a[i + 1] = b[i + 1] BY <2>3, <2>5, <2>7
  <2>9. \A j \in 1 .. (i + 1) : j = i + 1 \/ j \in 1 .. i OBVIOUS
  <2>10. \A j \in 1 .. (i + 1) : a[j] = b[j] BY <2>1, <2>8, <2>9
  <2>11. i + 1 \in 0 .. n OBVIOUS
  <2> QED BY <1>3, <2>10, <2>11
<1>6. Q = 0 .. n BY <1>4, <1>5, UpTo
<1>7. n \in Q BY <1>6
<1> QED BY <1>2, <1>3, <1>7

\* Below the titles: question i in row b[i], its domain's heading in the row before
\* if it opens one, and no other row.
Spaced(list, n, b, head, val) ==
  /\ b \in [0 .. n -> Nat] /\ b[0] = 0
  /\ \A i \in 1 .. n : /\ b[i] = b[i - 1] + (IF OpensDomain(list, i) THEN 2 ELSE 1)
                       /\ head[b[i]] = NoDomain /\ val[b[i]].question # Blank
                       /\ val[b[i]].question = list[i].values.question
                       /\ val[b[i]].answer = list[i].values.answer
                       /\ list[i].domain # NoDomain
                       /\ OpensDomain(list, i) => head[b[i] - 1] = list[i].domain
  /\ \A k \in 1 .. b[n] : \E i \in 1 .. n : k = b[i] \/ (OpensDomain(list, i) /\ k = b[i] - 1)

\* The rows go down.
LEMMA SpacedRise ==
  ASSUME NEW list, NEW n \in Nat, NEW b, NEW head, NEW val, Spaced(list, n, b, head, val)
  PROVE  /\ \A i \in 0 .. n : b[i] \in Nat /\ b[i] <= b[n]
         /\ \A i \in 1 .. n : b[i] \in 1 .. b[n] /\ (OpensDomain(list, i) => b[i] - 1 \in 1 .. b[n])
         /\ \A i, k \in 0 .. n : (i < k <=> b[i] < b[k]) /\ (b[i] = b[k] => i = k)
<1>1. b \in [0 .. n -> Nat] /\ b[0] = 0 BY DEF Spaced
<1>2. \A i \in 1 .. n : b[i] = b[i - 1] + (IF OpensDomain(list, i) THEN 2 ELSE 1) BY DEF Spaced
<1>3. \A i \in 1 .. n : i - 1 \in 0 .. n /\ b[i - 1] \in Nat /\ b[i] \in Nat BY <1>1
<1>4. \A i \in 1 .. n : b[i - 1] < b[i]
  <2> TAKE i \in 1 .. n
  <2>1. b[i] = b[i - 1] + 2 \/ b[i] = b[i - 1] + 1 BY <1>2
  <2> QED BY <1>3, <2>1
<1>5. \A i, k \in 0 .. n : (i < k <=> b[i] < b[k]) /\ (b[i] = b[k] => i = k) BY <1>1, <1>4, Climbing
<1>6. ASSUME NEW i \in 0 .. n PROVE b[i] \in Nat /\ b[i] <= b[n]
  <2>1. b[i] \in Nat /\ b[n] \in Nat /\ n \in 0 .. n BY <1>1
  <2>2. i = n \/ i < n OBVIOUS
  <2>3. i < n => b[i] < b[n] BY <1>5, <2>1
  <2> QED BY <2>1, <2>2, <2>3
<1>7. ASSUME NEW i \in 1 .. n PROVE b[i] \in 1 .. b[n] /\ (OpensDomain(list, i) => b[i] - 1 \in 1 .. b[n])
  <2>1. i \in 0 .. n /\ n \in 0 .. n OBVIOUS
  <2>2. PICK x \in Nat, y \in Nat, z \in Nat : x = b[i - 1] /\ y = b[i] /\ z = b[n] BY <1>3, <1>6, <2>1
  <2>3. y <= z BY <1>6, <2>1, <2>2
  <2>4. y = x + (IF OpensDomain(list, i) THEN 2 ELSE 1) BY <1>2, <2>2
  <2>5. CASE OpensDomain(list, i)
    <3>1. y = x + 2 BY <2>4, <2>5
    <3> QED BY <2>2, <2>3, <3>1
  <2>6. CASE ~OpensDomain(list, i)
    <3>1. y = x + 1 BY <2>4, <2>6
    <3> QED BY <2>2, <2>3, <2>6, <3>1
  <2> QED BY <2>5, <2>6
<1> QED BY <1>5, <1>6, <1>7

\* A question's nearest heading is one of its domain.
Filed(list, n, b, head, i) ==
  \E j \in 1 .. i : /\ OpensDomain(list, j) /\ list[j].domain = list[i].domain
                    /\ Top(head, b[i], b[j] - 1)

LEMMA AllFiled ==
  ASSUME NEW list, NEW n \in Nat, NEW b, NEW head, NEW val, Spaced(list, n, b, head, val)
  PROVE  \A i \in 1 .. n : Filed(list, n, b, head, i)
<1>1. \A i \in 1 .. n : /\ b[i] = b[i - 1] + (IF OpensDomain(list, i) THEN 2 ELSE 1)
                        /\ head[b[i]] = NoDomain /\ list[i].domain # NoDomain
                        /\ OpensDomain(list, i) => head[b[i] - 1] = list[i].domain
  BY DEF Spaced
<1>2. /\ \A i \in 0 .. n : b[i] \in Nat
      /\ \A i \in 1 .. n : b[i] \in 1 .. b[n] /\ (OpensDomain(list, i) => b[i] - 1 \in 1 .. b[n])
  BY SpacedRise
<1>3. ASSUME NEW i \in 1 .. n, OpensDomain(list, i) PROVE Filed(list, n, b, head, i)
  <2>1. PICK x \in Nat : x = b[i] /\ i \in 0 .. n BY <1>2
  <2>2. x - 1 \in 1 .. x BY <1>2, <1>3, <2>1
  <2>3. head[x - 1] # NoDomain /\ head[x] = NoDomain BY <1>1, <1>3, <2>1
  <2>4. \A l \in ((x - 1) + 1) .. x : l = x BY <2>1
  <2>5. Top(head, x, x - 1) BY <2>2, <2>3, <2>4 DEF Top
  <2>6. i \in 1 .. i OBVIOUS
  <2> QED BY <1>3, <2>1, <2>5, <2>6 DEF Filed
<1>4. ASSUME NEW i \in 1 .. n, ~OpensDomain(list, i), i > 1, Filed(list, n, b, head, i - 1)
      PROVE  Filed(list, n, b, head, i)
  <2>1. list[i].domain = list[i - 1].domain BY <1>4 DEF OpensDomain
  <2>2. i - 1 \in 0 .. n /\ i \in 0 .. n OBVIOUS
  <2>3. PICK x \in Nat, y \in Nat : x = b[i - 1] /\ y = b[i] BY <1>2, <2>2
  <2>4. y = x + 1
    <3>1. b[i] = b[i - 1] + (IF OpensDomain(list, i) THEN 2 ELSE 1) BY <1>1
    <3> QED BY <1>4, <2>3, <3>1
  <2>5. PICK j \in 1 .. (i - 1) : /\ OpensDomain(list, j) /\ list[j].domain = list[i - 1].domain
                                  /\ Top(head, b[i - 1], b[j] - 1)
    BY <1>4 DEF Filed
  <2>6. PICK t : t = b[j] - 1 OBVIOUS
  <2>7. t \in 1 .. x /\ head[t] # NoDomain /\ \A l \in (t + 1) .. x : head[l] = NoDomain
    BY <2>3, <2>5, <2>6 DEF Top
  <2>8. head[y] = NoDomain BY <1>1, <2>3
  <2>9. \A l \in (t + 1) .. y : l \in (t + 1) .. x \/ l = y BY <2>4, <2>7
  <2>10. t \in 1 .. y BY <2>4, <2>7
  <2>11. Top(head, y, t) BY <2>7, <2>8, <2>9, <2>10 DEF Top
  <2>12. j \in 1 .. i BY <2>5
  <2> QED BY <2>1, <2>3, <2>5, <2>6, <2>11, <2>12 DEF Filed
<1>5. PICK Q : Q = {i \in 0 .. n : i = 0 \/ Filed(list, n, b, head, i)} OBVIOUS
<1>6. Q \in SUBSET (0 .. n) /\ 0 \in Q BY <1>5
<1>7. ASSUME NEW i \in 0 .. (n - 1), i \in Q PROVE i + 1 \in Q
  <2>1. i + 1 \in 1 .. n /\ (i + 1) - 1 = i OBVIOUS
  <2>2. CASE OpensDomain(list, i + 1)
    <3>1. Filed(list, n, b, head, i + 1) BY <1>3, <2>1, <2>2
    <3> QED BY <1>5, <2>1, <3>1
  <2>3. CASE ~OpensDomain(list, i + 1)
    <3>1. i + 1 # 1 BY <2>3 DEF OpensDomain
    <3>2. i + 1 > 1 /\ i # 0 BY <3>1
    <3>3. Filed(list, n, b, head, i) BY <1>5, <1>7, <3>2
    <3>4. Filed(list, n, b, head, i + 1) BY <1>4, <2>1, <2>3, <3>2, <3>3
    <3> QED BY <1>5, <2>1, <3>4
  <2> QED BY <2>2, <2>3
<1>8. Q = 0 .. n BY <1>6, <1>7, UpTo
<1>9. ASSUME NEW i \in 1 .. n PROVE Filed(list, n, b, head, i)
  <2>1. i \in Q /\ i # 0 BY <1>8
  <2> QED BY <1>5, <2>1
<1> QED BY <1>9

\* The questions of some rows, taken in order.
AskedFrom(q, rows, P) ==
  \E m \in Nat : AreAsked(q, m) /\ \E at : GoesThrough(at, m, P) /\ \A k \in 1 .. m : q[k] = rows[at[k]]

LEMMA AskedAt ==
  ASSUME NEW rows, NEW h \in Nat, NEW len \in Nat, AreRows(rows, h, len),
         NEW P, \A k : k \in P <=> k \in 1 .. len /\ rows[k].kind = "question"
  PROVE  AskedFrom(QuestionRows(rows), rows, P)
<1>1. P \in SUBSET {i \in 1 .. len : rows[i].kind = "question"} OBVIOUS
<1>2. \E x \in Nat : /\ AreAsked(Sublist(rows, P), x) /\ x = Cardinality(P)
                     /\ \E t : GoesThrough(t, x, P) /\ \A k \in 1 .. x : Sublist(rows, P)[k] = rows[t[k]]
  BY <1>1, SomeAsked
<1>3. AskedFrom(Sublist(rows, P), rows, P) BY <1>2 DEF AskedFrom
<1>4. QuestionRows(rows) = Sublist(rows, P)
  <2>1. DOMAIN rows = 1 .. len
    <3>1. rows = [i \in 1 .. len |-> rows[i]] BY DEF AreRows
    <3> QED BY <3>1
  <2>2. {i \in DOMAIN rows : rows[i].kind = "question"} = P BY <2>1
  <2> QED BY <2>2, Zenon DEF QuestionRows
<1> QED BY <1>3, <1>4, Zenon

\* Every row is under its heading, or under home when there is none above it.
Housed(rows, h, head, val, len, home) == \A i \in 1 .. len : HasDomain(rows[i], h, head, val, i, home)

\* The questions among the rows are the list's, with its domains and answers.
Restored(rows, list, n) ==
  \E back : /\ QuestionRows(rows) = back /\ Len(back) = n
            /\ \A i \in 1 .. n : /\ back[i].domain = list[i].domain
                                 /\ back[i].values.question = list[i].values.question
                                 /\ back[i].values.answer = list[i].values.answer

\* The questions found are those written, in their order.
LEMMA RestoredRows ==
  ASSUME NEW list, NEW n \in Nat, NEW b, NEW head, NEW val, Spaced(list, n, b, head, val),
         NEW len, len = b[n], NEW rows, NEW h \in Nat, AreRows(rows, h, len), NEW home,
         Housed(rows, h, head, val, len, home)
  PROVE  Restored(rows, list, n)
<1>0. \A i \in 1 .. len : HasDomain(rows[i], h, head, val, i, home) BY DEF Housed
<1>1. /\ \A i \in 0 .. n : b[i] \in Nat
      /\ \A i \in 1 .. n : b[i] \in 1 .. b[n] /\ (OpensDomain(list, i) => b[i] - 1 \in 1 .. b[n])
      /\ \A i, k \in 0 .. n : (i < k <=> b[i] < b[k]) /\ (b[i] = b[k] => i = k)
  BY SpacedRise
<1>2. len \in Nat
  <2>1. n \in 0 .. n OBVIOUS
  <2> QED BY <1>1, <2>1
<1>3. \A i \in 1 .. n : /\ head[b[i]] = NoDomain /\ val[b[i]].question # Blank
                        /\ val[b[i]].question = list[i].values.question
                        /\ val[b[i]].answer = list[i].values.answer
                        /\ list[i].domain # NoDomain
                        /\ OpensDomain(list, i) => head[b[i] - 1] = list[i].domain
  BY DEF Spaced
<1>4. ASSUME NEW i \in 1 .. n
      PROVE  /\ rows[b[i]].kind = "question" /\ rows[b[i]].values = val[b[i]]
             /\ rows[b[i]].domain = list[i].domain
  <2>1. PICK k \in 1 .. len : k = b[i] BY <1>1
  <2>2. KindAt(head, val, k) = "question" BY <1>3, <2>1 DEF KindAt
  <2>3. /\ rows[k].kind = "question" /\ rows[k].values = val[k]
        /\ \/ Loose(head, k) /\ rows[k].domain = home
           \/ \E j \in 1 .. k : Top(head, k, j) /\ rows[k].domain = head[j]
    BY <1>0, <2>1, <2>2 DEF HasDomain
  <2>4. Filed(list, n, b, head, i) BY AllFiled
  <2>5. PICK j \in 1 .. i : /\ OpensDomain(list, j) /\ list[j].domain = list[i].domain
                            /\ Top(head, b[i], b[j] - 1)
    BY <2>4 DEF Filed
  <2>6. PICK t : t = b[j] - 1 OBVIOUS
  <2>7. t \in 1 .. k /\ head[t] # NoDomain /\ Top(head, k, t) BY <2>1, <2>5, <2>6 DEF Top
  <2>8. ~Loose(head, k) BY <2>7 DEF Loose
  <2>9. PICK u \in 1 .. k : Top(head, k, u) /\ rows[k].domain = head[u] BY <2>3, <2>8
  <2>10. u = t BY <1>2, <2>7, <2>9, TopOnce
  <2>11. j \in 1 .. n OBVIOUS
  <2>12. head[t] = list[j].domain BY <1>3, <2>5, <2>6, <2>11
  <2> QED BY <2>1, <2>3, <2>5, <2>9, <2>10, <2>12
<1>5. PICK P : P = {k \in 1 .. len : rows[k].kind = "question"} OBVIOUS
<1>6. ASSUME NEW k \in P PROVE \E i \in 1 .. n : b[i] = k
  <2>1. k \in 1 .. len /\ rows[k].kind = "question" BY <1>5
  <2>2. PICK i \in 1 .. n : k = b[i] \/ (OpensDomain(list, i) /\ k = b[i] - 1) BY <2>1 DEF Spaced
  <2>3. CASE OpensDomain(list, i) /\ k = b[i] - 1
    <3>1. head[k] = list[i].domain /\ head[k] # NoDomain BY <1>3, <2>3
    <3>2. KindAt(head, val, k) = "divider" BY <3>1 DEF KindAt
    <3>3. rows[k].kind = "divider" BY <1>0, <2>1, <3>2 DEF HasDomain
    <3> QED BY <2>1, <3>3
  <2> QED BY <2>2, <2>3
<1>7. PICK a : a = [i \in 1 .. n |-> b[i]] OBVIOUS
<1>8. GoesThrough(a, n, P)
  <2>1. \A i \in 1 .. n : a[i] = b[i] /\ b[i] \in P BY <1>1, <1>4, <1>5, <1>7
  <2>2. a \in [1 .. n -> P] BY <1>7, <2>1
  <2>3. \A p \in P : \E i \in 1 .. n : a[i] = p BY <1>6, <2>1
  <2>4. \A i, k \in 1 .. n : i < k <=> a[i] < a[k]
    <3> TAKE i, k \in 1 .. n
    <3>1. i \in 0 .. n /\ k \in 0 .. n OBVIOUS
    <3>2. i < k <=> b[i] < b[k] BY <1>1, <3>1
    <3> QED BY <2>1, <3>2
  <2> QED BY <2>2, <2>3, <2>4 DEF GoesThrough
<1>9. PICK back : back = QuestionRows(rows) OBVIOUS
<1>10. PICK m, at : m \in Nat /\ AreAsked(back, m) /\ GoesThrough(at, m, P) /\ \A k \in 1 .. m : back[k] = rows[at[k]]
  <2>1. \A k : k \in P <=> k \in 1 .. len /\ rows[k].kind = "question" BY <1>5
  <2>2. AskedFrom(back, rows, P)
    <3>1. PICK l \in Nat : l = len BY <1>2
    <3>2. AreRows(rows, h, l) /\ \A k : k \in P <=> k \in 1 .. l /\ rows[k].kind = "question" BY <2>1, <3>1
    <3>3. AskedFrom(QuestionRows(rows), rows, P) BY <3>2, AskedAt
    <3> QED BY <1>9, <3>3
  <2> QED BY <2>2, Zenon DEF AskedFrom
<1>11. n = m /\ \A i \in 1 .. n : a[i] = at[i]
  <2>1. P \in SUBSET Nat BY <1>5
  <2> QED BY <1>8, <1>10, <2>1, OneWay
<1>12. \A i \in 1 .. n : back[i] = rows[b[i]] BY <1>7, <1>10, <1>11
<1>13. Len(back) = n
  <2>1. back = [k \in 1 .. m |-> back[k]] BY <1>10 DEF AreAsked
  <2>2. PICK T : T = {back[k] : k \in 1 .. m} OBVIOUS
  <2>3. \A k \in 1 .. m : back[k] \in T BY <2>2
  <2>4. back \in [1 .. m -> T] BY <2>1, <2>3
  <2>5. m \in Nat BY <1>10
  <2>6. Len(back) = m BY <2>4, <2>5
  <2> QED BY <1>11, <2>6
<1>14. /\ QuestionRows(rows) = back /\ Len(back) = n
       /\ \A i \in 1 .. n : /\ back[i].domain = list[i].domain
                            /\ back[i].values.question = list[i].values.question
                            /\ back[i].values.answer = list[i].values.answer
  BY <1>3, <1>4, <1>9, <1>12, <1>13
<1> QED BY <1>14, Zenon DEF Restored

\* A row of the sheet that is a question's line gives the question's texts.
LEMMA LineRead ==
  ASSUME NEW q, TextQuestion(q), NEW m \in Nat, DOMAIN Fields = 1 .. m,
         NEW g, NEW r \in DOMAIN g, g[r] = Line(q), NEW bound, OwnColumns(bound, m)
  PROVE  /\ ExtractValues(g, r, bound).question = q.values.question
         /\ ExtractValues(g, r, bound).answer = q.values.answer
<1>1. ASSUME NEW f \in FieldSet, f # "feedback" PROVE ExtractValues(g, r, bound)[f] = q.values[f]
  <2>1. PICK c \in 1 .. m : Fields[c] = f BY DEF FieldSet
  <2>2. f \in DOMAIN bound /\ bound[f].col = c BY <2>1 DEF OwnColumns
  <2>3. ExtractValues(g, r, bound)[f] = Cell(g, r, c) BY <2>2 DEF ExtractValues
  <2>4. PICK row : row = Line(q) OBVIOUS
  <2>5. DOMAIN row = 1 .. m /\ row[c] = q.values[f] BY <1>1, <2>1, <2>4 DEF Line
  <2>6. Cell(g, r, c) = row[c] BY <2>4, <2>5 DEF Cell
  <2> QED BY <2>3, <2>5, <2>6
<1>2. "question" \in FieldSet /\ "answer" \in FieldSet BY FieldsAssumption
<1>3. "question" # "feedback" /\ "answer" # "feedback" OBVIOUS
<1> QED BY <1>1, <1>2, <1>3

\* The sheet read back has the questions' rows where they were laid out.
LEMMA SpacedBack ==
  ASSUME NEW list, NEW n \in Nat, n > 0, TextList(list, n), NEW rows, NEW at, Laid(list, n, rows, at),
         NEW m \in Nat, m > 0, DOMAIN Fields = 1 .. m, NEW g, Reread(list, n, g, at, m),
         NEW bound, OwnColumns(bound, m),
         \A i \in 1 .. n : Heading(Banner(list[i])) = list[i].domain /\ Heading(Line(list[i])) = NoDomain
  PROVE  \E b : b[n] = Below(g, 1) /\ Spaced(list, n, b, Heads(g, 1), Vals(g, 1, bound))
<1>1. PICK a \in Nat : a = at[n]
  <2>1. n \in 0 .. n OBVIOUS
  <2> QED BY <2>1 DEF Laid
<1>2. /\ at \in [0 .. n -> Nat] /\ at[0] = 1
      /\ \A i \in 1 .. n : at[i] = at[i - 1] + (IF OpensDomain(list, i) THEN 2 ELSE 1)
      /\ \A r \in 2 .. a : \E i \in 1 .. n : r = at[i] \/ (OpensDomain(list, i) /\ r = at[i] - 1)
  BY <1>1 DEF Laid
<1>3. GoesDown(at, n) BY RowsRise
<1>4. \A i \in 1 .. n : at[i] \in 2 .. a
  <2> TAKE i \in 1 .. n
  <2>1. 0 \in 0 .. n /\ i \in 0 .. n /\ 0 < i OBVIOUS
  <2>2. at[i] \in Nat /\ at[i] <= at[n] /\ at[0] < at[i] BY <1>3, <2>1 DEF GoesDown
  <2> QED BY <1>1, <1>2, <2>2
<1>5. a >= 2
  <2>1. n \in 1 .. n OBVIOUS
  <2> QED BY <1>1, <1>4, <2>1
<1>6. DOMAIN g = 1 .. a /\ Len(g) = a
  <2>1. g = [r \in 1 .. a |-> g[r]] BY <1>1 DEF Reread
  <2>2. PICK T : T = {g[r] : r \in 1 .. a} OBVIOUS
  <2>3. \A r \in 1 .. a : g[r] \in T BY <2>2
  <2>4. g \in [1 .. a -> T] BY <2>1, <2>3
  <2> QED BY <2>4
<1>7. PICK len, head, val : len = a - 1 /\ head = Heads(g, 1) /\ val = Vals(g, 1, bound) OBVIOUS
<1>8. Below(g, 1) = len BY <1>5, <1>6, <1>7 DEF Below
<1>9. len \in Nat /\ \A k \in 1 .. len : head[k] = Heading(g[1 + k]) /\ val[k] = ExtractValues(g, 1 + k, bound)
  BY <1>5, <1>7, <1>8 DEF Heads, Vals
<1>10. PICK b : b = [i \in 0 .. n |-> at[i] - 1] OBVIOUS
<1>11. b \in [0 .. n -> Nat] /\ b[0] = 0 /\ b[n] = len /\ \A i \in 0 .. n : at[i] = b[i] + 1
  <2>1. \A i \in 0 .. n : at[i] \in Nat /\ 1 <= at[i] BY <1>3 DEF GoesDown
  <2>2. \A i \in 0 .. n : at[i] - 1 \in Nat /\ b[i] = at[i] - 1 BY <1>10, <2>1
  <2>3. b \in [0 .. n -> Nat] BY <1>10, <2>2
  <2>4. 0 \in 0 .. n /\ n \in 0 .. n OBVIOUS
  <2>5. \A i \in 0 .. n : at[i] = b[i] + 1 BY <2>1, <2>2
  <2>6. b[0] = 0
    <3>1. b[0] = at[0] - 1 BY <2>2, <2>4
    <3> QED BY <1>2, <3>1
  <2>7. b[n] = len
    <3>1. b[n] = at[n] - 1 BY <2>2, <2>4
    <3> QED BY <1>1, <1>7, <3>1
  <2> QED BY <2>3, <2>5, <2>6, <2>7
<1>12. ASSUME NEW i \in 1 .. n
       PROVE  /\ b[i] = b[i - 1] + (IF OpensDomain(list, i) THEN 2 ELSE 1)
              /\ head[b[i]] = NoDomain /\ val[b[i]].question # Blank
              /\ val[b[i]].question = list[i].values.question
              /\ val[b[i]].answer = list[i].values.answer
              /\ list[i].domain # NoDomain
              /\ OpensDomain(list, i) => head[b[i] - 1] = list[i].domain
  <2>1. i - 1 \in 0 .. n /\ i \in 0 .. n OBVIOUS
  <2>2. PICK x \in Nat, y \in Nat : x = b[i - 1] /\ y = b[i] BY <1>11, <2>1
  <2>3. at[i - 1] = x + 1 /\ at[i] = y + 1 BY <1>11, <2>1, <2>2
  <2>4. y = x + (IF OpensDomain(list, i) THEN 2 ELSE 1)
    <3>1. at[i] = at[i - 1] + (IF OpensDomain(list, i) THEN 2 ELSE 1) BY <1>2
    <3>2. CASE OpensDomain(list, i) BY <2>3, <3>1, <3>2
    <3>3. CASE ~OpensDomain(list, i) BY <2>3, <3>1, <3>3
    <3> QED BY <3>2, <3>3
  <2>5. y \in 1 .. len /\ 1 + y \in 1 .. a BY <1>4, <1>7, <2>3
  <2>6. g[1 + y] = Line(list[i])
    <3>1. g[at[i]] = Line(list[i]) BY DEF Reread
    <3>2. 1 + y = at[i] BY <2>3
    <3> QED BY <3>1, <3>2
  <2>7. head[y] = NoDomain BY <1>9, <2>5, <2>6
  <2>8. TextQuestion(list[i]) BY DEF TextList
  <2>9. /\ ExtractValues(g, 1 + y, bound).question = list[i].values.question
        /\ ExtractValues(g, 1 + y, bound).answer = list[i].values.answer
    BY <1>6, <2>5, <2>6, <2>8, LineRead
  <2>10. val[y].question = list[i].values.question /\ val[y].answer = list[i].values.answer
    BY <1>9, <2>5, <2>9
  <2>11. list[i].values.question # Blank /\ list[i].domain \in DomainSet BY <2>8 DEF TextQuestion, TextValues
  <2>12. list[i].domain # NoDomain BY <2>11, DomainsAssumption
  <2>13. ASSUME OpensDomain(list, i) PROVE head[y - 1] = list[i].domain
    <3>1. y = x + 2 BY <2>4, <2>13
    <3>2. y - 1 \in 1 .. len /\ 1 + (y - 1) = y /\ y = at[i] - 1
      <4>1. y = at[i] - 1 BY <2>3
      <4>2. y - 1 = x + 1 /\ 1 + (y - 1) = y BY <3>1
      <4>3. PICK l \in Nat : l = len BY <1>9
      <4>4. x + 2 <= l BY <2>5, <3>1, <4>3
      <4>5. x + 1 \in 1 .. l BY <4>4
      <4> QED BY <4>1, <4>2, <4>3, <4>5
    <3>3. g[at[i] - 1] = Across(list[i], m) BY <2>13 DEF Reread
    <3>4. head[y - 1] = Heading(g[y]) BY <1>9, <3>2
    <3>5. head[y - 1] = Heading(Across(list[i], m)) BY <3>2, <3>3, <3>4
    <3>6. Heading(Across(list[i], m)) = Heading(Banner(list[i])) BY HeadingAcross
    <3> QED BY <3>5, <3>6
  <2> QED BY <2>2, <2>4, <2>7, <2>10, <2>11, <2>12, <2>13
<1>13. ASSUME NEW k \in 1 .. len PROVE \E i \in 1 .. n : k = b[i] \/ (OpensDomain(list, i) /\ k = b[i] - 1)
  <2>1. k + 1 \in 2 .. a BY <1>5, <1>7
  <2>2. PICK i \in 1 .. n : k + 1 = at[i] \/ (OpensDomain(list, i) /\ k + 1 = at[i] - 1) BY <1>2, <2>1
  <2>3. i \in 0 .. n OBVIOUS
  <2>4. PICK y \in Nat : y = b[i] /\ at[i] = y + 1 BY <1>11, <2>3
  <2>5. k = y \/ (OpensDomain(list, i) /\ k = y - 1)
    <3>1. CASE k + 1 = at[i] BY <2>4, <3>1
    <3>2. CASE OpensDomain(list, i) /\ k + 1 = at[i] - 1 BY <2>4, <3>2
    <3> QED BY <2>2, <3>1, <3>2
  <2> QED BY <2>4, <2>5
<1>14. Spaced(list, n, b, head, val) BY <1>11, <1>12, <1>13 DEF Spaced
<1> QED BY <1>7, <1>8, <1>11, <1>14

\* What was exported is read back as it was.
LEMMA ReadsBack ==
  ASSUME NEW list, NEW n \in Nat, n > 0, TextList(list, n),
         \A i \in 1 .. n : Heading(Banner(list[i])) = list[i].domain /\ Heading(Line(list[i])) = NoDomain
  PROVE  SameQuestions(QuestionRows(PreviewGrid(ReadGrid(ExportXLSX(list))).rows), list)
<1>1. PICK rows : rows = Written(list) OBVIOUS
<1>2. PICK at : Laid(list, n, rows, at) BY <1>1, LaidOut
<1>3. PICK m \in Nat : DOMAIN Fields = 1 .. m /\ Len(Fields) = m /\ m > 0
  <2>1. PICK m \in Nat : DOMAIN Fields = 1 .. m /\ Len(Fields) = m /\ m >= 3 BY Columns
  <2>2. m > 0 BY <2>1
  <2> QED BY <2>1, <2>2
<1>4. PICK grid, g : grid = ReadGrid(ExportXLSX(list)) /\ g = grid.rows OBVIOUS
<1>5. Reread(list, n, g, at, m) BY <1>1, <1>2, <1>3, <1>4, GridBack
<1>6. IsGrid(g)
  <2>1. PICK S : list \in Seq(S) BY ListIs
  <2>2. IsBook(ExportXLSX(list)) BY <2>1, ExportedBook
  <2> QED BY <1>4, <2>2, GridsRead
<1>7. PICK a \in Nat : a = at[n] /\ a >= 1
  <2>1. n \in 0 .. n OBVIOUS
  <2>2. GoesDown(at, n) BY <1>2, RowsRise
  <2> QED BY <2>1, <2>2 DEF GoesDown
<1>8. g \in [1 .. a -> [1 .. m -> Texts]] /\ g[1] = Titles BY <1>5, <1>7 DEF Reread
<1>9. DetectHeaderRow(g) = 1 BY <1>3, <1>7, <1>8, TitlesFirst
<1>10. Width(g) = m /\ Titles \in [1 .. m -> Texts]
  <2>1. 1 \in 1 .. a BY <1>7
  <2>2. Titles \in [1 .. m -> Texts] BY <1>8, <2>1
  <2>3. g # <<>>
    <3>1. DOMAIN g = 1 .. a BY <1>8
    <3> QED BY <2>1, <3>1
  <2>4. Len(Titles) = m BY <2>2
  <2> QED BY <1>8, <2>2, <2>3, <2>4 DEF Width
<1>11. PICK auto, guess : auto = AutoMap(g, 1) /\ guess = FallbackQuestionColumn(g, 1) OBVIOUS
<1>12. OwnColumns(auto, m) BY <1>3, <1>8, <1>10, <1>11, TitlesMap
<1>13. "question" \in DOMAIN auto
  <2>1. PICK c \in 1 .. m : Fields[c] = "question" BY <1>3, FieldsAssumption DEF FieldSet
  <2> QED BY <1>12, <2>1 DEF OwnColumns
<1>14. PICK d : d = DetectSections(g, 1, auto) OBVIOUS
<1>15. PreviewGrid(grid).rows = d.rows
  <2>1. PreviewGrid(grid) = Guess(grid, 1, auto, guess) BY <1>4, <1>9, <1>11 DEF PreviewGrid
  <2>2. Guess(grid, 1, auto, guess).rows = d.rows BY <1>4, <1>13, <1>14 DEF Guess
  <2> QED BY <2>1, <2>2
<1>16. PICK b : b[n] = Below(g, 1) /\ Spaced(list, n, b, Heads(g, 1), Vals(g, 1, auto))
  BY <1>2, <1>3, <1>5, <1>12, SpacedBack
<1>17. PICK head, val, len : head = Heads(g, 1) /\ val = Vals(g, 1, auto) /\ len = Below(g, 1) OBVIOUS
<1>18. PICK secs : Settled(d, secs, 1, head, val, len) BY <1>6, <1>14, <1>17, SheetSettled
<1>19. PICK found : found = d.rows OBVIOUS
<1>20. AreRows(found, 1, len)
  <2>1. PICK k \in Nat : AreRows(found, 1, k) BY <1>6, <1>14, <1>19, RowsFound
  <2>2. DOMAIN found = 1 .. k
    <3>1. found = [i \in 1 .. k |-> found[i]] BY <2>1 DEF AreRows
    <3> QED BY <3>1
  <2>3. DOMAIN found = 1 .. len
    <3>1. found = [i \in 1 .. len |-> found[i]] BY <1>18, <1>19 DEF Settled
    <3> QED BY <3>1
  <2>4. len \in Nat BY <1>6, <1>17, BelowNat
  <2>5. k = len BY <2>2, <2>3, <2>4
  <2> QED BY <2>1, <2>5
<1>21. \A i \in 1 .. len : HasDomain(found[i], 1, head, val, i, Home(secs)) BY <1>18, <1>19 DEF Settled
<1>22. Spaced(list, n, b, head, val) /\ len = b[n] BY <1>16, <1>17
<1>23. Restored(found, list, n)
  <2>1. Housed(found, 1, head, val, len, Home(secs)) BY <1>21, Zenon DEF Housed
  <2>2. PICK one, home : one = 1 /\ home = Home(secs) OBVIOUS
  <2>3. one \in Nat /\ AreRows(found, one, len) /\ Housed(found, one, head, val, len, home) BY <1>20, <2>1, <2>2
  <2> QED BY <1>22, <2>3, RestoredRows
<1>24. PICK back : /\ QuestionRows(found) = back /\ Len(back) = n
                   /\ \A i \in 1 .. n : /\ back[i].domain = list[i].domain
                                        /\ back[i].values.question = list[i].values.question
                                        /\ back[i].values.answer = list[i].values.answer
  BY <1>23, Zenon DEF Restored
<1>25. DOMAIN list = 1 .. n /\ Len(list) = n BY ListIs
<1>26. SameQuestions(back, list) BY <1>24, <1>25 DEF SameQuestions
<1> QED BY <1>4, <1>15, <1>19, <1>24, <1>26

\* Whatever is exported is read back as the same questions under the same domains with
\* the same answers, when a domain's name reads as its heading and no question does:
\* for any template, any domains, and any number of questions however they are sorted.
THEOREM ReadBack == Spec => []ExportReadsBack
<1> DEFINE Inv == Rows /\ Pages /\ AsMapped /\ Finite /\ Worded
<1>1. Init => Inv BY InitRows, InitPages, InitAsMapped, InitWorded
<1>2. Inv /\ [Next]_vars => Inv' BY NextRows, NextPages, NextAsMapped, NextWorded
<1>3. Worded => ExportReadsBack
  <2> SUFFICES ASSUME Worded, sent # <<>>,
                      \A i \in DOMAIN sent : /\ Heading(<<NameOf[sent[i].domain]>>) = sent[i].domain
                                             /\ ~LooksLikeHeading(sent[i])
               PROVE  SameQuestions(QuestionRows(PreviewGrid(ReadGrid(ExportXLSX(sent))).rows), sent)
    BY DEF ExportReadsBack
  <2>1. PICK list : list = sent OBVIOUS
  <2>2. PICK n \in Nat : TextList(list, n) BY <2>1 DEF Worded
  <2>3. DOMAIN list = 1 .. n BY <2>2, ListIs
  <2>4. n > 0
    <3>1. ASSUME n = 0 PROVE FALSE
      <4>1. list = [i \in 1 .. 0 |-> list[i]] BY <2>2, <3>1 DEF TextList
      <4>2. list = <<>> BY <4>1
      <4> QED BY <2>1, <4>2
    <3> QED BY <3>1
  <2>5. ASSUME NEW i \in 1 .. n PROVE Heading(Banner(list[i])) = list[i].domain /\ Heading(Line(list[i])) = NoDomain
    <3>1. i \in DOMAIN sent /\ sent[i] = list[i] BY <2>1, <2>3
    <3>2. Heading(<<NameOf[list[i].domain]>>) = list[i].domain /\ ~LooksLikeHeading(list[i]) BY <3>1
    <3>3. Heading(Banner(list[i])) = list[i].domain BY <3>2 DEF Banner
    <3>4. Heading(Line(list[i])) = NoDomain BY <3>2, Zenon DEF LooksLikeHeading, Line
    <3> QED BY <3>3, <3>4
  <2>6. SameQuestions(QuestionRows(PreviewGrid(ReadGrid(ExportXLSX(list))).rows), list)
    BY <2>2, <2>4, <2>5, ReadsBack
  <2> QED BY <2>1, <2>6
<1> HIDE DEF Inv
<1>4. Inv => ExportReadsBack BY <1>3 DEF Inv
<1> QED BY <1>1, <1>2, <1>4, PTL DEF Spec

(***************************************************************************)
(* Unchanged rows find their questions.                                    *)
(***************************************************************************)
\* Likeness is in percent.
LEMMA InPercent == \A t, u \in Texts : Alike[t][u] \in 0 .. 100
BY AlikeAssumption

\* What is the same as the best match is the best match, or as good as it is.
LEMMA Nearest ==
  ASSUME NEW n \in Nat, NEW own, DOMAIN own = 1 .. n, NEW text \in Texts, NEW claimed,
         \A k \in 1 .. n : own[k].values.question \in Texts,
         NEW k \in 1 .. n, own[k].id \notin claimed, SameText(text, own[k].values.question),
         NEW i, i = BestUnclaimedMatch(text, own, claimed)
  PROVE  i \in 1 .. n /\ SameText(text, own[i].values.question)
<1> DEFINE open == {j \in DOMAIN own : own[j].id \notin claimed /\ Alike[text][own[j].values.question] > 0}
           best == {l \in open : \A j \in open : Alike[text][own[j].values.question]
                                                  <= Alike[text][own[l].values.question]}
<1>1. i = IF best = {} THEN 0 ELSE Min(best) BY DEF BestUnclaimedMatch
<1>2. PICK score : score = [j \in 1 .. n |-> Alike[text][own[j].values.question]] OBVIOUS
<1>3. \A j \in 1 .. n : score[j] \in 0 .. 100 /\ score[j] = Alike[text][own[j].values.question]
  <2> TAKE j \in 1 .. n
  <2>1. PICK u \in Texts : u = own[j].values.question OBVIOUS
  <2>2. Alike[text][u] \in 0 .. 100 BY InPercent
  <2>3. score[j] = Alike[text][u] BY <1>2, <2>1
  <2> QED BY <2>1, <2>2, <2>3
<1>4. score[k] = 100 BY <1>3 DEF SameText
<1>5. open \in SUBSET (1 .. n) /\ k \in open BY <1>3, <1>4
<1>6. k \in best
  <2>1. ASSUME NEW j \in open PROVE score[j] <= score[k]
    <3>1. j \in 1 .. n BY <1>5
    <3>2. PICK a, b : a = score[j] /\ b = score[k] OBVIOUS
    <3>3. a \in 0 .. 100 /\ b = 100 BY <1>3, <1>4, <3>1, <3>2
    <3>4. a <= b BY <3>3
    <3> QED BY <3>2, <3>4
  <2> QED BY <1>3, <1>5, <2>1
<1>7. best \in SUBSET open /\ \A l \in best : Alike[text][own[k].values.question] <= Alike[text][own[l].values.question]
  BY <1>5
<1> HIDE DEF best, open
<1>8. best # {} /\ i = Min(best) BY <1>1, <1>6
<1>9. best \in SUBSET Nat BY <1>5, <1>7
<1>10. i \in best BY <1>8, <1>9, MinIs
<1>11. i \in 1 .. n /\ score[k] <= score[i] BY <1>3, <1>5, <1>7, <1>10
<1>12. score[i] = 100
  <2>1. PICK a \in 0 .. 100 : a = score[i] BY <1>3, <1>11
  <2>2. 100 <= a BY <1>4, <1>11, <2>1
  <2>3. a = 100 BY <2>2
  <2> QED BY <2>1, <2>3
<1> QED BY <1>3, <1>11, <1>12 DEF SameText

\* What is picked from a list is in the sublist.
LEMMA Picked ==
  ASSUME NEW X, NEW list \in Seq(X), NEW P \in SUBSET DOMAIN list, NEW w \in P
  PROVE  \E k \in DOMAIN Sublist(list, P) : Sublist(list, P)[k] = list[w]
<1>1. PICK n, own, at : /\ n = Cardinality(P) /\ own = Sublist(list, P)
                        /\ GoesThrough(at, n, P) /\ own = [k \in 1 .. n |-> list[at[k]]]
  BY SublistPlaces
<1>2. PICK k \in 1 .. n : at[k] = w BY <1>1 DEF GoesThrough
<1>3. k \in DOMAIN own /\ own[k] = list[w] BY <1>1, <1>2
<1> QED BY <1>1, <1>3

\* The row of the file finds question v, which has its text.
FindsSame(list, found, next, row, v) ==
  /\ v \in DOMAIN list /\ list[v].domain = row.domain
  /\ SameText(row.values.question, list[v].values.question)
  /\ next = [rows |-> Append(found.rows, Revision(list[v], row)), unmatched |-> found.unmatched]

\* Where a question is free that has its text, a row finds one.
LEMMA MatchesSame ==
  ASSUME NEW X, NEW list \in Seq(X), \A q \in X : q.values.question \in Texts,
         NEW rows, NEW unmatched, NEW found, found = [rows |-> rows, unmatched |-> unmatched],
         NEW row, row.values.question \in Texts, NEW next, next = Match(list, found, row),
         NEW w \in DOMAIN list, list[w].domain = row.domain,
         \A i \in DOMAIN found.rows : found.rows[i].id # list[w].id,
         SameText(row.values.question, list[w].values.question)
  PROVE  \E v : FindsSame(list, found, next, row, v)
<1>1. PICK P : P = {k \in DOMAIN list : list[k].domain = row.domain} OBVIOUS
<1>2. PICK own, text, claimed, i :
        /\ own = Sublist(list, P) /\ text = row.values.question
        /\ claimed = {found.rows[k].id : k \in DOMAIN found.rows}
        /\ i = BestUnclaimedMatch(text, own, claimed)
  OBVIOUS
<1>3. next = IF i = 0 \/ (i # 0 /\ Alike[text][own[i].values.question] < AnswerMatchThreshold)
             THEN [found EXCEPT !.unmatched = Append(@, [text |-> text, domain |-> row.domain])]
             ELSE [found EXCEPT !.rows = Append(@, Revision(own[i], row))]
  BY <1>1, <1>2, Zenon DEF Match
<1>4. P \in SUBSET DOMAIN list /\ w \in P BY <1>1
<1>5. own \in Seq(X) /\ \A k \in DOMAIN own : \E j \in P : own[k] = list[j] BY <1>2, <1>4, SublistKeeps
<1>6. PICK k \in DOMAIN own : own[k] = list[w] BY <1>2, <1>4, Picked
<1>7. PICK n \in Nat : DOMAIN own = 1 .. n /\ \A j \in 1 .. n : own[j] \in X BY <1>5
<1>8. own[k].id \notin claimed BY <1>2, <1>6
<1>9. i \in 1 .. n /\ SameText(text, own[i].values.question)
  <2>1. k \in 1 .. n /\ text \in Texts /\ SameText(text, own[k].values.question) BY <1>2, <1>6, <1>7
  <2>2. \A j \in 1 .. n : own[j].values.question \in Texts BY <1>7
  <2>3. i = BestUnclaimedMatch(text, own, claimed) /\ DOMAIN own = 1 .. n BY <1>2, <1>7
  <2> QED BY <1>8, <2>1, <2>2, <2>3, Nearest
<1>10. PICK v \in P : own[i] = list[v] BY <1>5, <1>7, <1>9
<1>11. ~(i = 0 \/ (i # 0 /\ Alike[text][own[i].values.question] < AnswerMatchThreshold))
  <2>1. i # 0 BY <1>9
  <2>2. Alike[text][own[i].values.question] = 100 BY <1>9 DEF SameText
  <2>3. ~(100 < AnswerMatchThreshold) BY DEF AnswerMatchThreshold
  <2> QED BY <2>1, <2>2, <2>3
<1>12. PICK all : all = Append(rows, Revision(list[v], row)) OBVIOUS
<1>13. next = [found EXCEPT !.rows = Append(@, Revision(own[i], row))] BY <1>3, <1>11, Zenon
<1>14. next = [found EXCEPT !.rows = all] BY <1>10, <1>12, <1>13
<1>15. next = [rows |-> all, unmatched |-> unmatched] BY <1>14
<1>16. v \in DOMAIN list /\ list[v].domain = row.domain BY <1>1
<1>17. SameText(row.values.question, list[v].values.question) BY <1>2, <1>9, <1>10
<1> QED BY <1>12, <1>15, <1>16, <1>17 DEF FindsSame

\* One more at the end of a list.
LEMMA OneLonger ==
  ASSUME NEW n \in Nat, NEW s, s = [i \in 1 .. n |-> s[i]], NEW x
  PROVE  /\ DOMAIN Append(s, x) = 1 .. (n + 1) /\ Append(s, x)[n + 1] = x
         /\ \A i \in 1 .. n : Append(s, x)[i] = s[i]
<1>1. PICK R : R = {s[i] : i \in 1 .. n} \cup {x} OBVIOUS
<1>2. \A i \in 1 .. n : s[i] \in R BY <1>1
<1>3. s \in [1 .. n -> R] BY <1>2
<1>4. s \in Seq(R) /\ Len(s) = n BY <1>3
<1> QED BY <1>1, <1>4

\* A list of n.
Numbered(s, n) == n \in Nat /\ s = [i \in 1 .. n |-> s[i]]

\* So far the domain's rows have found their own texts, and none is left over.
Exact(rows, lost, d) == /\ \A i \in DOMAIN rows : rows[i].domain = d => SameText(rows[i].text, rows[i].question)
                        /\ \A i \in DOMAIN lost : lost[i].domain # d

\* What is appended is as exact as what is found.
LEMMA ExactOn ==
  ASSUME NEW rows, NEW n, Numbered(rows, n), NEW lost, NEW l, Numbered(lost, l), NEW d, Exact(rows, lost, d), NEW x
  PROVE  /\ (x.domain = d => SameText(x.text, x.question)) => Exact(Append(rows, x), lost, d)
         /\ x.domain # d => Exact(rows, Append(lost, x), d)
<1>1. n \in Nat /\ rows = [i \in 1 .. n |-> rows[i]] /\ l \in Nat /\ lost = [i \in 1 .. l |-> lost[i]]
  BY DEF Numbered
<1>2. DOMAIN rows = 1 .. n /\ DOMAIN lost = 1 .. l BY <1>1
<1>3. /\ \A i \in 1 .. n : rows[i].domain = d => SameText(rows[i].text, rows[i].question)
      /\ \A i \in 1 .. l : lost[i].domain # d
  BY <1>2 DEF Exact
<1>4. ASSUME x.domain = d => SameText(x.text, x.question) PROVE Exact(Append(rows, x), lost, d)
  <2>1. PICK all : all = Append(rows, x) OBVIOUS
  <2>2. DOMAIN all = 1 .. (n + 1) /\ all[n + 1] = x /\ \A i \in 1 .. n : all[i] = rows[i]
    BY <1>1, <2>1, OneLonger
  <2>3. \A i \in 1 .. (n + 1) : i = n + 1 \/ i \in 1 .. n BY <1>1
  <2>4. \A i \in 1 .. (n + 1) : all[i].domain = d => SameText(all[i].text, all[i].question) BY <1>3, <1>4, <2>2, <2>3
  <2>5. Exact(all, lost, d) BY <1>2, <1>3, <2>2, <2>4 DEF Exact
  <2> QED BY <2>1, <2>5
<1>5. ASSUME x.domain # d PROVE Exact(rows, Append(lost, x), d)
  <2>1. PICK all : all = Append(lost, x) OBVIOUS
  <2>2. DOMAIN all = 1 .. (l + 1) /\ all[l + 1] = x /\ \A i \in 1 .. l : all[i] = lost[i] BY <1>1, <2>1, OneLonger
  <2>3. \A i \in 1 .. (l + 1) : i = l + 1 \/ i \in 1 .. l BY <1>1
  <2>4. \A i \in 1 .. (l + 1) : all[i].domain # d BY <1>3, <1>5, <2>2, <2>3
  <2>5. Exact(rows, all, d) BY <1>2, <1>3, <2>2, <2>4 DEF Exact
  <2> QED BY <2>1, <2>5
<1> QED BY <1>4, <1>5

\* The questions on file, and the rows of the file, with a text of a domain.
OfText(d, t) == {q \in questions : q.domain = d /\ SameText(q.values.question, t)}
InFile(asked, n, d, t) == {j \in 1 .. n : asked[j].domain = d /\ SameText(asked[j].values.question, t)}

\* Texts that are the same are so in turn and in a row.
LEMMA SameAsSame ==
  /\ \A t \in Texts : t # Blank => SameText(t, t)
  /\ \A t, u \in Texts : SameText(t, u) => SameText(u, t)
  /\ \A t, u, v \in Texts : SameText(t, u) /\ SameText(u, v) => SameText(t, v)
BY AlikeAssumption

\* The list has every question of the questionnaire.
Catalogue(list, m) ==
  /\ m \in Nat /\ list \in [1 .. m -> questions]
  /\ \A q \in questions : q.values.question \in Texts /\ \E k \in 1 .. m : list[k] = q

\* Every row of the file asks something.
Asks(asked, n) == \A j \in 1 .. n : asked[j].values.question \in Texts \ {Blank}

\* A row of the file that has found a question of this text has it too.
LEMMA FoundSame ==
  ASSUME Rows, NEW m, NEW list, Catalogue(list, m), NEW n \in Nat, NEW asked, Asks(asked, n),
         NEW k \in 0 .. n, NEW rows, NEW l, NEW from, NEW who, Pairs(list, asked, rows, l, from, who, k),
         NEW d, NEW t \in Texts, NEW q \in OfText(d, t), NEW i \in 1 .. l, rows[i].id = q.id,
         rows[i].domain = d => SameText(rows[i].text, rows[i].question)
  PROVE  from[i] \in InFile(asked, n, d, t) /\ from[i] \in 1 .. k
<1>1. PICK p, row, j : p = list[who[i]] /\ row = asked[j] /\ j = from[i] OBVIOUS
<1>2. /\ rows[i] = Revision(p, row) /\ p.domain = row.domain
      /\ who[i] \in DOMAIN list /\ j \in 1 .. k
  BY <1>1 DEF Pairs
<1>3. p \in questions BY <1>1, <1>2 DEF Catalogue
<1>4. rows[i].id = p.id /\ rows[i].question = p.values.question /\ rows[i].text = row.values.question
      /\ rows[i].domain = row.domain
  BY <1>2 DEF Revision
<1>5. q \in questions /\ q.domain = d /\ SameText(q.values.question, t) BY DEF OfText
<1>6. p = q BY <1>3, <1>4, <1>5 DEF Rows
<1>7. SameText(row.values.question, q.values.question) /\ row.domain = d BY <1>2, <1>4, <1>5, <1>6
<1>8. j \in 1 .. n BY <1>2
<1>9. row.values.question \in Texts /\ q.values.question \in Texts BY <1>1, <1>5, <1>8 DEF Asks, Catalogue
<1>10. SameText(row.values.question, t) BY <1>5, <1>7, <1>9, SameAsSame
<1> QED BY <1>1, <1>2, <1>7, <1>8, <1>10 DEF InFile

\* Where the file has no more rows of a text than there are questions of it, one is free.
LEMMA OneIsFree ==
  ASSUME Rows, IsFiniteSet(questions), NEW m, NEW list, Catalogue(list, m), NEW n \in Nat, NEW asked, Asks(asked, n),
         NEW k \in 0 .. (n - 1), NEW found, Paired(list, asked, found, k), NEW d, Exact(found.rows, found.unmatched, d),
         NEW t, t = asked[k + 1].values.question, asked[k + 1].domain = d,
         Cardinality(InFile(asked, n, d, t)) <= Cardinality(OfText(d, t))
  PROVE  \E w \in DOMAIN list : /\ list[w].domain = d /\ SameText(t, list[w].values.question)
                                /\ \A i \in DOMAIN found.rows : found.rows[i].id # list[w].id
<1>1. PICK K, A, c : K = OfText(d, t) /\ A = InFile(asked, n, d, t) /\ c = k + 1 OBVIOUS
<1>2. c \in 1 .. n /\ k \in 0 .. n BY <1>1
<1>3. t \in Texts /\ t # Blank BY <1>1, <1>2 DEF Asks
<1>4. IsFiniteSet(K) /\ Cardinality(K) \in Nat
  <2>1. K \in SUBSET questions BY <1>1 DEF OfText
  <2> QED BY <2>1, FS_Subset, FS_CardinalityType
<1>5. IsFiniteSet(A) /\ Cardinality(A) \in Nat
  <2>1. A \in SUBSET (1 .. n) BY <1>1 DEF InFile
  <2>2. IsFiniteSet(1 .. n) BY UpToN
  <2> QED BY <2>1, <2>2, FS_Subset, FS_CardinalityType
<1>6. c \in A
  <2>1. SameText(t, t) BY <1>3, SameAsSame
  <2> QED BY <1>1, <1>2, <2>1 DEF InFile
<1>7. PICK rows, l, from, who : rows = found.rows /\ Pairs(list, asked, rows, l, from, who, k) BY DEF Paired
<1>8. DOMAIN rows = 1 .. l
  <2>1. rows = [i \in 1 .. l |-> rows[i]] BY <1>7 DEF Pairs
  <2> QED BY <2>1
<1>9. ASSUME \A q \in K : \E i \in 1 .. l : rows[i].id = q.id PROVE FALSE
  <2>1. PICK e, h : /\ e = [q \in K |-> CHOOSE i \in 1 .. l : rows[i].id = q.id]
                    /\ h = [q \in K |-> from[e[q]]]
    OBVIOUS
  <2>2. \A q \in K : e[q] \in 1 .. l /\ rows[e[q]].id = q.id BY <1>9, <2>1
  <2>3. ASSUME NEW q \in K PROVE h[q] \in A \ {c}
    <3>1. PICK i : i = e[q] OBVIOUS
    <3>2. i \in 1 .. l /\ rows[i].id = q.id BY <2>2, <3>1
    <3>3. rows[i].domain = d => SameText(rows[i].text, rows[i].question) BY <1>7, <1>8, <3>2 DEF Exact
    <3>4. q \in OfText(d, t) BY <1>1
    <3>5. from[i] \in InFile(asked, n, d, t) /\ from[i] \in 1 .. k BY <1>2, <1>3, <1>7, <3>2, <3>3, <3>4, FoundSame
    <3>6. from[i] # c BY <1>1, <3>5
    <3> QED BY <1>1, <2>1, <3>1, <3>5, <3>6
  <2>4. ASSUME NEW p \in K, NEW q \in K, h[p] = h[q] PROVE p = q
    <3>1. from[e[p]] = from[e[q]] BY <2>1, <2>4
    <3>2. e[p] = e[q]
      <4>1. \A i, j \in 1 .. l : from[i] = from[j] => i = j BY <1>7 DEF Pairs
      <4> QED BY <2>2, <3>1, <4>1
    <3>3. p.id = q.id BY <2>2, <3>2
    <3>4. p \in questions /\ q \in questions BY <1>1 DEF OfText
    <3> QED BY <3>3, <3>4 DEF Rows
  <2>5. PICK T : T = A \ {c} OBVIOUS
  <2>6. h \in Injection(K, T)
    <3>1. h \in [K -> T] BY <2>1, <2>3, <2>5
    <3> QED BY <2>4, <3>1 DEF Injection, IsInjective
  <2>7. IsFiniteSet(T) /\ Cardinality(T) = Cardinality(A) - 1 BY <1>5, <1>6, <2>5, FS_RemoveElement
  <2>8. Cardinality(K) <= Cardinality(T) BY <2>6, <2>7, FS_Injection
  <2>9. Cardinality(A) <= Cardinality(K) BY <1>1
  <2> QED BY <1>4, <1>5, <2>7, <2>8, <2>9
<1>10. PICK q \in K : \A i \in 1 .. l : rows[i].id # q.id BY <1>9
<1>11. q \in questions /\ q.domain = d /\ SameText(q.values.question, t) BY <1>1 DEF OfText
<1>12. PICK w \in DOMAIN list : list[w] = q BY <1>11 DEF Catalogue
<1>13. SameText(t, q.values.question)
  <2>1. q.values.question \in Texts BY <1>11 DEF Catalogue
  <2> QED BY <1>3, <1>11, <2>1, SameAsSame
<1> QED BY <1>7, <1>8, <1>10, <1>11, <1>12, <1>13

\* The file's rows of the domain, each of them no more often than it is on file.
NoMore(asked, n, d) ==
  \A j \in 1 .. n : asked[j].domain = d =>
    Cardinality(InFile(asked, n, d, asked[j].values.question))
      <= Cardinality(OfText(d, asked[j].values.question))

\* So every one of them finds its own text.
LEMMA AllExact ==
  ASSUME Rows, IsFiniteSet(questions), NEW m, NEW list, Catalogue(list, m), NEW n \in Nat, NEW asked, Asks(asked, n),
         NEW f, Matched(f, list, asked, n), NEW d, NoMore(asked, n, d)
  PROVE  Exact(f[n].rows, f[n].unmatched, d)
<1> DEFINE P == {k \in 0 .. n : Exact(f[k].rows, f[k].unmatched, d)}
<1>1. f[0] = NoRevisions /\ \A k \in 0 .. (n - 1) : f[k + 1] = Match(list, f[k], asked[k + 1])
  <2>1. \A k \in 0 .. (n - 1) : k + 1 \in 0 .. n /\ k + 1 # 0 /\ (k + 1) - 1 = k OBVIOUS
  <2> QED BY <2>1 DEF Matched
<1>2. list \in Seq(questions) /\ \A q \in questions : q.values.question \in Texts BY DEF Catalogue
<1>3. \A k \in 0 .. n : Paired(list, asked, f[k], k) BY <1>2, AllPaired
<1>4. 0 \in P
  <2>1. NoRevisions.rows = <<>> /\ NoRevisions.unmatched = <<>> BY DEF NoRevisions
  <2>2. Exact(NoRevisions.rows, NoRevisions.unmatched, d) BY <2>1 DEF Exact
  <2> QED BY <1>1, <2>2
<1>5. ASSUME NEW k \in 0 .. (n - 1), k \in P PROVE k + 1 \in P
  <2>1. PICK found, next, row : found = f[k] /\ next = f[k + 1] /\ row = asked[k + 1] OBVIOUS
  <2>2. next = Match(list, found, row) BY <1>1, <2>1
  <2>3. Exact(found.rows, found.unmatched, d) /\ Paired(list, asked, found, k) BY <1>3, <1>5, <2>1
  <2>4. PICK rows, unmatched : rows = found.rows /\ unmatched = found.unmatched OBVIOUS
  <2>5. found = [rows |-> rows, unmatched |-> unmatched] BY <2>3, <2>4 DEF Paired
  <2>6. k + 1 \in 1 .. n OBVIOUS
  <2>7. PICK l, g : Numbered(rows, l) /\ Numbered(unmatched, g) BY <2>3, <2>4 DEF Paired, Pairs, Leaves, Numbered
  <2>8. Exact(rows, unmatched, d) BY <2>3, <2>4
  <2>9. Exact(next.rows, next.unmatched, d) => k + 1 \in P BY <2>1, <2>6
  <2>10. row.values.question \in Texts BY <2>1, <2>6 DEF Asks
  <2>11. CASE row.domain = d
    <3>1. PICK t : t = row.values.question OBVIOUS
    <3>2. Cardinality(InFile(asked, n, d, t)) <= Cardinality(OfText(d, t)) BY <2>1, <2>6, <2>11, <3>1 DEF NoMore
    <3>3. PICK w \in DOMAIN list : /\ list[w].domain = d /\ SameText(t, list[w].values.question)
                                   /\ \A i \in DOMAIN found.rows : found.rows[i].id # list[w].id
      BY <2>1, <2>3, <2>11, <3>1, <3>2, OneIsFree
    <3>4. PICK v : FindsSame(list, found, next, row, v)
      BY <1>2, <2>2, <2>5, <2>10, <2>11, <3>1, <3>3, MatchesSame
    <3>5. PICK x : x = Revision(list[v], row) OBVIOUS
    <3>6. next = [rows |-> Append(rows, x), unmatched |-> unmatched] BY <2>4, <3>4, <3>5 DEF FindsSame
    <3>7. SameText(row.values.question, list[v].values.question) BY <3>4 DEF FindsSame
    <3>8. SameText(x.text, x.question) BY <3>5, <3>7 DEF Revision
    <3>9. Exact(Append(rows, x), unmatched, d) BY <2>7, <2>8, <3>8, ExactOn
    <3>10. next.rows = Append(rows, x) /\ next.unmatched = unmatched BY <3>6
    <3> QED BY <2>9, <3>9, <3>10
  <2>12. CASE row.domain # d
    <3>1. IsLeft(found, next, row) \/ \E w : Finds(list, found, next, row, w) BY <1>2, <2>2, <2>5, OneMatch
    <3>2. CASE IsLeft(found, next, row)
      <4>1. PICK x : x = Left(row) OBVIOUS
      <4>2. next = [rows |-> rows, unmatched |-> Append(unmatched, x)] BY <2>4, <3>2, <4>1 DEF IsLeft
      <4>3. x.domain # d BY <2>12, <4>1 DEF Left
      <4>4. Exact(rows, Append(unmatched, x), d) BY <2>7, <2>8, <4>3, ExactOn
      <4>5. next.rows = rows /\ next.unmatched = Append(unmatched, x) BY <4>2
      <4> QED BY <2>9, <4>4, <4>5
    <3>3. CASE \E w : Finds(list, found, next, row, w)
      <4>1. PICK w : Finds(list, found, next, row, w) BY <3>3
      <4>2. PICK x : x = Revision(list[w], row) OBVIOUS
      <4>3. next = [rows |-> Append(rows, x), unmatched |-> unmatched] BY <2>4, <4>1, <4>2 DEF Finds
      <4>4. x.domain # d BY <2>12, <4>2 DEF Revision
      <4>5. Exact(Append(rows, x), unmatched, d) BY <2>7, <2>8, <4>4, ExactOn
      <4>6. next.rows = Append(rows, x) /\ next.unmatched = unmatched BY <4>3
      <4> QED BY <2>9, <4>5, <4>6
    <3> QED BY <3>1, <3>2, <3>3
  <2> QED BY <2>11, <2>12
<1>6. P \in SUBSET (0 .. n) OBVIOUS
<1> HIDE DEF P
<1>7. P = 0 .. n BY <1>4, <1>5, <1>6, UpTo
<1>8. n \in P BY <1>7
<1> QED BY <1>8 DEF P

\* What a function makes of a finite set is not larger.
ImageOf(g, S) == {g[x] : x \in S}

LEMMA ImageSize ==
  ASSUME NEW S, IsFiniteSet(S), NEW g
  PROVE  IsFiniteSet(ImageOf(g, S)) /\ Cardinality(ImageOf(g, S)) <= Cardinality(S)
<1>1. PICK h, T : h = [x \in S |-> g[x]] /\ T = ImageOf(g, S) OBVIOUS
<1>2. h \in [S -> T] /\ \A y \in T : \E x \in S : h[x] = y BY <1>1 DEF ImageOf
<1>3. h \in Surjection(S, T) BY <1>2 DEF Surjection
<1>4. IsFiniteSet(T) /\ Cardinality(T) <= Cardinality(S) BY <1>3, FS_Surjection
<1> QED BY <1>1, <1>4

\* The places on the page that have a text of a domain.
Places(rows, d, t) == {i \in DOMAIN rows : rows[i].domain = d /\ SameText(rows[i].text, t)}

\* Row i of the list is row from[i] of the file.
ComesFrom(rows, l, from, asked, n) ==
  /\ Numbered(rows, l) /\ from \in [1 .. l -> 1 .. n]
  /\ \A i \in 1 .. l : rows[i].domain = asked[from[i]].domain /\ rows[i].text = asked[from[i]].values.question

\* The rows of the file that are in the list, as many as there are there at most.
Traced(T, S, from, l, A) ==
  /\ IsFiniteSet(T) /\ Cardinality(T) \in Nat /\ Cardinality(T) <= Cardinality(S)
  /\ \A j \in A : (\E i \in 1 .. l : from[i] = j) => j \in T

LEMMA CountedPlaces ==
  ASSUME NEW rows, NEW l, Numbered(rows, l), NEW d, NEW t
  PROVE  /\ DOMAIN rows = 1 .. l
         /\ IsFiniteSet(Places(rows, d, t)) /\ Cardinality(Places(rows, d, t)) \in Nat
<1>1. l \in Nat /\ rows = [i \in 1 .. l |-> rows[i]] BY DEF Numbered
<1>2. DOMAIN rows = 1 .. l BY <1>1
<1>3. PICK S : S = Places(rows, d, t) OBVIOUS
<1>4. S \in SUBSET (1 .. l) BY <1>2, <1>3 DEF Places
<1>5. IsFiniteSet(1 .. l) BY <1>1, UpToN
<1>6. IsFiniteSet(S) /\ Cardinality(S) \in Nat BY <1>4, <1>5, FS_Subset, FS_CardinalityType
<1> QED BY <1>2, <1>3, <1>6

LEMMA PlacesFrom ==
  ASSUME NEW rows, NEW l, NEW from, NEW asked, NEW n, ComesFrom(rows, l, from, asked, n), NEW d, NEW t
  PROVE  \E T : Traced(T, Places(rows, d, t), from, l, InFile(asked, n, d, t))
<1>1. PICK S, T : S = Places(rows, d, t) /\ T = ImageOf(from, S) OBVIOUS
<1>2. Numbered(rows, l) BY DEF ComesFrom
<1>3. DOMAIN rows = 1 .. l /\ IsFiniteSet(S) /\ Cardinality(S) \in Nat BY <1>1, <1>2, CountedPlaces
<1>4. IsFiniteSet(T) /\ Cardinality(T) <= Cardinality(S) BY <1>1, <1>3, ImageSize
<1>5. Cardinality(T) \in Nat BY <1>4, FS_CardinalityType
<1>6. ASSUME NEW j \in InFile(asked, n, d, t), \E i \in 1 .. l : from[i] = j PROVE j \in T
  <2>1. PICK i \in 1 .. l : from[i] = j BY <1>6
  <2>2. asked[j].domain = d /\ SameText(asked[j].values.question, t) BY DEF InFile
  <2>3. rows[i].domain = d /\ SameText(rows[i].text, t) BY <2>1, <2>2 DEF ComesFrom
  <2>4. i \in S BY <1>1, <1>3, <2>1, <2>3 DEF Places
  <2> QED BY <1>1, <2>1, <2>4 DEF ImageOf
<1>7. Traced(T, S, from, l, InFile(asked, n, d, t)) BY <1>4, <1>5, <1>6 DEF Traced
<1> QED BY <1>1, <1>7

\* Every row of the file is on the page.
LEMMA AllCameBack ==
  ASSUME NEW n \in Nat, NEW asked, NEW list, NEW r, Paired(list, asked, r, n), NEW d, NEW t
  PROVE  Cardinality(InFile(asked, n, d, t)) <= CameBack(r, d, t)
<1>1. PICK l, from, who, g, gone :
        /\ Pairs(list, asked, r.rows, l, from, who, n) /\ Leaves(asked, r.unmatched, g, gone, n)
        /\ \A x \in 1 .. n : (\E i \in 1 .. l : from[i] = x) \/ (\E j \in 1 .. g : gone[j] = x)
  BY DEF Paired
<1>2. PICK rows, lost, S, L, A : /\ rows = r.rows /\ lost = r.unmatched /\ A = InFile(asked, n, d, t)
                                 /\ S = Places(rows, d, t) /\ L = Places(lost, d, t)
  OBVIOUS
<1>3. CameBack(r, d, t) = Cardinality(S) + Cardinality(L) BY <1>2 DEF CameBack, Places
<1>4. ComesFrom(rows, l, from, asked, n)
  <2>1. l \in Nat /\ rows = [i \in 1 .. l |-> rows[i]] /\ from \in [1 .. l -> 1 .. n] BY <1>1, <1>2 DEF Pairs
  <2>2. ASSUME NEW i \in 1 .. l
        PROVE  rows[i].domain = asked[from[i]].domain /\ rows[i].text = asked[from[i]].values.question
    <3>1. rows[i] = Revision(list[who[i]], asked[from[i]]) BY <1>1, <1>2 DEF Pairs
    <3>2. \A q, row : Revision(q, row).domain = row.domain /\ Revision(q, row).text = row.values.question
      BY DEF Revision
    <3> QED BY <3>1, <3>2
  <2> QED BY <2>1, <2>2 DEF ComesFrom, Numbered
<1>5. ComesFrom(lost, g, gone, asked, n)
  <2>1. g \in Nat /\ lost = [i \in 1 .. g |-> lost[i]] /\ gone \in [1 .. g -> 1 .. n] BY <1>1, <1>2 DEF Leaves
  <2>2. ASSUME NEW i \in 1 .. g
        PROVE  lost[i].domain = asked[gone[i]].domain /\ lost[i].text = asked[gone[i]].values.question
    <3>1. lost[i] = Left(asked[gone[i]]) BY <1>1, <1>2 DEF Leaves
    <3> QED BY <3>1 DEF Left
  <2> QED BY <2>1, <2>2 DEF ComesFrom, Numbered
<1>6. PICK T : Traced(T, S, from, l, A) BY <1>2, <1>4, PlacesFrom
<1>7. PICK U : Traced(U, L, gone, g, A) BY <1>2, <1>5, PlacesFrom
<1>8. /\ IsFiniteSet(T) /\ Cardinality(T) \in Nat /\ Cardinality(T) <= Cardinality(S)
       /\ IsFiniteSet(U) /\ Cardinality(U) \in Nat /\ Cardinality(U) <= Cardinality(L)
  BY <1>6, <1>7 DEF Traced
<1>9. Cardinality(S) \in Nat /\ Cardinality(L) \in Nat
  <2>1. Numbered(rows, l) /\ Numbered(lost, g) BY <1>4, <1>5 DEF ComesFrom
  <2> QED BY <1>2, <2>1, CountedPlaces
<1>10. A \in SUBSET (T \cup U)
  <2>1. A \in SUBSET (1 .. n) BY <1>2 DEF InFile
  <2>2. \A j \in A : (\E i \in 1 .. l : from[i] = j) => j \in T BY <1>6 DEF Traced
  <2>3. \A j \in A : (\E i \in 1 .. g : gone[i] = j) => j \in U BY <1>7 DEF Traced
  <2> QED BY <1>1, <2>1, <2>2, <2>3
<1>11. PICK V, W : V = T \cup U /\ W = T \cap U OBVIOUS
<1>12. IsFiniteSet(V) /\ Cardinality(V) = Cardinality(T) + Cardinality(U) - Cardinality(W)
  BY <1>11, <1>8, FS_Union
<1>13. Cardinality(W) \in Nat
  <2>1. W \in SUBSET T BY <1>11
  <2> QED BY <1>8, <2>1, FS_Subset, FS_CardinalityType
<1>14. Cardinality(A) <= Cardinality(V) /\ Cardinality(A) \in Nat
  <2>1. A \in SUBSET V BY <1>10, <1>11
  <2> QED BY <1>12, <2>1, FS_Subset, FS_CardinalityType
<1>15. Cardinality(A) <= Cardinality(S) + Cardinality(L) BY <1>12, <1>13, <1>14, <1>8, <1>9
<1> QED BY <1>2, <1>3, <1>15

\* Where all that came back is on file, so is every row of the file.
LEMMA OursInFile ==
  ASSUME NEW n \in Nat, NEW asked, Asks(asked, n), NEW list, NEW r, Paired(list, asked, r, n),
         IsFiniteSet(questions), NEW d, OnlyOurs(r, d)
  PROVE  NoMore(asked, n, d)
<1> SUFFICES ASSUME NEW j \in 1 .. n, asked[j].domain = d
             PROVE  Cardinality(InFile(asked, n, d, asked[j].values.question))
                      <= Cardinality(OfText(d, asked[j].values.question))
  BY DEF NoMore
<1>1. PICK t : t = asked[j].values.question OBVIOUS
<1>2. PICK l, from, who, g, gone :
        /\ Pairs(list, asked, r.rows, l, from, who, n) /\ Leaves(asked, r.unmatched, g, gone, n)
        /\ \A x \in 1 .. n : (\E i \in 1 .. l : from[i] = x) \/ (\E i \in 1 .. g : gone[i] = x)
  BY DEF Paired
<1>3. PICK rows, lost : rows = r.rows /\ lost = r.unmatched OBVIOUS
<1>4. OnFile(d, t) = Cardinality(OfText(d, t)) BY DEF OnFile, OfText
<1>5. CameBack(r, d, t) <= OnFile(d, t)
  <2>1. ASSUME NEW i \in 1 .. l, from[i] = j PROVE CameBack(r, d, t) <= OnFile(d, t)
    <3>1. rows[i] = Revision(list[who[i]], asked[j]) BY <1>2, <1>3, <2>1 DEF Pairs
    <3>2. rows[i].domain = d /\ rows[i].text = t BY <1>1, <3>1 DEF Revision
    <3>3. rows = [x \in 1 .. l |-> rows[x]] BY <1>2, <1>3 DEF Pairs
    <3>4. i \in DOMAIN rows BY <3>3
    <3> QED BY <1>3, <3>2, <3>4 DEF OnlyOurs
  <2>2. ASSUME NEW i \in 1 .. g, gone[i] = j PROVE CameBack(r, d, t) <= OnFile(d, t)
    <3>1. lost[i] = Left(asked[j]) BY <1>2, <1>3, <2>2 DEF Leaves
    <3>2. lost[i].domain = d /\ lost[i].text = t BY <1>1, <3>1 DEF Left
    <3>3. lost = [x \in 1 .. g |-> lost[x]] BY <1>2, <1>3 DEF Leaves
    <3>4. i \in DOMAIN lost BY <3>3
    <3> QED BY <1>3, <3>2, <3>4 DEF OnlyOurs
  <2> QED BY <1>2, <2>1, <2>2
<1>6. Cardinality(InFile(asked, n, d, t)) <= CameBack(r, d, t) BY AllCameBack
<1>7. PICK a, b, c : a = Cardinality(InFile(asked, n, d, t)) /\ b = CameBack(r, d, t) /\ c = Cardinality(OfText(d, t))
  OBVIOUS
<1>8. a \in Nat /\ b \in Nat /\ c \in Nat
  <2>1. InFile(asked, n, d, t) \in SUBSET (1 .. n) /\ IsFiniteSet(1 .. n) BY UpToN DEF InFile
  <2>2. a \in Nat BY <1>7, <2>1, FS_Subset, FS_CardinalityType
  <2>3. OfText(d, t) \in SUBSET questions BY DEF OfText
  <2>4. c \in Nat BY <1>7, <2>3, FS_Subset, FS_CardinalityType
  <2>5. b \in Nat
    <3>1. Numbered(rows, l) BY <1>2, <1>3 DEF Pairs, Numbered
    <3>2. Numbered(lost, g) BY <1>2, <1>3 DEF Leaves, Numbered
    <3>3. PICK S, L : S = Places(rows, d, t) /\ L = Places(lost, d, t) OBVIOUS
    <3>4. Cardinality(S) \in Nat /\ Cardinality(L) \in Nat BY <3>1, <3>2, <3>3, CountedPlaces
    <3>5. CameBack(r, d, t) = Cardinality(S) + Cardinality(L) BY <1>3, <3>3 DEF CameBack, Places
    <3> QED BY <1>7, <3>4, <3>5
  <2> QED BY <2>2, <2>4, <2>5
<1>9. a <= b /\ b <= c BY <1>4, <1>5, <1>6, <1>7
<1>10. a <= c BY <1>8, <1>9
<1> QED BY <1>1, <1>7, <1>10

\* The page is as exact as the matching was.
LEMMA ExactPage ==
  ASSUME NEW n \in Nat, NEW X, NEW list \in Seq(X), NEW asked, NEW f, NEW r, Shows(r, f, list, asked, n),
         NEW d, Exact(f[n].rows, f[n].unmatched, d)
  PROVE  Exact(r.rows, r.unmatched, d)
<1>1. PICK found, rows, all, lost : found = f[n] /\ rows = found.rows /\ all = ChangesFirst(rows) /\ lost = found.unmatched
  OBVIOUS
<1>2. Paired(list, asked, found, n)
  <2>1. Matched(f, list, asked, n) BY DEF Shows
  <2>2. \A k \in 0 .. n : Paired(list, asked, f[k], k) BY <2>1, AllPaired
  <2> QED BY <1>1, <2>2
<1>3. PICK l, from, who : Pairs(list, asked, rows, l, from, who, n) BY <1>1, <1>2 DEF Paired
<1>4. l \in Nat /\ rows = [i \in 1 .. l |-> rows[i]] BY <1>3 DEF Pairs
<1>5. \A i \in 1 .. l : rows[i].changed \in BOOLEAN
  <2>1. \A q, row : Revision(q, row).changed
                    = (row.values.answer # Blank /\ row.values.answer # q.values.answer)
    BY DEF Revision
  <2>2. \A q, row : Revision(q, row).changed \in BOOLEAN BY <2>1
  <2>3. \A i \in 1 .. l : rows[i] = Revision(list[who[i]], asked[from[i]]) BY <1>3 DEF Pairs
  <2> QED BY <2>2, <2>3
<1>6. PICK at : Reorders(at, l, rows, all) BY <1>1, <1>4, <1>5, Reordered
<1>7. at \in [1 .. l -> 1 .. l] /\ all = [i \in 1 .. l |-> rows[at[i]]] BY <1>6 DEF Reorders
<1>8. r = [rows |-> all, unmatched |-> lost] BY <1>1 DEF Shows
<1>9. r.rows = all /\ r.unmatched = lost BY <1>8
<1>10. DOMAIN rows = 1 .. l BY <1>4
<1>11. /\ \A i \in 1 .. l : rows[i].domain = d => SameText(rows[i].text, rows[i].question)
       /\ \A i \in DOMAIN lost : lost[i].domain # d
  BY <1>1, <1>10 DEF Exact
<1>12. DOMAIN all = 1 .. l /\ \A i \in 1 .. l : all[i].domain = d => SameText(all[i].text, all[i].question)
  BY <1>7, <1>11
<1> QED BY <1>9, <1>11, <1>12 DEF Exact

\* What a page of returned answers promises.
FindsTheirs(r) ==
  /\ \A i, k \in DOMAIN r.rows : r.rows[i].id = r.rows[k].id => i = k
  /\ \A i \in DOMAIN r.rows : OnlyOurs(r, r.rows[i].domain) => SameText(r.rows[i].text, r.rows[i].question)
  /\ \A i \in DOMAIN r.unmatched : ~OnlyOurs(r, r.unmatched[i].domain)

LEMMA PageFinds ==
  ASSUME Rows, IsFiniteSet(questions), NEW m, NEW list, Catalogue(list, m), NEW n \in Nat, NEW asked, Asks(asked, n),
         NEW f, NEW r, Shows(r, f, list, asked, n)
  PROVE  FindsTheirs(r)
<1>1. list \in Seq(questions) BY DEF Catalogue
<1>2. Paired(list, asked, r, n) BY <1>1, RevisionsPaired
<1>3. ASSUME NEW d, OnlyOurs(r, d) PROVE Exact(r.rows, r.unmatched, d)
  <2>1. NoMore(asked, n, d) BY <1>2, <1>3, OursInFile
  <2>2. Matched(f, list, asked, n) BY DEF Shows
  <2>3. Exact(f[n].rows, f[n].unmatched, d) BY <2>1, <2>2, AllExact
  <2> QED BY <1>1, <2>3, ExactPage
<1>4. \A i, k \in DOMAIN r.rows : r.rows[i].id = r.rows[k].id => i = k
  <2>1. PICK rows, l, from, who : rows = r.rows /\ Pairs(list, asked, rows, l, from, who, n) BY <1>2 DEF Paired
  <2>2. rows = [i \in 1 .. l |-> rows[i]] BY <2>1 DEF Pairs
  <2>3. DOMAIN rows = 1 .. l BY <2>2
  <2>4. \A i \in 1 .. l : rows[i].id = list[who[i]].id
    <3>1. \A i \in 1 .. l : rows[i] = Revision(list[who[i]], asked[from[i]]) BY <2>1 DEF Pairs
    <3>2. \A q, row : Revision(q, row).id = q.id BY DEF Revision
    <3> QED BY <3>1, <3>2
  <2>5. \A i, k \in 1 .. l : list[who[i]].id = list[who[k]].id => i = k BY <2>1 DEF Pairs
  <2>6. \A i, k \in DOMAIN rows : rows[i].id = rows[k].id => i = k BY <2>3, <2>4, <2>5
  <2> QED BY <2>1, <2>6
<1>5. \A i \in DOMAIN r.rows : OnlyOurs(r, r.rows[i].domain) => SameText(r.rows[i].text, r.rows[i].question)
  BY <1>3 DEF Exact
<1>6. \A i \in DOMAIN r.unmatched : ~OnlyOurs(r, r.unmatched[i].domain) BY <1>3 DEF Exact
<1> QED BY <1>4, <1>5, <1>6 DEF FindsTheirs

\* A row that comes back as it was finds its question, whatever became of the others, and
\* no question is found twice: for any workbook, any questions and any similarity that
\* tells texts apart.
THEOREM RevisionsFind == Spec => RevisionsFindTheirQuestion
<1> DEFINE Inv  == Rows /\ Pages /\ AsMapped /\ Finite /\ Worded
           Find == returned' # returned => FindsTheirs(returned')
<1>1. Init => Inv BY InitRows, InitPages, InitAsMapped, InitWorded
<1>2. Inv /\ [Next]_vars => Inv' BY NextRows, NextPages, NextAsMapped, NextWorded
<1>3. ASSUME Rows, Pages, AsMapped, Finite, Worded, [Next]_vars, returned' # returned PROVE FindsTheirs(returned')
  <2>1. ASSUME returned' = NoRevisions PROVE FindsTheirs(returned')
    <3>1. returned'.rows = <<>> /\ returned'.unmatched = <<>> BY <2>1 DEF NoRevisions
    <3> QED BY <3>1 DEF FindsTheirs
  <2>2. CASE UploadAnswerRevisions
    <3>1. PICK shown, list : /\ shown = ListForReview(questions) /\ list \in Edits(sent)
                             /\ returned' = PreviewAnswerRevisions(shown, ExportXLSX(list))
      BY <2>2, Zenon DEF UploadAnswerRevisions
    <3>2. PICK was, n : was = sent /\ n \in Nat /\ TextList(was, n) BY <1>3 DEF Worded
    <3>3. PICK l \in Nat : TextList(list, l) BY <3>1, <3>2, EditedTexted
    <3>4. PICK T : list \in Seq(T) BY <3>3, ListIs
    <3>5. PICK book, r, asked : book = ExportXLSX(list) /\ r = returned' /\ asked = Returning(book) OBVIOUS
    <3>6. Readable(book) /\ TextBook(book) BY <3>3, <3>4, <3>5, ReturnedBook, ExportedTexts
    <3>7. r = PreviewAnswerRevisions(shown, book) BY <3>1, <3>5
    <3>8. r = NoRevisions \/ \E k \in Nat : \E f : AreAsked(asked, k) /\ Shows(r, f, shown, asked, k)
      BY <3>5, <3>6, <3>7, RevisionsShown
    <3>9. ASSUME NEW k \in Nat, NEW f, AreAsked(asked, k), Shows(r, f, shown, asked, k) PROVE FindsTheirs(r)
      <4>1. PICK m : Catalogue(shown, m)
        <5>1. PICK m \in Nat : /\ shown \in [1 .. m -> questions]
                               /\ \A q \in questions : \E i \in 1 .. m : shown[i] = q
          BY <1>3, <3>1, ListOf
        <5>2. ASSUME NEW q \in questions PROVE q.values.question \in Texts
          <6>1. TextQuestion(q) BY <1>3 DEF Worded
          <6> QED BY <6>1, FieldsAssumption DEF TextQuestion, TextValues
        <5> QED BY <5>1, <5>2 DEF Catalogue
      <4>2. DOMAIN asked = 1 .. k
        <5>1. asked = [i \in 1 .. k |-> asked[i]] BY <3>9 DEF AreAsked
        <5> QED BY <5>1
      <4>3. \A i \in 1 .. k : TextValues(asked[i].values) BY <3>5, <3>6, <4>2, ReturningTexts
      <4>4. Asks(asked, k) BY <4>3, FieldsAssumption DEF Asks, TextValues
      <4>5. IsFiniteSet(questions) BY <1>3 DEF Finite
      <4> QED BY <1>3, <3>9, <4>1, <4>4, <4>5, PageFinds
    <3> QED BY <2>1, <3>5, <3>8, <3>9
  <2>3. CASE ReturnStep
    <3>1. Export => UNCHANGED returned BY Zenon DEF Export
    <3>2. Upload => returned' = NoRevisions BY Zenon DEF Upload
    <3>3. \A ids : ApplyAnswerRevisions(ids) => returned' = NoRevisions BY Zenon DEF ApplyAnswerRevisions
    <3> QED BY <1>3, <2>1, <2>2, <2>3, <3>1, <3>2, <3>3, Zenon DEF ReturnStep
  <2>4. CASE SignOffStep
    <3>1. UNCHANGED <<mapped, returned>> BY <1>3, <2>4, SignOffKeeps
    <3> QED BY <1>3, <3>1
  <2>5. CASE MapStep
    <3>1. \A r, d : ConfirmMapping(r, d) => UNCHANGED returned BY Zenon DEF ConfirmMapping, Ingest
    <3>2. \A sheet : MappingPage(sheet) => UNCHANGED returned BY Zenon DEF MappingPage
    <3>3. \A c, g : RepreviewMapping(c, g) => UNCHANGED returned BY Zenon DEF RepreviewMapping
    <3>4. UNCHANGED returned BY <2>5, <3>1, <3>2, <3>3, Zenon DEF MapStep
    <3> QED BY <1>3, <3>4
  <2>6. CASE UNCHANGED vars BY <1>3, <2>6 DEF vars
  <2> QED BY <1>3, <2>3, <2>4, <2>5, <2>6 DEF Next
<1>4. Inv /\ [Next]_vars => Find BY <1>3
<1>5. Find => (returned' # returned =>
       LET rows == returned'.rows
           lost == returned'.unmatched
       IN  /\ \A i, k \in DOMAIN rows : rows[i].id = rows[k].id => i = k
           /\ \A i \in DOMAIN rows : OnlyOurs(returned', rows[i].domain) => SameText(rows[i].text, rows[i].question)
           /\ \A i \in DOMAIN lost : ~OnlyOurs(returned', lost[i].domain))
  BY Zenon DEF FindsTheirs
<1> HIDE DEF Inv, Find
<1> QED BY <1>1, <1>2, <1>4, <1>5, PTL DEF Spec, RevisionsFindTheirQuestion
=============================================================================
