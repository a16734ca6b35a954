------------------------------ MODULE Exports ------------------------------
(***************************************************************************)
(* What leaves the program and comes back: the questionnaire exported in   *)
(* the template's layout, and the rows of a returned one matched to the    *)
(* questions they are about.  Styles, widths and the review's figures in   *)
(* the CSV are left out.                                                   *)
(***************************************************************************)
EXTENDS Sheets

CONSTANTS
  Label,     \* [field -> its column's title in the template]
  NameOf,    \* [domain -> its name]
  Marked,    \* [text -> the text behind "[DRAFT - NOT YET SIGNED OFF] "]
  Alike      \* [text -> [text -> how far the one resembles the other]]

\* A title is its field's own name (dto/template_field.go:17-53), and no other's.
ASSUME TitlesAssumption == /\ Label \in [FieldSet -> Texts \ {Blank}]
                           /\ \A f, k \in FieldSet : FieldLike[Label[f]][k] = 100 <=> k = f
ASSUME NamesAssumption  == NameOf \in [DomainSet -> Texts \ {Blank}] /\ Marked \in [Texts -> Texts]

AnswerMatchThreshold == 90

\* The same text, but for letter case and the space around it.
SameText(t, u) == Alike[t][u] = 100

ASSUME AlikeAssumption ==
  /\ Alike \in [Texts -> [Texts -> 0 .. 100]]
  /\ \A t, u, v \in Texts : /\ t # Blank => SameText(t, t)
                            /\ SameText(t, u) => SameText(u, t)
                            /\ SameText(t, u) /\ SameText(u, v) => SameText(t, v)

\* The questions by domain, in the order of the file.
ListForReview(questions) ==
  LET place(q) == CHOOSE i \in DOMAIN Domains : Domains[i] = q.domain
      before(p, q) == \/ place(p) < place(q)
                      \/ place(p) = place(q) /\ p.position < q.position
  IN  InOrder(questions, {p \in questions \X questions : before(p[1], p[2])})

\* Mutant: whatever a person once wrote counts as signed.
FeedbackOnceSigned(q) ==
  IF q.final # Blank THEN [text |-> q.final, unconfirmed |-> FALSE]
  ELSE [text |-> q.draft, unconfirmed |-> TRUE]

EffectiveFeedback(q) ==
  IF q.final # Blank THEN [text |-> q.final, unconfirmed |-> q.status # "finalized"]
  ELSE [text |-> q.draft, unconfirmed |-> TRUE]

\* The line of the CSV export that is a question's.
CSVLine(q) ==
  [domain |-> q.domain, values |-> q.values, feedback |-> EffectiveFeedback(q).text,
   state |-> CASE q.status = "finalized" -> "signed off"
               [] q.status # "finalized" /\ EffectiveFeedback(q).text = Blank -> "not reviewed"
               [] OTHER -> "unconfirmed"]

\* The feedback as the workbook shows it: never unmarked before it is signed.
ShownFeedback(q) ==
  LET said == EffectiveFeedback(q) IN
  IF said.unconfirmed /\ said.text # Blank THEN Marked[said.text] ELSE said.text

\* Mutant: one heading at the top of the sheet.
HeadingOnce(list, i) == i = 1

\* A heading precedes every question whose domain is not that of the one before.
OpensDomain(list, i) == i = 1 \/ list[i].domain # list[i - 1].domain

\* The template's titles, and under them each domain's heading, merged across the
\* sheet, and its questions.
ExportXLSX(list) ==
  LET heading(i) == <<NameOf[list[i].domain]>>
      row(i)     == [c \in DOMAIN Fields |-> IF Fields[c] = "feedback" THEN ShownFeedback(list[i])
                                             ELSE list[i].values[Fields[c]]]
      lines(i)   == IF OpensDomain(list, i) THEN <<heading(i), row(i)>> ELSE <<row(i)>>
      titles     == [c \in DOMAIN Fields |-> Label[Fields[c]]]
      rows   == <<titles>> \o FlattenSeq([i \in DOMAIN list |-> lines(i)])
      merged == {r \in DOMAIN rows : Len(rows[r]) < Len(Fields)}
  IN  [csv |-> FALSE,
       sheets |-> <<[name |-> "Sheet1", rows |-> rows,
                     merged |-> {[top |-> r, bottom |-> r, left |-> 1, right |-> Len(Fields)] : r \in merged}]>>]

(***************************************************************************)
(* Returned answers                                                        *)
(***************************************************************************)
\* Mutant: a question may be matched again.
BestMatch(text, candidates, claimed) ==
  LET open == {i \in DOMAIN candidates : Alike[text][candidates[i].values.question] > 0}
      best == {i \in open : \A j \in open : Alike[text][candidates[j].values.question]
                                             <= Alike[text][candidates[i].values.question]}
  IN  IF best = {} THEN 0 ELSE Min(best)

\* The first of the most similar questions no earlier row has claimed.
BestUnclaimedMatch(text, candidates, claimed) ==
  LET open == {i \in DOMAIN candidates : /\ candidates[i].id \notin claimed
                                         /\ Alike[text][candidates[i].values.question] > 0}
      best == {i \in open : \A j \in open : Alike[text][candidates[j].values.question]
                                             <= Alike[text][candidates[i].values.question]}
  IN  IF best = {} THEN 0 ELSE Min(best)

NoRevisions == [rows |-> <<>>, unmatched |-> <<>>]

\* A row of the file that is about question q.  A blank answer changes nothing.
Revision(q, row) ==
  [id |-> q.id, question |-> q.values.question, text |-> row.values.question,
   domain |-> row.domain, answer |-> row.values.answer,
   changed |-> row.values.answer # Blank /\ row.values.answer # q.values.answer]

\* One row of the file finds its question, or is left to be sorted out by hand.
Match(list, found, row) ==
  LET text == row.values.question
      own  == Sublist(list, {k \in DOMAIN list : list[k].domain = row.domain})
      i    == BestUnclaimedMatch(text, own, {found.rows[k].id : k \in DOMAIN found.rows})
  IN  IF i = 0 \/ (i # 0 /\ Alike[text][own[i].values.question] < AnswerMatchThreshold)
      THEN [found EXCEPT !.unmatched = Append(@, [text |-> text, domain |-> row.domain])]
      ELSE [found EXCEPT !.rows = Append(@, Revision(own[i], row))]

\* The rows that change something come first.
ChangesFirst(rows) ==
  LET before(i, k) == \/ rows[i].changed /\ ~rows[k].changed
                      \/ rows[i].changed = rows[k].changed /\ i < k
      order == InOrder(DOMAIN rows, {p \in (DOMAIN rows) \X (DOMAIN rows) : before(p[1], p[2])})
  IN  [k \in DOMAIN order |-> rows[order[k]]]

\* The file is read as a new questionnaire would be; without a question it is refused.
PreviewAnswerRevisions(list, book) ==
  LET grid  == ReadGrid(book)
      asked == QuestionRows(PreviewGrid(grid).rows)
      found[k \in 0 .. Len(asked)] == IF k = 0 THEN NoRevisions ELSE Match(list, found[k - 1], asked[k])
      all   == found[Len(asked)]
  IN  IF grid.rows = <<>> THEN NoRevisions
      ELSE [rows |-> ChangesFirst(all.rows), unmatched |-> all.unmatched]
=============================================================================
