------------------------------- MODULE Intake -------------------------------
(***************************************************************************)
(* The life of a questionnaire: uploaded, mapped on a page where a person  *)
(* corrects what was guessed, reviewed and signed, exported, returned with *)
(* revised answers, or uploaded again for the next round.                  *)
(*                                                                         *)
(* A person works in one browser, with the mapping page and the page that  *)
(* shows revised answers open in two tabs.  Requests that overtake one     *)
(* another inside the server, and the assessment's status, are SignOff's   *)
(* subject; here a request is one action.                                  *)
(***************************************************************************)
EXTENDS Exports

CONSTANTS
  Books,            \* the files people upload
  Own,              \* a reviewer's own words
  Said,             \* what the AI drafts
  Reworded,         \* [text -> texts a vendor may replace a question by]
  PreviewRowLimit,
  None,
  MaxMappings,      \* bound: mappings ever confirmed
  MaxSteps          \* bound: everything else people do

ASSUME BoundAssumption == MaxMappings \in Nat /\ MaxSteps \in Nat /\ PreviewRowLimit \in Nat

\* The rows are lists of texts; a workbook's sheets have names, no two the same.
ASSUME BooksAssumption ==
  \A book \in Books :
    /\ Len(book.sheets) \in Nat /\ book.sheets = [i \in 1 .. Len(book.sheets) |-> book.sheets[i]]
    /\ \A i \in DOMAIN book.sheets :
         /\ book.sheets[i].rows \in Seq(Seq(Texts))
         /\ ~book.csv => book.sheets[i].name # Blank
    /\ \A i, k \in DOMAIN book.sheets : book.sheets[i].name = book.sheets[k].name => i = k

ASSUME WordsAssumption == {Own, Said} \subseteq Texts /\ Reworded \in [Texts -> SUBSET (Texts \ {Blank})]

VARIABLES
  upload,      \* the stored file and the worksheet chosen for it
  mapping,     \* assessments.column_mapping, or None
  questions,   \* the assessment's rows of table questions
  page,        \* the mapping page as the browser shows it
  sent,        \* the questions of the last exported workbook
  returned,    \* the page of revised answers
  mapped,      \* mappings confirmed so far
  steps,       \* other steps so far
  signed       \* ghost: the text each question was last signed with, until it was opened again

vars == <<upload, mapping, questions, page, sent, returned, mapped, steps, signed>>

NoPage == [open |-> FALSE, sheet |-> Blank, header |-> 0, columns |-> <<>>, rows |-> <<>>,
           sections |-> <<>>, button |-> FALSE, synced |-> FALSE]

Question(id)  == CHOOSE q \in questions : q.id = id
Ids           == {q.id : q \in questions}

Stored(book) == [book |-> book, sheet |-> Blank]

Init ==
  /\ upload \in {Stored(book) : book \in Books}
  /\ mapping = None
  /\ questions = {} /\ sent = <<>> /\ returned = NoRevisions
  /\ page = NoPage
  /\ mapped = 0 /\ steps = 0
  /\ signed = [id \in {} |-> Blank]

\* Something a person does.
Does == steps < MaxSteps /\ steps' = steps + 1

(***************************************************************************)
(* The mapping page                                                        *)
(***************************************************************************)
\* The worksheet asked for, or the stored one, or the fullest.
GridFor(sheet) ==
  IF sheet # Blank /\ ~upload.book.csv THEN ReadExcelSheet(upload.book, sheet) ELSE ReadGrid(upload.book)

\* A mapping confirmed for this worksheet replaces the guesses.
AsConfirmed(p) ==
  IF mapping = None \/ (mapping # None /\ mapping.sheet # p.grid.sheet) THEN p
  ELSE LET found == DetectSections(p.grid.rows, mapping.header, mapping.bound) IN
       [p EXCEPT !.header = mapping.header, !.bound = mapping.bound,
                 !.columns = SyncCandidates(p.grid.rows, mapping.bound),
                 !.rows = found.rows, !.sections = found.sections]

Preview(sheet) == AsConfirmed(PreviewGrid(GridFor(IF sheet = Blank THEN upload.sheet ELSE sheet)))

PageOf(p) ==
  [open |-> TRUE, sheet |-> p.grid.sheet, header |-> p.header, columns |-> p.columns,
   rows |-> p.rows, sections |-> p.sections, button |-> p.ingestable, synced |-> TRUE]

MappingPage(sheet) ==
  /\ Does
  /\ page' = IF GridFor(IF sheet = Blank THEN upload.sheet ELSE sheet).rows = <<>> THEN NoPage
             ELSE PageOf(Preview(sheet))
  /\ UNCHANGED <<upload, mapping, questions, sent, returned, mapped, signed>>

\* No field may be chosen for two columns.
Chosen(columns) == {c \in DOMAIN columns : columns[c] # Blank}
NoFieldTwice(columns) == \A c, d \in Chosen(columns) : columns[c] = columns[d] => c = d

\* The dropdowns as a mapping; what the preview had guessed stays a guess.
MappingFromForm(columns, preview) ==
  [f \in {columns[c] : c \in Chosen(columns)} |->
     LET c == CHOOSE d \in Chosen(columns) : columns[d] = f
         b == preview.bound
     IN  [col |-> c, manual |-> IF f \in DOMAIN b /\ b[f].col = c THEN b[f].manual ELSE TRUE]]

\* A dropdown is changed: the part of the page below the header is redrawn, unless
\* the form is refused; the button is not part of it.
Redrawn(columns, p) ==
  LET found == DetectSections(p.grid.rows, page.header, MappingFromForm(columns, p)) IN
  [page EXCEPT !.columns = columns, !.rows = found.rows, !.sections = found.sections, !.synced = TRUE]

RepreviewMapping(c, f) ==
  LET columns == [page.columns EXCEPT ![c] = f] IN
  /\ page.open /\ page.columns[c] # f /\ Does
  /\ page' = IF NoFieldTwice(columns) THEN Redrawn(columns, Preview(page.sheet))
             ELSE [page EXCEPT !.columns = columns, !.synced = FALSE]
  /\ UNCHANGED <<upload, mapping, questions, sent, returned, mapped, signed>>

Shown == Sublist(page.rows, {i \in DOMAIN page.rows : i <= PreviewRowLimit /\ page.rows[i].kind = "question"})

\* Mutant: rows are told apart by their place on the page.
OverridesByPlace(r, d) ==
  [i \in DOMAIN Shown |-> IF Shown[i].index = r THEN d ELSE Shown[i].domain]

\* Every row on the page posts its domain, the one the person changed among them.
DomainOverrides(r, d) ==
  [i \in {Shown[k].index : k \in DOMAIN Shown} |->
     IF i = r THEN d ELSE (CHOOSE row \in ToSet(Shown) : row.index = i).domain]

\* The old questions are replaced, their ids with them.
Ingest(grid, bound, override) ==
  LET new == Apply(grid.rows, page.header, bound, override) IN
  /\ page.open /\ page.button /\ mapped < MaxMappings
  /\ NoFieldTwice(page.columns) /\ ValidateColumnMapping(bound) /\ new # {}
  /\ mapped' = mapped + 1
  /\ questions' = {[q EXCEPT !.id = <<mapped + 1, q.position>>] : q \in new}
  /\ signed' = [id \in {q.id : q \in questions'} |-> Blank]
  /\ mapping' = [sheet |-> grid.sheet, header |-> page.header, bound |-> bound]
  /\ upload' = [upload EXCEPT !.sheet = grid.sheet]
  /\ page' = NoPage
  /\ UNCHANGED <<sent, returned, steps>>

ConfirmMapping(r, d) ==
  Ingest(GridFor(page.sheet), MappingFromForm(page.columns, Preview(page.sheet)), DomainOverrides(r, d))

(***************************************************************************)
(* Review and sign-off                                                     *)
(***************************************************************************)
Rewrite(id, q) == questions' = (questions \ {Question(id)}) \cup {q}

\* A run drafts every question; a signed one keeps its status.
ApplyDraft ==
  /\ questions # {} /\ Does
  /\ questions' = {[q EXCEPT !.draft = Said,
                             !.status = IF @ = "finalized" THEN @ ELSE "ai_drafted"] : q \in questions}
  /\ UNCHANGED <<upload, mapping, page, sent, returned, mapped, signed>>

Finalize(id, text) ==
  /\ Does /\ text # Blank
  /\ Rewrite(id, [Question(id) EXCEPT !.final = text, !.status = "finalized"])
  /\ signed' = [signed EXCEPT ![id] = text]
  /\ UNCHANGED <<upload, mapping, page, sent, returned, mapped>>

Unfinalize(id) ==
  /\ Does /\ Question(id).status = "finalized"
  /\ Rewrite(id, [Question(id) EXCEPT !.status = IF Question(id).draft = Blank THEN "pending" ELSE "ai_drafted"])
  /\ signed' = [signed EXCEPT ![id] = Blank]
  /\ UNCHANGED <<upload, mapping, page, sent, returned, mapped>>

(***************************************************************************)
(* Out and back                                                            *)
(***************************************************************************)
Export ==
  /\ questions # {} /\ Does
  /\ sent' = ListForReview(questions)
  /\ UNCHANGED <<upload, mapping, questions, page, returned, mapped, signed>>

\* What a vendor does to the workbook before it comes back.
Answered(list, i, text) == [list EXCEPT ![i].values.answer = text]
Rephrased(list, i, text) == [list EXCEPT ![i].values.question = text]
Edits(list) ==
  {list} \cup {Reverse(list)}
  \cup {RemoveAt(list, i) : i \in DOMAIN list}
  \cup {InsertAt(list, i, list[i]) : i \in DOMAIN list}
  \cup {Answered(list, i, text) : i \in DOMAIN list, text \in {Blank, Own}}
  \cup UNION {{Rephrased(list, i, text) : text \in Reworded[list[i].values.question]} : i \in DOMAIN list}

UploadAnswerRevisions ==
  /\ sent # <<>> /\ questions # {} /\ Does
  /\ \E list \in Edits(sent) :
       returned' = PreviewAnswerRevisions(ListForReview(questions), ExportXLSX(list))
  /\ UNCHANGED <<upload, mapping, questions, page, sent, mapped, signed>>

ReviseAnswer(q, text) == [q EXCEPT !.values.answer = text, !.status = "pending"]

\* Mutant: questions are found by their place in the list, not by their id.
ApplyByPlace(ids) ==
  LET list   == ListForReview(questions)
      place(id) == CHOOSE i \in DOMAIN returned.rows : returned.rows[i].id = id
      new(id) == returned.rows[place(id)].answer
      hit(q)  == {id \in ids : place(id) \in DOMAIN list /\ list[place(id)].id = q.id}
  IN
  /\ ids # {} /\ Does
  /\ questions' = {IF hit(q) # {} THEN ReviseAnswer(q, new(CHOOSE id \in hit(q) : TRUE)) ELSE q : q \in questions}
  /\ signed' = [id \in Ids |-> IF \E q \in questions : q.id = id /\ hit(q) # {} THEN Blank ELSE signed[id]]
  /\ returned' = NoRevisions
  /\ UNCHANGED <<upload, mapping, page, sent, mapped>>

\* The rows left checked are written; an id that is gone is passed over, and so is
\* an answer that is the stored one by now.
ApplyAnswerRevisions(ids) ==
  LET new(id) == (CHOOSE row \in ToSet(returned.rows) : row.id = id).answer
      hit(q)  == q.id \in ids /\ new(q.id) # Blank /\ new(q.id) # q.values.answer
  IN
  /\ ids # {} /\ Does
  /\ questions' = {IF hit(q) THEN ReviseAnswer(q, new(q.id)) ELSE q : q \in questions}
  /\ signed' = [id \in Ids |-> IF hit(Question(id)) THEN Blank ELSE signed[id]]
  /\ returned' = NoRevisions
  /\ UNCHANGED <<upload, mapping, page, sent, mapped>>

\* The next round: the returned workbook is the questionnaire of a new assessment.
Upload ==
  /\ sent # <<>> /\ Does
  /\ upload' = Stored(ExportXLSX(sent))
  /\ mapping' = None /\ page' = NoPage
  /\ questions' = {} /\ sent' = <<>> /\ returned' = NoRevisions
  /\ signed' = [id \in {} |-> Blank]
  /\ UNCHANGED mapped

Checked == {id \in {returned.rows[i].id : i \in DOMAIN returned.rows} :
              \E i \in DOMAIN returned.rows : returned.rows[i].id = id /\ returned.rows[i].changed}

MapStep ==
  \/ \E sheet \in {Blank} \cup {upload.book.sheets[i].name : i \in DOMAIN upload.book.sheets} : MappingPage(sheet)
  \/ \E c \in DOMAIN page.columns, f \in FieldSet \cup {Blank} : RepreviewMapping(c, f)
  \/ ConfirmMapping(0, NoDomain)
  \/ \E i \in DOMAIN Shown, d \in DomainSet : Shown[i].domain # d /\ ConfirmMapping(Shown[i].index, d)

SignOffStep ==
  \/ ApplyDraft
  \/ \E id \in Ids : Finalize(id, Own) \/ Finalize(id, Question(id).draft) \/ Unfinalize(id)

ReturnStep ==
  \/ Export \/ UploadAnswerRevisions \/ Upload
  \/ \E ids \in SUBSET Checked : ApplyAnswerRevisions(ids)

Next == MapStep \/ SignOffStep \/ ReturnStep

Spec == Init /\ [][Next]_vars

(***************************************************************************)
(* Properties                                                              *)
(***************************************************************************)
\* A question stands under the nearest heading above it; above the first heading it
\* joins the first section, or the first domain when the sheet has no section (the
\* rule DetectSections states, service/parser/domains.go:26-36 and 115-118).
EachUnderItsHeading ==
  LET g == GridFor(page.sheet).rows
      headings == {r \in (page.header + 1) .. Len(g) : Heading(g[r]) # NoDomain}
      asked    == {page.rows[i].index : i \in {j \in DOMAIN page.rows : page.rows[j].kind = "question"}}
      over(r)  == {h \in headings : h < r}
      opened   == {Max(over(r)) : r \in {x \in asked : over(x) # {}}}
      home(r)  == CASE over(r) # {} -> Heading(g[Max(over(r))])
                    [] over(r) = {} /\ opened # {} -> Heading(g[Min(opened)])
                    [] OTHER -> Domains[1]
  IN  \A i \in DOMAIN page.rows :
        page.rows[i].kind = "question" => page.rows[i].domain = home(page.rows[i].index)

\* The sections the page lists are the questions, none twice: one after another down
\* the sheet, each with as many questions of its domain as it says.
SectionsAddUp ==
  LET in(s) == {i \in DOMAIN page.rows : /\ page.rows[i].kind = "question"
                                         /\ page.rows[i].index \in s.first .. s.last}
      all   == {i \in DOMAIN page.rows : page.rows[i].kind = "question"}
  IN /\ UNION {in(page.sections[k]) : k \in DOMAIN page.sections} = all
     /\ \A k \in DOMAIN page.sections : LET s == page.sections[k] IN
          /\ Cardinality(in(s)) = s.count
          /\ \A i \in in(s) : page.rows[i].domain = s.domain
          /\ k > 1 => page.sections[k - 1].last < s.first

\* The page tells where every question belongs, row by row and section by section,
\* and the two agree, whatever the headings, merged cells and gaps of the sheet.
RowsFollowTheirHeading == page.open => EachUnderItsHeading /\ SectionsAddUp

\* The guesses are the best there are: a field that resembles a column's title gives
\* way only to a pairing of that column, or of that field, which is at least as good,
\* or to the column that was taken for the question instead.
GuessesAreTheBest ==
  [][mapping = None /\ page'.open /\ ~page.open =>
       LET g == GridFor(page'.sheet).rows
           like(c, f) == FieldLike[g[page'.header][c]][f]
       IN  /\ NoFieldTwice(page'.columns)
           /\ \A c \in DOMAIN page'.columns, f \in FieldSet : like(c, f) >= AutoMapThreshold =>
                \E x \in Chosen(page'.columns) : LET k == page'.columns[x] IN
                  \/ (x = c \/ k = f) /\ (k = "question" \/ like(x, k) >= like(c, f))
                  \/ k = "question" /\ like(x, f) >= like(c, f)]_vars

GuessedApart ==
  LET p == Preview(page.sheet) IN page.columns = p.columns => OneFieldEach(p.bound)

\* What is ingested is what the page showed when the button was pressed: the same
\* rows in the same order with the same texts, those below the page's end included,
\* and their domains but for the row the person corrected, whose choice "wins over
\* whatever the divider detection concluded" (service/parser/parser.go:116-119).  Not
\* so where the question column was guessed and is another field's already: its texts
\* are shown as both, and posted as the question only.
ConfirmedAsShown ==
  [][mapped' # mapped /\ page.synced /\ GuessedApart =>
       LET asked == QuestionRows(page.rows)
           at(i)   == {q \in questions' : q.position = i}
       IN  /\ {q.position : q \in questions'} = DOMAIN asked
           /\ \A i \in DOMAIN asked :
                /\ Cardinality(at(i)) = 1
                /\ \A q \in at(i) : q.row = asked[i].index /\ q.values = asked[i].values
           /\ \A r \in {0} \cup {Shown[i].index : i \in DOMAIN Shown}, d \in DomainSet :
                ConfirmMapping(r, d) =>
                  \A i \in DOMAIN asked : \A q \in at(i) :
                    q.domain = IF q.row = r THEN d ELSE asked[i].domain]_vars

\* A question that reads as a heading once only the template's columns are left.
LooksLikeHeading(q) ==
  Heading([c \in DOMAIN Fields |-> IF Fields[c] = "feedback" THEN ShownFeedback(q)
                                   ELSE q.values[Fields[c]]]) # NoDomain

SameQuestions(back, list) ==
  /\ Len(back) = Len(list)
  /\ \A i \in DOMAIN list : /\ back[i].domain = list[i].domain
                            /\ back[i].values.question = list[i].values.question
                            /\ back[i].values.answer = list[i].values.answer

\* The workbook is read back as what was written: the same questions under the same
\* domains with the same answers ("rebuilt here ... exactly the way the ingestion side
\* originally detected them", service/assessment/export.go:166-172), when a domain's
\* name reads as its heading and no question does.
ExportReadsBack ==
  (sent # <<>> /\ \A i \in DOMAIN sent : /\ Heading(<<NameOf[sent[i].domain]>>) = sent[i].domain
                                         /\ ~LooksLikeHeading(sent[i])) =>
    SameQuestions(QuestionRows(PreviewGrid(ReadGrid(ExportXLSX(sent))).rows), sent)

\* How often a text of a domain came back, and how often it is on file.
CameBack(r, d, t) ==
  Cardinality({i \in DOMAIN r.rows : r.rows[i].domain = d /\ SameText(r.rows[i].text, t)})
  + Cardinality({i \in DOMAIN r.unmatched : r.unmatched[i].domain = d /\ SameText(r.unmatched[i].text, t)})
OnFile(d, t) == Cardinality({q \in questions : q.domain = d /\ SameText(q.values.question, t)})

\* No text of the domain came back that is not on file, or more often than it is.
OnlyOurs(r, d) ==
  /\ \A i \in DOMAIN r.rows :
       r.rows[i].domain = d => CameBack(r, d, r.rows[i].text) <= OnFile(d, r.rows[i].text)
  /\ \A i \in DOMAIN r.unmatched :
       r.unmatched[i].domain = d => CameBack(r, d, r.unmatched[i].text) <= OnFile(d, r.unmatched[i].text)

\* A row that comes back with its text unchanged finds its question, however the rows
\* were moved or removed, where its domain's texts are all on file; and no question is
\* revised by two rows.
RevisionsFindTheirQuestion ==
  [][returned' # returned =>
       LET rows == returned'.rows
           lost == returned'.unmatched
       IN  /\ \A i, k \in DOMAIN rows : rows[i].id = rows[k].id => i = k
           /\ \A i \in DOMAIN rows : OnlyOurs(returned', rows[i].domain) => SameText(rows[i].text, rows[i].question)
           /\ \A i \in DOMAIN lost : ~OnlyOurs(returned', lost[i].domain)]_vars

\* An answer changes only to what the page of revised answers showed next to that
\* very question, also when the questionnaire was mapped anew in the meantime.
RevisionsLandAsShown ==
  [][\A q \in questions, p \in questions' :
       p.id = q.id /\ p.values.answer # q.values.answer =>
         \E row \in ToSet(returned.rows) :
           row.id = q.id /\ row.question = q.values.question /\ row.answer = p.values.answer]_vars

\* Feedback leaves the program unmarked only while a person stands by that text: it
\* was signed and neither opened again nor overtaken by a new answer ("An export that
\* silently mixed signed findings with unreviewed AI text would be the most dangerous
\* artefact this tool could produce", service/assessment/export.go:22-25).
UnsignedIsMarked ==
  \A q \in questions :
    /\ CSVLine(q).state = "signed off" =>
         signed[q.id] # Blank /\ CSVLine(q).feedback = signed[q.id]
    /\ ShownFeedback(q) # Blank =>
         ShownFeedback(q) \in {signed[q.id], Marked[EffectiveFeedback(q).text]}

\* "Blocker keeps the commit disabled until they do" (service/parser/parser.go:74-75):
\* once the page shows questions under a complete mapping, it can be confirmed.
CommitFollowsTheBlocker ==
  (page.open /\ page.synced /\ ValidateColumnMapping(MappingFromForm(page.columns, Preview(page.sheet)))
     /\ QuestionRows(page.rows) # <<>>) => page.button
=============================================================================
