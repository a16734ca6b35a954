------------------------------- MODULE Sheets -------------------------------
(***************************************************************************)
(* How a spreadsheet becomes questions: the grid of the fullest worksheet, *)
(* its header row, the column each template field is read from, and the    *)
(* rows below it told apart into section headings, questions and filler.   *)
(*                                                                         *)
(* The texts of cells are abstract.  How much one resembles a field, a     *)
(* domain or another text, in percent, is given by constants: the code     *)
(* computes it by edit distance and shared words.  Rows and columns count  *)
(* from 1, and 0 stands for the code's -1.                                 *)
(***************************************************************************)
EXTENDS Orders, SequencesExt

CONSTANTS
  Fields,          \* the template's fields in order; "question" and "answer" are among them
  Domains,         \* the security domains in order
  FieldLike,       \* [text -> [field -> the best match with one of its aliases]]
  DomainLike,      \* [text -> [domain -> how far the text reads as its heading]]
  Prose,           \* [text -> its length, and whether it asks something]
  HeaderScanRows   \* how far down a header is looked for

Blank     == ""
FieldSet  == {Fields[i] : i \in DOMAIN Fields}
DomainSet == {Domains[i] : i \in DOMAIN Domains}
NoDomain  == "none"
Texts     == DOMAIN FieldLike

AutoMapThreshold == 70
DividerThreshold == 78

ASSUME FieldsAssumption  == /\ Fields \in Seq(FieldSet) /\ Blank \notin FieldSet
                            /\ {"question", "answer", "feedback"} \subseteq FieldSet
                            /\ \A i, k \in DOMAIN Fields : Fields[i] = Fields[k] => i = k
ASSUME HeaderAssumption  == HeaderScanRows \in Nat \ {0}
ASSUME LikeAssumption    == Blank \in Texts /\ FieldLike \in [Texts -> [FieldSet -> 0 .. 100]]
ASSUME DomainsAssumption == Domains \in Seq(DomainSet) \ {<<>>} /\ NoDomain \notin DomainSet

(***************************************************************************)
(* Reading                                                                 *)
(***************************************************************************)
Width(g)      == IF g = <<>> THEN 0 ELSE Len(g[1])
Cell(g, r, c) == IF r \in DOMAIN g /\ c \in DOMAIN g[r] THEN g[r][c] ELSE Blank

IsBlankRow(row)   == \A c \in DOMAIN row : row[c] = Blank
CountFilled(rows) == Cardinality({r \in DOMAIN rows : ~IsBlankRow(rows[r])})

\* Trailing blank rows go, and every row gets the width of the widest.
NormalizeRows(rows) ==
  LET width == Max({0} \cup {Len(rows[r]) : r \in DOMAIN rows})
      last  == Max({0} \cup {r \in DOMAIN rows : ~IsBlankRow(rows[r])})
  IN  [r \in 1 .. last |-> [c \in 1 .. width |-> Cell(rows, r, c)]]

\* The value of a merged region shows in every blank cell it covers.
ExpandMerged(sheet, g) ==
  LET value(m)  == Cell(sheet.rows, m.top, m.left)
      over(r, c) == {m \in sheet.merged : /\ r \in m.top .. m.bottom /\ c \in m.left .. m.right
                                          /\ value(m) # Blank}
  IN  [r \in DOMAIN g |-> [c \in DOMAIN g[r] |->
         IF g[r][c] = Blank /\ over(r, c) # {} THEN value(CHOOSE m \in over(r, c) : TRUE) ELSE g[r][c]]]

GridOf(sheet) == [sheet |-> sheet.name, rows |-> ExpandMerged(sheet, NormalizeRows(sheet.rows))]

\* Nothing to read: every reader's error, and PreviewGrid's for a sheet without rows.
NoGrid == [sheet |-> Blank, rows |-> <<>>]

\* The worksheet with the most filled rows, the first of them.
ReadExcel(book) ==
  LET fill(i) == CountFilled(book.sheets[i].rows)
      fullest == {i \in DOMAIN book.sheets :
                    fill(i) > 0 /\ \A j \in DOMAIN book.sheets : fill(j) <= fill(i)}
  IN  IF fullest = {} THEN NoGrid ELSE GridOf(book.sheets[Min(fullest)])

ReadExcelSheet(book, name) ==
  LET named == {i \in DOMAIN book.sheets : book.sheets[i].name = name} IN
  IF named = {} THEN NoGrid ELSE GridOf(book.sheets[Min(named)])

\* Delimited text is one sheet without a name.
ReadCSV(book) ==
  IF book.sheets = <<>> THEN NoGrid
  ELSE [sheet |-> Blank, rows |-> NormalizeRows(book.sheets[1].rows)]

ReadGrid(book) == IF book.csv THEN ReadCSV(book) ELSE ReadExcel(book)

(***************************************************************************)
(* The header and the columns                                              *)
(***************************************************************************)
MatchField(text) == Max({FieldLike[text][f] : f \in FieldSet})

ScoreHeaderRow(row) ==
  LET score(c) == IF MatchField(row[c]) >= AutoMapThreshold THEN MatchField(row[c]) ELSE 0
      total[c \in 0 .. Len(row)] == IF c = 0 THEN 0 ELSE total[c - 1] + score(c)
  IN  total[Len(row)]

\* The first of the best rows near the top; the first row, if none resembles a header.
DetectHeaderRow(g) ==
  LET near == {r \in DOMAIN g : r <= HeaderScanRows /\ ScoreHeaderRow(g[r]) > 0}
      best == {r \in near : \A s \in near : ScoreHeaderRow(g[s]) <= ScoreHeaderRow(g[r])}
  IN  IF best = {} THEN 1 ELSE Min(best)

NoColumns == [f \in {} |-> 0]

\* Field f is read from column c as well.
Bind(bound, f, c) ==
  [x \in (DOMAIN bound) \cup {f} |-> IF x \in DOMAIN bound THEN bound[x] ELSE [col |-> c, manual |-> FALSE]]

\* Mutant: every field takes the column that resembles it most.
AutoMapEachField(g, h) ==
  LET likes(f) == {c \in 1 .. Width(g) : FieldLike[g[h][c]][f] >= AutoMapThreshold}
  IN  [f \in {x \in FieldSet : likes(x) # {}} |->
         [col |-> CHOOSE c \in likes(f) : \A d \in likes(f) : FieldLike[g[h][d]][f] <= FieldLike[g[h][c]][f],
          manual |-> FALSE]]

\* Columns and fields are paired greedily, the best match first, then left to
\* right, each column and each field once.
AutoMap(g, h) ==
  LET like(p)  == FieldLike[g[h][p.col]][p.field]
      place(p) == CHOOSE i \in DOMAIN Fields : Fields[i] = p.field
      pairs    == {p \in [col : 1 .. Width(g), field : FieldSet] : like(p) >= AutoMapThreshold}
      ahead(p, q) == \/ like(p) > like(q)
                     \/ like(p) = like(q) /\ p.col < q.col
                     \/ like(p) = like(q) /\ p.col = q.col /\ place(p) < place(q)
      sorted   == InOrder(pairs, {x \in pairs \X pairs : ahead(x[1], x[2])})
      taken(b, p) == p.field \in DOMAIN b \/ \E f \in DOMAIN b : b[f].col = p.col
      bind(b, p)  == IF taken(b, p) THEN b ELSE Bind(b, p.field, p.col)
      bound[k \in 0 .. Cardinality(pairs)] == IF k = 0 THEN NoColumns ELSE bind(bound[k - 1], sorted[k])
  IN  bound[Cardinality(pairs)]

\* How much a column reads like questions, in hundredths: the prose it carries, with
\* a bonus for questions and for being far left.  Too little or too short is nothing.
ProseScore(g, h, c) ==
  LET filled == {r \in (h + 1) .. Len(g) : g[r][c] # Blank}
      chars  == FoldLeft(LAMBDA sum, r : sum + Prose[g[r][c]].length, 0, SetToSeq(filled))
      asking == Cardinality({r \in filled : Prose[g[r][c]].asks})
      n      == Cardinality(filled)
  IN  IF n >= 2 /\ chars >= 15 * n THEN (100 * chars + 4000 * asking) \div n - 100 * (c - 1) ELSE 0

\* The column that does most; 0 if none does.
FallbackQuestionColumn(g, h) ==
  LET wordy == {c \in 1 .. Width(g) : ProseScore(g, h, c) > 0}
      best  == {c \in wordy : \A d \in wordy : ProseScore(g, h, d) <= ProseScore(g, h, c)}
  IN  IF best = {} THEN 0 ELSE Min(best)

(***************************************************************************)
(* Headings and questions                                                  *)
(***************************************************************************)
\* The heading a row reads as: its domain and the cell that says so.
MatchDivider(row) ==
  LET like(p) == DomainLike[row[p.col]][Domains[p.at]]
      places  == {p \in [col : DOMAIN row, at : DOMAIN Domains] : like(p) >= DividerThreshold}
      best    == {p \in places : \A q \in places : like(q) <= like(p)}
      first(p, q) == p.col < q.col \/ (p.col = q.col /\ p.at <= q.at)
  IN  IF best = {} THEN [domain |-> NoDomain, col |-> 0]
      ELSE LET p == CHOOSE x \in best : \A q \in best : first(x, q)
           IN  [domain |-> Domains[p.at], col |-> p.col]

\* A cell that says something else than the heading.
HasDistinctContent(row, skip) == \E c \in DOMAIN row : row[c] \notin {Blank, row[skip]}

Unmixed(row, d) ==
  IF d.domain # NoDomain /\ ~HasDistinctContent(row, d.col) THEN d.domain ELSE NoDomain

Heading(row) == Unmixed(row, MatchDivider(row))

ExtractValues(g, r, bound) ==
  [f \in FieldSet |-> IF f \in DOMAIN bound THEN Cell(g, r, bound[f].col) ELSE Blank]

NoSection == [domain |-> NoDomain, divider |-> 0, first |-> 0, last |-> 0, count |-> 0, inferred |-> FALSE]

\* Mutant: a heading does not close the section before it.
FlushNothing(s) == s.sections

\* A section without questions is dropped.
Flush(s) == IF s.current.count > 0 THEN Append(s.sections, s.current) ELSE s.sections

\* What row r, with these values under that heading, adds to the rows and sections
\* found so far.  Without a question it is filler: a blank row, a stray note, the tail
\* of a merged answer.
Classify(s, r, values, heading) ==
  LET Row(kind, d) == [index |-> r, kind |-> kind, domain |-> d, values |-> values]
      With(kind, d) == [s EXCEPT !.rows = Append(@, Row(kind, d))]
  IN
  CASE heading # NoDomain ->
         [With("divider", heading) EXCEPT
            !.sections = Flush(s),
            !.current = [NoSection EXCEPT !.domain = heading, !.divider = r,
                                          !.first = r + 1, !.last = r + 1]]
    [] heading = NoDomain /\ values.question = Blank -> With("blank", NoDomain)
    [] OTHER ->
         IF s.current = NoSection THEN With("question", NoDomain)
         ELSE [With("question", s.current.domain) EXCEPT !.current.last = r, !.current.count = @ + 1]

\* Mutant: questions above the first heading go to the first domain.
AttributeToTheFirst(rows, sections) ==
  [rows |-> [i \in DOMAIN rows |-> IF rows[i].kind = "question" /\ rows[i].domain = NoDomain
                                   THEN [rows[i] EXCEPT !.domain = Domains[1]] ELSE rows[i]],
   sections |-> sections]

\* Questions above the first heading go with the first section, or else the first
\* domain, as a section of their own.
Attribute(rows, sections) ==
  LET orphans == {i \in DOMAIN rows : rows[i].kind = "question" /\ rows[i].domain = NoDomain}
      d       == IF sections # <<>> THEN sections[1].domain ELSE Domains[1]
  IN  IF orphans = {} THEN [rows |-> rows, sections |-> sections]
      ELSE [rows |-> [i \in DOMAIN rows |-> IF i \in orphans THEN [rows[i] EXCEPT !.domain = d] ELSE rows[i]],
            sections |-> <<[domain |-> d, divider |-> 0, first |-> rows[Min(orphans)].index,
                            last |-> rows[Max(orphans)].index, count |-> Cardinality(orphans),
                            inferred |-> TRUE]>> \o sections]

DetectSections(g, h, bound) ==
  LET start == [rows |-> <<>>, sections |-> <<>>, current |-> NoSection]
      below == IF h < Len(g) THEN Len(g) - h ELSE 0
      found[k \in 0 .. below] ==
        IF k = 0 THEN start
        ELSE Classify(found[k - 1], h + k, ExtractValues(g, h + k, bound), Heading(g[h + k]))
  IN  Attribute(found[below].rows, Flush(found[below]))

QuestionRows(rows) == Sublist(rows, {i \in DOMAIN rows : rows[i].kind = "question"})

(***************************************************************************)
(* The preview, and the questions of a confirmed mapping                   *)
(***************************************************************************)
\* What each column's dropdown shows.
SyncCandidates(g, bound) ==
  [c \in 1 .. Width(g) |-> IF \E f \in DOMAIN bound : bound[f].col = c
                           THEN CHOOSE f \in DOMAIN bound : bound[f].col = c ELSE Blank]

\* Without a Question column the preview has no rows and is blocked, and so it is
\* when there is no question under the header.
Guess(grid, h, auto, guess) ==
  LET g     == grid.rows
      named == "question" \in DOMAIN auto
      bound == IF named \/ guess = 0 THEN auto ELSE Bind(auto, "question", guess)
      found == IF named \/ guess # 0 THEN DetectSections(g, h, bound) ELSE [rows |-> <<>>, sections |-> <<>>]
      columns == SyncCandidates(g, auto)
  IN  [grid |-> grid, header |-> h, bound |-> bound,
       columns |-> IF named \/ guess = 0 THEN columns ELSE [columns EXCEPT ![guess] = "question"],
       rows |-> found.rows, sections |-> found.sections,
       ingestable |-> QuestionRows(found.rows) # <<>>]

PreviewGrid(grid) ==
  LET h == DetectHeaderRow(grid.rows) IN
  Guess(grid, h, AutoMap(grid.rows, h), FallbackQuestionColumn(grid.rows, h))

\* Every field from a column of its own.
OneFieldEach(bound) == \A f, k \in DOMAIN bound : bound[f].col = bound[k].col => f = k

ValidateColumnMapping(bound) == "question" \in DOMAIN bound /\ OneFieldEach(bound)

\* A question as it is ingested; feedback found in the file is only a draft.
Ingested(row, i, domain) ==
  [id |-> 0, row |-> row.index, position |-> i, values |-> row.values, domain |-> domain,
   draft |-> row.values.feedback, final |-> Blank, status |-> "pending"]

\* A row's domain is the one corrected by hand or else the one detected.
IngestAll(rows, override) ==
  {Ingested(rows[i], i, IF rows[i].index \in DOMAIN override THEN override[rows[i].index]
                        ELSE rows[i].domain) : i \in DOMAIN rows}

Apply(g, h, bound, override) == IngestAll(QuestionRows(DetectSections(g, h, bound).rows), override)
=============================================================================
