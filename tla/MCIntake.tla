------------------------------ MODULE MCIntake ------------------------------
(* Intake on small files and small tables of texts.                        *)
EXTENDS Intake

Template == <<"question", "answer", "feedback">>
TwoDomains == <<"network", "cloud">>

TitleOf == "question" :> "Question" @@ "answer" :> "Answer" @@ "feedback" :> "Feedback"
Title(d) == IF d = "network" THEN "Network" ELSE "Cloud"
HeadingOf == [d \in DomainSet |-> Title(d)]

\* What people and files say, and what stands for it unsigned once, twice, three times.
Asked == {"qa", "qb", "qc", "qcloud", "qa2", "qz", "qshort", "qbrief"}
Plain == {"Intro", "Ref", "Comments", "Notes", "Topic", "yes", "no", "prior", "own", "said"}
         \cup {"Question", "Answer", "Feedback", "Network", "Cloud"} \cup Asked
Once  == {"*" \o t : t \in Plain}
Twice == {"*" \o t : t \in Once}
Words == {""} \cup Plain \cup Once \cup Twice \cup {"*" \o t : t \in Twice}
\* A fourth mark is not to be told from the third; no text gets so far.
MarkedText == [t \in Words |-> IF t \in Plain \cup Once \cup Twice THEN "*" \o t ELSE t]

\* "Comments" resembles two fields, the second of them more, as "Notes" does less.
Resembles(t, f) ==
  CASE t = TitleOf[f] -> 100
    [] t = "Comments" /\ f = "answer" -> 75
    [] t = "Comments" /\ f = "feedback" -> 80
    [] t = "Notes" /\ f = "feedback" -> 72
    [] OTHER -> 0
FieldTable  == [t \in Words |-> [f \in FieldSet |-> Resembles(t, f)]]
DomainTable == [t \in Words |-> [d \in DomainSet |-> CASE t = Title(d) -> 100
                                                      [] t = "qcloud" /\ d = "cloud" -> 85
                                                      [] OTHER -> 0]]
ProseTable  == [t \in Words |-> [length |-> IF t \in Asked \ {"qshort", "qbrief"} THEN 40 ELSE 6, asks |-> t \in Asked]]

\* Rewordings, one of them close to a question that is on file as well.
Near == {{"qa", "qb"}, {"qa2", "qa"}}
AlikeTable == [t \in Words |-> [u \in Words |-> CASE t = u /\ t # Blank -> 100 [] {t, u} \in Near -> 95 [] OTHER -> 0]]
RewordedTable == [t \in Words |-> IF t = "qa" THEN {"qa2", "qz"} ELSE {}]

Across(r, n) == [top |-> r, bottom |-> r, left |-> 1, right |-> n]
Workbook(sheets) == [csv |-> FALSE, sheets |-> sheets]

\* Two headed sections, two much alike questions, a blank row and a draft from before.
Standard ==
  Workbook(<<[name |-> "S", merged |-> {Across(2, 3), Across(6, 3)},
              rows |-> <<<<"Question", "Answer", "Feedback">>, <<"Network">>, <<"qa", "yes", "prior">>,
                         <<"qb", "no">>, <<"">>, <<"Cloud">>, <<"qc", "", "">>>>]>>)

\* A sheet whose answers are the longest texts; a title above the header, a question
\* column without a name, a question above the first heading, a heading without
\* questions, a question that reads as a heading.
Untidy ==
  Workbook(<<[name |-> "Cover", merged |-> {},
              rows |-> <<<<"Topic", "Answer">>, <<"yes", "qa">>, <<"no", "qb">>>>],
             [name |-> "Data", merged |-> {},
              rows |-> <<<<"Intro">>, <<"Ref", "Comments", "Notes">>, <<"qa", "yes", "prior">>,
                         <<"Network">>, <<"Cloud", "Cloud">>, <<"qcloud", "no">>>>]>>)

\* Delimited text without a heading or a column that reads as the question.
Unnamed == [csv |-> TRUE, sheets |-> <<[name |-> "S", merged |-> {},
                                        rows |-> <<<<"Topic", "Answer">>, <<"qshort", "yes">>, <<"qbrief", "no">>>>]>>]

AllBooks == {Standard, Untidy, Unnamed}
OnlyUnnamed == {Unnamed}
=============================================================================
