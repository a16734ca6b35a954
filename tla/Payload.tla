------------------------------ MODULE Payload ------------------------------
(***************************************************************************)
(* A provider's reply as text, and what is made of it: the first JSON      *)
(* value is looked for in whatever surrounds it, closed where the reply    *)
(* was cut short, and read as one result or as several.                    *)
(*                                                                         *)
(* A text is a sequence of tokens: the brackets, commas and quotes the     *)
(* scanner looks at, a key with its colon, and any other word.  A key is   *)
(* never cut in two, which would end in the same error as a key without    *)
(* its value.                                                              *)
(***************************************************************************)
EXTENDS ReviewBatches

CONSTANTS
  Ids,         \* question ids; any other word is no id
  Numeral      \* [word -> the number it stands for]; confidence in percent

ASSUME NumeralAssumption == \A word \in DOMAIN Numeral : Numeral[word] \in Int

Quote      == "quote"
Backslash  == "backslash"
Fence      == "fence"
ThoughtEnd == "thought ends"

FieldKeys == {"question_id:", "risk_score:", "completeness:", "flags:", "assessor_feedback:", "confidence:"}
Keys      == FieldKeys \cup {"results:", "kind:"}

LowConfidence == 35

(***************************************************************************)
(* Finding the JSON                                                        *)
(***************************************************************************)
NoJSON == <<>>

Positions(s, t) == {i \in DOMAIN s : s[i] = t}
From(s, i)      == SubSeq(s, i, Len(s))
FirstOf(places) == CHOOSE i \in places : \A j \in places : i <= j
LastOf(places)  == CHOOSE i \in places : \A j \in places : j <= i

WalkFrom == [stack |-> <<>>, string |-> FALSE, escaped |-> FALSE, at |-> 0, complete |-> 0, bracket |-> 0]

\* A bracket closes what was opened last.
Unwound(w) ==
  LET stack == IF w.stack = <<>> THEN <<>> ELSE Front(w.stack) IN
  [w EXCEPT !.stack = stack, !.bracket = w.at,
            !.complete = IF @ = 0 /\ w.stack # <<>> /\ stack = <<>> THEN w.at ELSE @]

\* One token of a scan that respects strings and escapes.
WalkOver(w, t) ==
  LET next == [w EXCEPT !.at = @ + 1] IN
  CASE w.escaped                                  -> [next EXCEPT !.escaped = FALSE]
    [] ~w.escaped /\ w.string                     -> [next EXCEPT !.escaped = (t = Backslash),
                                                                  !.string = (t # Quote)]
    [] ~w.escaped /\ ~w.string /\ t = Quote       -> [next EXCEPT !.string = TRUE]
    [] ~w.escaped /\ ~w.string /\ t \in {"{", "["} -> [next EXCEPT !.stack = Append(@, t)]
    [] ~w.escaped /\ ~w.string /\ t \in {"}", "]"} -> Unwound(next)
    [] OTHER -> next

\* The brackets still open at the end, whether it ended in a string, where the first
\* value was complete and where the last closing bracket was; 0 if nowhere.
Walk(s) ==
  LET walk[k \in 0 .. Len(s)] == IF k = 0 THEN WalkFrom ELSE WalkOver(walk[k - 1], s[k])
  IN  walk[Len(s)]

TrimCommas(s) ==
  LET kept == {i \in DOMAIN s : s[i] # ","} IN
  IF kept = {} THEN <<>> ELSE SubSeq(s, 1, LastOf(kept))

Closing(stack) == [i \in DOMAIN stack |-> IF stack[Len(stack) + 1 - i] = "{" THEN "}" ELSE "]"]

\* What is open at the end of s is closed.
Closed(s) ==
  LET w == Walk(s) IN s \o (IF w.string THEN <<Quote>> ELSE <<>>) \o Closing(w.stack)

\* What follows the last closing bracket is dropped first, if there is one.
RepairTruncated(s) ==
  LET cut == Walk(s).bracket IN
  Closed(TrimCommas(IF cut > 0 THEN SubSeq(s, 1, cut) ELSE s))

(***************************************************************************)
(* encoding/json                                                           *)
(***************************************************************************)
\* A parse: the open brackets, each with the key it is the value of and the object it
\* belongs to; what may come next; and the objects seen, with their scalar members.
ParseFrom == [stack |-> <<>>, want |-> "value", string |-> FALSE, escaped |-> FALSE,
              key |-> "", word |-> "", objects |-> <<>>]

Top(p)    == IF p.stack = <<>> THEN [kind |-> "", key |-> "", object |-> 0] ELSE Last(p.stack)
Wants(p)  == p.want \in {"value", "value or ]"}
NoFields  == [k \in {} |-> ""]

\* A member comes again: its last value counts.
Member(fields, key, word) == [k \in DOMAIN fields \cup {key} |-> IF k = key THEN word ELSE fields[k]]

TakeValue(p, word) ==
  LET top == Top(p) IN
  IF top.kind = "{"
  THEN [p EXCEPT !.want = "more", !.objects[top.object].fields = Member(@, p.key, word)]
  ELSE [p EXCEPT !.want = "more"]

OpenBracket(p, t) ==
  LET top == Top(p)
      key == IF top.kind = "{" THEN p.key ELSE top.key
      new == [depth |-> Len(p.stack), key |-> key, in |-> top.object, fields |-> NoFields]
  IN  IF t = "{"
      THEN [p EXCEPT !.want = "key or }", !.objects = Append(@, new),
                     !.stack = Append(@, [kind |-> t, key |-> key, object |-> Len(p.objects) + 1])]
      ELSE [p EXCEPT !.want = "value or ]",
                     !.stack = Append(@, [kind |-> t, key |-> key, object |-> top.object])]

ParseOver(p, t) ==
  CASE p.escaped                      -> [p EXCEPT !.escaped = FALSE, !.word = t]
    [] ~p.escaped /\ p.string         ->
         CASE t = Backslash           -> [p EXCEPT !.escaped = TRUE]
           [] t = Quote               -> TakeValue([p EXCEPT !.string = FALSE], p.word)
           [] OTHER                   -> [p EXCEPT !.word = t]
    [] ~p.escaped /\ ~p.string        ->
         CASE t = Quote /\ Wants(p)                              -> [p EXCEPT !.string = TRUE, !.word = ""]
           [] t \in DOMAIN Numeral /\ Wants(p)                   -> TakeValue(p, t)
           [] t \in {"{", "["} /\ Wants(p)                       -> OpenBracket(p, t)
           [] t \in Keys /\ p.want \in {"key", "key or }"}       -> [p EXCEPT !.key = t, !.want = "value"]
           [] t = "}" /\ Top(p).kind = "{" /\ p.want \in {"more", "key or }"} ->
                [p EXCEPT !.stack = Front(@), !.want = "more"]
           [] t = "]" /\ Top(p).kind = "[" /\ p.want \in {"more", "value or ]"} ->
                [p EXCEPT !.stack = Front(@), !.want = "more"]
           [] t = "," /\ p.want = "more" /\ p.stack # <<>>       ->
                [p EXCEPT !.want = IF Top(p).kind = "{" THEN "key" ELSE "value"]
           [] OTHER                                              -> [p EXCEPT !.want = "nothing"]

Parse(s) ==
  LET parse[k \in 0 .. Len(s)] == IF k = 0 THEN ParseFrom ELSE ParseOver(parse[k - 1], s[k])
  IN  parse[Len(s)]
Readable(p) == p.want = "more" /\ p.stack = <<>> /\ ~p.string
Valid(s) == Readable(Parse(s))

(***************************************************************************)
(* ExtractJSON                                                             *)
(***************************************************************************)
IfValid(s) == IF Valid(s) THEN s ELSE NoJSON

\* Up to the bracket that closes the first one; repaired, if none does.
Extent(s) ==
  LET complete == Walk(s).complete IN
  IF complete > 0 THEN SubSeq(s, 1, complete) ELSE IfValid(RepairTruncated(s))

ScanJSON(s) ==
  LET open == Positions(s, "{") \cup Positions(s, "[") IN
  IF open = {} THEN NoJSON ELSE Extent(From(s, FirstOf(open)))

\* What the first fence encloses, up to the end if it is never closed.
FencedBlock(s) ==
  LET rest == From(s, FirstOf(Positions(s, Fence)) + 1)
  IN  IF Positions(rest, Fence) = {} THEN rest
      ELSE SubSeq(rest, 1, FirstOf(Positions(rest, Fence)) - 1)

AfterThoughts(text) ==
  LET ends == Positions(text, ThoughtEnd) IN IF ends = {} THEN text ELSE From(text, LastOf(ends) + 1)

\* In a fence, or else anywhere.
FencedOrNot(s) ==
  LET fenced == IF Positions(s, Fence) = {} THEN NoJSON ELSE ScanJSON(FencedBlock(s))
  IN  IF fenced # NoJSON THEN fenced ELSE ScanJSON(s)

ExtractJSON(text) == FencedOrNot(AfterThoughts(text))

(***************************************************************************)
(* Results                                                                 *)
(***************************************************************************)
FieldOf(o, k) == IF k \in DOMAIN o.fields THEN o.fields[k] ELSE ""

\* A number, also when it was written as a string; 0 for anything else.
FlexNumber(word) == IF word \in DOMAIN Numeral THEN Numeral[word] ELSE 0

\* The spellings models use for one and the same thing.
NormalizeEnum(word) ==
  CASE word \in {"nonresponsive", "not_responsive", "unresponsive"}          -> "non_responsive"
    [] word \in {"incomplete", "partially_complete", "partial_answer"}       -> "partial"
    [] word \in {"absent", "empty", "no_answer", "not_answered"}             -> "missing"
    [] OTHER -> word

\* Flags of no kind are dropped.
ToResult(objects, i) ==
  LET o == objects[i]
      flags == {k \in DOMAIN objects : objects[k].in = i /\ objects[k].key = "flags:"
                                       /\ FieldOf(objects[k], "kind:") # ""}
  IN  NormalizeResult(
        [score |-> FlexNumber(FieldOf(o, "risk_score:")),
         sure |-> FlexNumber(FieldOf(o, "confidence:")) >= LowConfidence,
         draft |-> FieldOf(o, "assessor_feedback:") # "",
         flags |-> Cardinality(flags),
         completeness |-> NormalizeEnum(FieldOf(o, "completeness:"))])

HasId(o)  == "question_id:" \in DOMAIN o.fields
BadId(o)  == HasId(o) /\ FieldOf(o, "question_id:") \notin Ids

NoResults == [read |-> FALSE, replies |-> [q \in {} |-> NoReply]]

\* The result an id stands for: the last of several.
ResultFor(objects, listed, q) == LastOf({i \in listed : FieldOf(objects[i], "question_id:") = q})

\* The elements of "results", or of a bare array.
Elements(s, objects) ==
  {i \in DOMAIN objects : \/ s[1] = "{" /\ objects[i].depth = 2 /\ objects[i].key = "results:"
                          \/ s[1] = "[" /\ objects[i].depth = 1}

\* One bad id spoils them all, and an element without an id is skipped.
Collect(objects, listed) ==
  IF listed = {} \/ \E i \in listed : BadId(objects[i]) THEN NoResults
  ELSE [read |-> TRUE,
        replies |-> [q \in {FieldOf(objects[i], "question_id:") : i \in {k \in listed : HasId(objects[k])}}
                     |-> ToResult(objects, ResultFor(objects, listed, q))]]

\* NoJSON is not valid either.
AsBatch(s, p)    == IF Readable(p) THEN Collect(p.objects, Elements(s, p.objects)) ELSE NoResults
ReadBatch(s)     == AsBatch(s, Parse(s))
ParseBatch(text) == ReadBatch(ExtractJSON(text))

\* One object; our own id goes before the one echoed.  An object of the batch's shape
\* has none of the fields, and is read all the same; an array is not.
AsSingle(s, p) ==
  IF Readable(p) /\ s[1] = "{" /\ ~BadId(p.objects[1]) THEN ToResult(p.objects, 1) ELSE NoReply
ReadSingle(s)     == AsSingle(s, Parse(s))
ParseSingle(text) == ReadSingle(ExtractJSON(text))
=============================================================================
