----------------------------- MODULE Aggregate -----------------------------
(***************************************************************************)
(* The arithmetic of a review: the 1-5 risk scale and its configurable     *)
(* bands, and the aggregation of the latest result per question into the   *)
(* figures of an assessment summary.                                       *)
(*                                                                         *)
(* Stored scores have two decimals and are integers here, in hundredths.   *)
(* The code computes them in float64 and rounds half away from zero, which *)
(* is what Hundredths does; where a fraction is exactly half a hundredth   *)
(* the float may fall on either side of it.                                *)
(***************************************************************************)
EXTENDS Orders, SequencesExt, TLC

RiskMin == 1
RiskMax == 5
RiskFlagThreshold == 4
Scale == RiskMin .. RiskMax

NoResult == [score |-> 0]

(***************************************************************************)
(* The scale                                                               *)
(***************************************************************************)
ValidRiskScore(r) == r \in Scale

ClampRiskScore(r) ==
  CASE r < RiskMin -> RiskMin
    [] r > RiskMax -> RiskMax
    [] OTHER       -> r

\* A matrix gives the lowest score of the bands medium, high and critical.
ValidRiskMatrix(m) ==
  /\ \A band \in {"medium", "high", "critical"} : ValidRiskScore(m[band])
  /\ m.medium <= m.high /\ m.high <= m.critical

BandAt(score, medium, high, critical) ==
  IF score <= 0 THEN "unknown"
  ELSE IF score < medium THEN "low"
  ELSE IF score < high THEN "medium"
  ELSE IF score < critical THEN "high"
  ELSE "critical"

Band(r, m) == BandAt(r, m.medium, m.high, m.critical)

\* Mutant: the last cutoff is not shifted with the others.
BandHalfShifted(f, m) == BandAt(f, 100 * m.medium - 50, 100 * m.high - 50, 100 * m.critical)

\* An aggregated score falls in the band of the whole score it rounds to.
BandFromFloat(f, m) ==
  BandAt(f, 100 * m.medium - 50, 100 * m.high - 50, 100 * m.critical - 50)

Incomplete(c) == c \in {"partial", "missing", "non_responsive"}

ValidCompleteness(c) == Incomplete(c) \/ c \in {"complete", "unknown"}

\* What is stored of a result a model returned: in range, or the nearest thing to it.
NormalizeResult(r) ==
  [r EXCEPT !.score = ClampRiskScore(@), !.completeness = IF ValidCompleteness(@) THEN @ ELSE "unknown"]

(***************************************************************************)
(* Aggregation                                                             *)
(***************************************************************************)
Total(scores) ==
  LET sum[n \in 0 .. Len(scores)] == IF n = 0 THEN 0 ELSE sum[n - 1] + scores[n]
  IN  sum[Len(scores)]

\* The fraction p / q in hundredths, rounded half up.
Hundredths(p, q) == (200 * p + q) \div (2 * q)

\* The size of the worst quintile of n answers, rounded up: at least one, at most all.
WorstSample(n) == (n + 4) \div 5

Descending(scores) ==
  LET places == DOMAIN scores
      ahead  == {p \in places \X places :
                   \/ scores[p[1]] > scores[p[2]]
                   \/ scores[p[1]] = scores[p[2]] /\ p[1] < p[2]}
      ranked == InOrder(places, ahead)
  IN  [k \in DOMAIN ranked |-> scores[ranked[k]]]

\* Mutant: the best answers are taken for the worst.
BlendOfTheBest(scores) ==
  IF scores = <<>> THEN [mean |-> 0, worst |-> 0, weighted |-> 0]
  ELSE LET len    == Len(scores)
           n      == WorstSample(len)
           sorted == Reverse(Descending(scores))
           head   == Total(SubSeq(sorted, 1, n))
       IN  [mean     |-> Hundredths(Total(scores), len),
            worst    |-> sorted[len],
            weighted |-> Hundredths(2 * Total(scores) * n + 3 * head * len, 5 * len * n)]

\* Two parts mean, three parts mean of the worst quintile.
Blend(scores) ==
  IF scores = <<>> THEN [mean |-> 0, worst |-> 0, weighted |-> 0]
  ELSE LET len    == Len(scores)
           n      == WorstSample(len)
           sorted == Descending(scores)
           head   == Total(SubSeq(sorted, 1, n))
       IN  [mean     |-> Hundredths(Total(scores), len),
            worst    |-> sorted[1],
            weighted |-> Hundredths(2 * Total(scores) * n + 3 * head * len, 5 * len * n)]

\* The scores on record for the questions, in their order.
Scores(questions, results) ==
  LET with == Sublist(questions, {i \in DOMAIN questions : ValidRiskScore(results[questions[i].id].score)})
  IN  [i \in DOMAIN with |-> results[with[i].id].score]

CountOf(questions, ids) == Cardinality({i \in DOMAIN questions : questions[i].id \in ids})

\* Mutant: a high score without a flag does not count as a finding.
FlaggedOnly(results) == {q \in DOMAIN results : results[q] # NoResult /\ results[q].flags > 0}

Flagged(results) ==
  {q \in DOMAIN results : /\ results[q] # NoResult
                          /\ results[q].flags > 0 \/ results[q].score >= RiskFlagThreshold}

Chased(results) ==
  {q \in DOMAIN results : results[q] # NoResult /\ Incomplete(results[q].completeness)}

\* One domain's line, from its questions.
DomainScore(questions, results) ==
  LET b == Blend(Scores(questions, results)) IN
  [domain |-> questions[1].domain, questions |-> Len(questions),
   scored |-> Len(Scores(questions, results)),
   flagged |-> CountOf(questions, Flagged(results)),
   incomplete |-> CountOf(questions, Chased(results)),
   mean |-> b.mean, worst |-> b.worst, weighted |-> b.weighted]

\* The domains in the order the questions bring them up.
DomainOrder(questions) ==
  LET first == {i \in DOMAIN questions :
                  \A j \in 1 .. (i - 1) : questions[j].domain # questions[i].domain}
      with  == Sublist(questions, first)
  IN  [k \in DOMAIN with |-> with[k].domain]

OfDomain(questions, d) == Sublist(questions, {i \in DOMAIN questions : questions[i].domain = d})

Aggregate(questions, results) ==
  LET all   == Scores(questions, results)
      b     == Blend(all)
      order == DomainOrder(questions)
      in(st) == {questions[i].id : i \in {j \in DOMAIN questions : questions[j].status = st}}
  IN [questions |-> Len(questions), scored |-> Len(all),
      overall |-> b.weighted, mean |-> b.mean, worst |-> b.worst,
      flagged |-> CountOf(questions, Flagged(results)),
      incomplete |-> CountOf(questions, Chased(results)),
      pending |-> CountOf(questions, in("ai_drafted")),
      finalized |-> CountOf(questions, in("finalized")),
      domains |-> [i \in DOMAIN order |-> DomainScore(OfDomain(questions, order[i]), results)]]

\* Mutant: findings are cut before they are ranked.
FirstFindings(questions, results, limit) ==
  LET with == Sublist(questions, {i \in DOMAIN questions : results[questions[i].id] # NoResult})
  IN  SubSeq(with, 1, IF Len(with) > limit THEN limit ELSE Len(with))

\* The limit worst results: by score, then by number of flags, then as they come.
TopFindings(questions, results, limit) ==
  LET with   == {i \in DOMAIN questions : results[questions[i].id] # NoResult}
      R(i)   == results[questions[i].id]
      ahead  == {p \in with \X with :
                   \/ R(p[1]).score > R(p[2]).score
                   \/ R(p[1]).score = R(p[2]).score /\ R(p[1]).flags > R(p[2]).flags
                   \/ R(p[1]).score = R(p[2]).score /\ R(p[1]).flags = R(p[2]).flags /\ p[1] < p[2]}
      ranked == InOrder(with, ahead)
  IN  [k \in 1 .. (IF limit > 0 /\ Len(ranked) > limit THEN limit ELSE Len(ranked)) |-> questions[ranked[k]]]
=============================================================================
