------------------------- MODULE ProviderCallsProofs -------------------------
(***************************************************************************)
(* Proofs about ProviderCalls: what a chunk may cost, that every question  *)
(* is accounted for, and, given a reader that keeps what was said in full  *)
(* (ReaderKeeps), that no answer is lost and none is made up.              *)
(***************************************************************************)
EXTENDS ProviderCalls, AggregateProofs

(***************************************************************************)
(* Sheets and their chunks                                                 *)
(***************************************************************************)
Question == [id : Ids, domain : STRING, blank : BOOLEAN]

\* The chunks hold the ids, each in one chunk, at one place of it.
Cuts(ids, cs) ==
  /\ \A k \in DOMAIN cs : /\ cs[k] \in Seq(Question) /\ Len(cs[k]) \in Nat \ {0}
                          /\ DistinctIds(cs[k]) /\ IdsOf(cs[k]) \subseteq ids
                          /\ IsFiniteSet(IdsOf(cs[k])) /\ Cardinality(IdsOf(cs[k])) = Len(cs[k])
  /\ \A k, l \in DOMAIN cs : k # l => IdsOf(cs[k]) \cap IdsOf(cs[l]) = {}
  /\ \A q \in ids : \E k \in DOMAIN cs : q \in IdsOf(cs[k])

\* A chunk has as many ids as questions.
LEMMA IdsCounted ==
  ASSUME NEW Q, NEW c \in Seq(Q), DistinctIds(c)
  PROVE  IsFiniteSet(IdsOf(c)) /\ Cardinality(IdsOf(c)) = Len(c)
<1>1. PICK n \in Nat : n = Len(c) /\ DOMAIN c = 1 .. n OBVIOUS
<1>2. IsFiniteSet(1 .. n) /\ Cardinality(1 .. n) = n BY UpToN
<1> DEFINE f == [i \in 1 .. n |-> c[i].id]
<1>3. f \in Bijection(1 .. n, IdsOf(c))
  <2>1. f \in [1 .. n -> IdsOf(c)] BY <1>1 DEF IdsOf
  <2>2. \A i, k \in 1 .. n : f[i] = f[k] => i = k BY <1>1 DEF DistinctIds
  <2>3. \A q \in IdsOf(c) : \E i \in 1 .. n : f[i] = q BY <1>1 DEF IdsOf
  <2> HIDE DEF f
  <2> QED BY <2>1, <2>2, <2>3 DEF Bijection, Injection, Surjection, IsInjective
<1> HIDE DEF f
<1>4. PICK S, T : S = 1 .. n /\ T = IdsOf(c) OBVIOUS
<1>5. IsFiniteSet(S) /\ Cardinality(S) = n /\ f \in Bijection(S, T) BY <1>2, <1>3, <1>4
<1>6. IsFiniteSet(T) /\ Cardinality(T) = Cardinality(S) BY <1>5, FS_Bijection DEF ExistsBijection
<1> QED BY <1>1, <1>4, <1>5, <1>6

LEMMA SheetsAreCut ==
  ASSUME NEW s \in Sheets
  PROVE  /\ s \in Seq(Question) /\ DistinctIds(s) /\ IdsOf(s) # {}
         /\ ChunksOf[s] \in Seq(Seq(Question))
         /\ \E n \in Nat \ {0} : DOMAIN ChunksOf[s] = 1 .. n /\ Len(ChunksOf[s]) = n
         /\ Cuts(IdsOf(s), ChunksOf[s])
<1>1. s \in Seq(Question) /\ s # <<>> BY SheetAssumption DEF Question
<1>2. DistinctIds(s) BY SheetAssumption DEF DistinctIds
<1>3. PICK Q : Q = Question OBVIOUS
<1>3a. PICK size \in Nat \ {0} : size = BatchSize BY BoundAssumption
<1>4. s \in Seq(Q) BY <1>1, <1>3
<1>5. PICK cs : cs = Chunks(s, size) OBVIOUS
<1>6. cs \in Seq(Seq(Q)) /\ Partition(s, cs) BY <1>2, <1>4, <1>5, ChunksPartition
<1>7. cs = ChunksOf[s] BY <1>3a, <1>5 DEF ChunksOf
<1>8. IdsOf(s) # {}
  <2>1. 1 \in DOMAIN s BY <1>1
  <2> QED BY <2>1 DEF IdsOf
<1>9. PICK n \in Nat : DOMAIN cs = 1 .. n /\ Len(cs) = n BY <1>6
<1>10. ASSUME NEW q \in IdsOf(s) PROVE \E k \in DOMAIN cs : q \in IdsOf(cs[k])
  <2>1. PICK j \in DOMAIN s : q = s[j].id BY DEF IdsOf
  <2>2. PICK k \in DOMAIN cs : \E i \in DOMAIN cs[k] : cs[k][i] = s[j] BY <1>6 DEF Partition
  <2>3. PICK i \in DOMAIN cs[k] : cs[k][i] = s[j] BY <2>2
  <2> QED BY <2>1, <2>3 DEF IdsOf
<1>11. n # 0 BY <1>8, <1>9, <1>10
<1>12. ASSUME NEW k \in DOMAIN cs
       PROVE  /\ cs[k] \in Seq(Question) /\ Len(cs[k]) \in Nat \ {0}
              /\ DistinctIds(cs[k]) /\ IdsOf(cs[k]) \subseteq IdsOf(s)
              /\ IsFiniteSet(IdsOf(cs[k])) /\ Cardinality(IdsOf(cs[k])) = Len(cs[k])
  <2>1. cs[k] \in Seq(Question) BY <1>3, <1>6
  <2>2. cs[k] # <<>> BY <1>6 DEF Partition
  <2>3. DistinctIds(cs[k]) BY <1>6 DEF Partition, DistinctIds
  <2>4. ASSUME NEW q \in IdsOf(cs[k]) PROVE q \in IdsOf(s)
    <3>1. PICK i \in DOMAIN cs[k] : q = cs[k][i].id BY DEF IdsOf
    <3>2. PICK j \in DOMAIN s : cs[k][i] = s[j] BY <1>6 DEF Partition
    <3> QED BY <3>1, <3>2 DEF IdsOf
  <2>5. PICK c \in Seq(Question) : c = cs[k] BY <2>1
  <2>6. IsFiniteSet(IdsOf(c)) /\ Cardinality(IdsOf(c)) = Len(c) BY <2>3, <2>5, IdsCounted
  <2> QED BY <2>1, <2>2, <2>3, <2>4, <2>5, <2>6
<1>13. ASSUME NEW k \in DOMAIN cs, NEW l \in DOMAIN cs, k # l PROVE IdsOf(cs[k]) \cap IdsOf(cs[l]) = {}
  <2>1. SUFFICES ASSUME NEW q, q \in IdsOf(cs[k]), q \in IdsOf(cs[l]) PROVE FALSE OBVIOUS
  <2>2. PICK i \in DOMAIN cs[k] : q = cs[k][i].id BY <2>1 DEF IdsOf
  <2>3. PICK j \in DOMAIN cs[l] : q = cs[l][j].id BY <2>1 DEF IdsOf
  <2>4. cs[k][i].id = cs[l][j].id BY <2>2, <2>3
  <2>5. k = l BY <1>6, <2>4, Zenon DEF Partition
  <2> QED BY <1>13, <2>5
<1>14. Cuts(IdsOf(s), cs) BY <1>10, <1>12, <1>13, Zenon DEF Cuts
<1> QED BY <1>1, <1>2, <1>3, <1>6, <1>7, <1>8, <1>9, <1>11, <1>14

(***************************************************************************)
(* What is read                                                            *)
(***************************************************************************)
\* A result as it is read and as it is stored, with a score on the scale.
IsResult(r) == \E f, c : \E x \in Scale, a, b \in BOOLEAN :
  r = [score |-> x, sure |-> a, draft |-> b, flags |-> f, completeness |-> c]

IsReply(r) == r = NoReply \/ IsResult(r)

LEMMA ResultFacts ==
  ASSUME NEW r, IsResult(r)
  PROVE  /\ r # NoReply /\ r.score \in Scale /\ r.sure \in BOOLEAN /\ r.draft \in BOOLEAN
         /\ IsResult(NormalizeResult(r)) /\ NormalizeResult(r).score = r.score
         /\ ClampRiskScore(r.score) = r.score
<1>1. PICK f, c : \E x \in Scale, a, b \in BOOLEAN :
        r = [score |-> x, sure |-> a, draft |-> b, flags |-> f, completeness |-> c]
  BY DEF IsResult
<1>2. PICK x \in Scale, a \in BOOLEAN, b \in BOOLEAN :
        r = [score |-> x, sure |-> a, draft |-> b, flags |-> f, completeness |-> c]
  BY <1>1
<1>3. x \in 1 .. 5 BY DEF Scale, RiskMin, RiskMax
<1>4. r.score = x /\ r.sure = a /\ r.draft = b /\ r.completeness = c BY <1>2
<1>5. r # NoReply
  <2>1. NoReply.score = -1 BY DEF NoReply
  <2> QED BY <1>3, <1>4, <2>1
<1>6. ClampRiskScore(x) = x BY <1>3 DEF ClampRiskScore, RiskMin, RiskMax
<1>7. PICK d : d = (IF ValidCompleteness(c) THEN c ELSE "unknown") OBVIOUS
<1>8. NormalizeResult(r) = [score |-> x, sure |-> a, draft |-> b, flags |-> f, completeness |-> d]
  <2>1. NormalizeResult(r) = [r EXCEPT !.score = x, !.completeness = d]
    BY <1>4, <1>6, <1>7, Zenon DEF NormalizeResult
  <2> QED BY <1>2, <2>1
<1>9. IsResult(NormalizeResult(r)) BY <1>8 DEF IsResult
<1> QED BY <1>2, <1>4, <1>5, <1>6, <1>8, <1>9

\* Whatever was said, a result is read of it.
LEMMA ToResultIsResult ==
  ASSUME NEW objects, NEW i
  PROVE  IsResult(ToResult(objects, i))
<1> DEFINE o == objects[i]
           flags == {k \in DOMAIN objects : objects[k].in = i /\ objects[k].key = "flags:"
                                            /\ FieldOf(objects[k], "kind:") # ""}
<1>1. PICK n, s : n = FlexNumber(FieldOf(o, "risk_score:")) /\ s = FlexNumber(FieldOf(o, "confidence:"))
  OBVIOUS
<1>2. n \in Int /\ s \in Int BY <1>1, NumeralAssumption DEF FlexNumber
<1>3. PICK f, c : f = Cardinality(flags) /\ c = NormalizeEnum(FieldOf(o, "completeness:")) OBVIOUS
<1>4. PICK a : a = (s >= LowConfidence) OBVIOUS
<1>4a. PICK b : b = (FieldOf(o, "assessor_feedback:") # "") OBVIOUS
<1>4b. a \in BOOLEAN /\ b \in BOOLEAN
  <2>1. (s >= LowConfidence) \in BOOLEAN BY <1>2 DEF LowConfidence
  <2>2. (FieldOf(o, "assessor_feedback:") # "") \in BOOLEAN OBVIOUS
  <2> QED BY <1>4, <1>4a, <2>1, <2>2, Zenon
<1>5. PICK r : r = [score |-> n, sure |-> a, draft |-> b, flags |-> f, completeness |-> c] OBVIOUS
<1>6. ToResult(objects, i) = NormalizeResult(r) BY <1>1, <1>3, <1>4, <1>4a, <1>5, Zenon DEF ToResult
<1>7. PICK x : x = ClampRiskScore(n) OBVIOUS
<1>8. x \in Scale BY <1>2, <1>7 DEF ClampRiskScore, Scale, RiskMin, RiskMax
<1>9. PICK d : d = (IF ValidCompleteness(c) THEN c ELSE "unknown") OBVIOUS
<1>10. NormalizeResult(r) = [score |-> x, sure |-> a, draft |-> b, flags |-> f, completeness |-> d]
  <2>1. r.score = n /\ r.completeness = c BY <1>5
  <2>2. NormalizeResult(r) = [r EXCEPT !.score = x, !.completeness = d]
    BY <1>7, <1>9, <2>1, Zenon DEF NormalizeResult
  <2> QED BY <1>5, <2>2
<1> QED BY <1>4b, <1>6, <1>8, <1>10 DEF IsResult

LEMMA ReadingIsTyped ==
  ASSUME NEW text
  PROVE  /\ ParseBatch(text).read \in BOOLEAN
         /\ \A q \in DOMAIN ParseBatch(text).replies : IsResult(ParseBatch(text).replies[q])
         /\ IsReply(ParseSingle(text))
<1>1. /\ NoResults.read = FALSE /\ DOMAIN NoResults.replies = {} BY DEF NoResults
<1>2. ASSUME NEW objects, NEW listed
      PROVE  /\ Collect(objects, listed).read \in BOOLEAN
             /\ \A q \in DOMAIN Collect(objects, listed).replies : IsResult(Collect(objects, listed).replies[q])
  <2>1. CASE listed = {} \/ \E i \in listed : BadId(objects[i])
    <3>1. Collect(objects, listed) = NoResults BY <2>1 DEF Collect
    <3> QED BY <1>1, <3>1
  <2>2. CASE ~(listed = {} \/ \E i \in listed : BadId(objects[i]))
    <3> DEFINE ids == {FieldOf(objects[i], "question_id:") : i \in {k \in listed : HasId(objects[k])}}
               f == [q \in ids |-> ToResult(objects, ResultFor(objects, listed, q))]
    <3>1. Collect(objects, listed) = [read |-> TRUE, replies |-> f] BY <2>2, Zenon DEF Collect
    <3>2. \A q \in DOMAIN f : IsResult(f[q]) BY ToResultIsResult
    <3> HIDE DEF f
    <3> QED BY <3>1, <3>2
  <2> QED BY <2>1, <2>2
<1>3. ASSUME NEW s, NEW p
      PROVE  /\ AsBatch(s, p).read \in BOOLEAN
             /\ \A q \in DOMAIN AsBatch(s, p).replies : IsResult(AsBatch(s, p).replies[q])
             /\ IsReply(AsSingle(s, p))
  <2>1. AsBatch(s, p) = NoResults \/ AsBatch(s, p) = Collect(p.objects, Elements(s, p.objects))
    BY DEF AsBatch
  <2>2. AsSingle(s, p) = NoReply \/ AsSingle(s, p) = ToResult(p.objects, 1) BY DEF AsSingle
  <2>3. IsReply(AsSingle(s, p)) BY <2>2, ToResultIsResult DEF IsReply
  <2> QED BY <1>1, <1>2, <2>1, <2>3
<1> QED BY <1>3 DEF ParseBatch, ReadBatch, ParseSingle, ReadSingle

(***************************************************************************)
(* Parses and scans                                                        *)
(***************************************************************************)
\* f gives the parse after each token.
Parsing(f, s) == f = [k \in 0 .. Len(s) |-> IF k = 0 THEN ParseFrom ELSE ParseOver(f[k - 1], s[k])]
Walking(f, s) == f = [k \in 0 .. Len(s) |-> IF k = 0 THEN WalkFrom ELSE WalkOver(f[k - 1], s[k])]

LEMMA ParsingOn ==
  ASSUME NEW X, NEW s \in Seq(X)
  PROVE  \E f : Parsing(f, s) /\ Parse(s) = f[Len(s)]
<1>0. PICK n \in Nat : n = Len(s) OBVIOUS
<1> DEFINE Upto(f, m) == f = [k \in 0 .. m |-> IF k = 0 THEN ParseFrom ELSE ParseOver(f[k - 1], s[k])]
           P == {m \in 0 .. n : \E f : Upto(f, m)}
<1>1. 0 \in P
  <2>1. PICK f : f = [k \in 0 .. 0 |-> ParseFrom] OBVIOUS
  <2>2. Upto(f, 0) BY <2>1
  <2> QED BY <2>2
<1>2. ASSUME NEW m \in 0 .. (n - 1), m \in P PROVE m + 1 \in P
  <2>1. PICK f : Upto(f, m) BY <1>2
  <2>2. PICK last : last = ParseOver(f[m], s[m + 1]) OBVIOUS
  <2>3. PICK g : g = [k \in 0 .. (m + 1) |-> IF k = m + 1 THEN last ELSE f[k]] OBVIOUS
  <2>4. \A k \in 0 .. (m + 1) : g[k] = IF k = 0 THEN ParseFrom ELSE ParseOver(g[k - 1], s[k])
    <3> TAKE k \in 0 .. (m + 1)
    <3>1. CASE k = m + 1
      <4>1. g[k - 1] = f[m] /\ g[k] = last /\ k # 0 BY <2>3, <3>1
      <4> QED BY <2>2, <3>1, <4>1
    <3>2. CASE k # m + 1
      <4>1. k \in 0 .. m /\ g[k] = f[k] BY <2>3, <3>2
      <4>2. k # 0 => g[k - 1] = f[k - 1] BY <2>3, <4>1
      <4>3. f[k] = IF k = 0 THEN ParseFrom ELSE ParseOver(f[k - 1], s[k]) BY <2>1, <4>1
      <4> QED BY <4>1, <4>2, <4>3
    <3> QED BY <3>1, <3>2
  <2>5. g = [k \in 0 .. (m + 1) |-> IF k = 0 THEN ParseFrom ELSE ParseOver(g[k - 1], s[k])]
    BY <2>3, <2>4
  <2>6. m + 1 \in 0 .. n OBVIOUS
  <2> QED BY <2>5, <2>6
<1>3. P \in SUBSET (0 .. n) OBVIOUS
<1> HIDE DEF P
<1>4. P = 0 .. n BY <1>1, <1>2, <1>3, UpTo
<1>5. n \in P BY <1>4
<1>6. \E f : Parsing(f, s) BY <1>0, <1>5 DEF P, Parsing
<1> DEFINE g == CHOOSE f : Parsing(f, s)
<1>7. Parsing(g, s) BY <1>6
<1>8. Parse(s) = g[Len(s)] BY DEF Parse, Parsing
<1> QED BY <1>7, <1>8

\* Reading goes on where it stopped.
LEMMA ParseMore ==
  ASSUME NEW X, NEW s \in Seq(X), NEW t \in X
  PROVE  Parse(<<>>) = ParseFrom /\ Parse(Append(s, t)) = ParseOver(Parse(s), t)
<1>0. Parse(<<>>) = ParseFrom
  <2>1. <<>> \in Seq(X) /\ Len(<<>>) = 0 OBVIOUS
  <2>2. PICK f : Parsing(f, <<>>) /\ Parse(<<>>) = f[0] BY <2>1, ParsingOn
  <2>3. 0 \in 0 .. 0 OBVIOUS
  <2> QED BY <2>1, <2>2, <2>3 DEF Parsing
<1>1. PICK n \in Nat : n = Len(s) OBVIOUS
<1>2. PICK u : u = Append(s, t) OBVIOUS
<1>3. u \in Seq(X) /\ Len(u) = n + 1 /\ u[n + 1] = t /\ \A k \in 1 .. n : u[k] = s[k] BY <1>1, <1>2
<1>4. PICK f : Parsing(f, s) /\ Parse(s) = f[n] BY <1>1, ParsingOn
<1>5. PICK g : Parsing(g, u) /\ Parse(u) = g[n + 1] BY <1>3, ParsingOn
<1>6. \A k \in 0 .. n : f[k] = IF k = 0 THEN ParseFrom ELSE ParseOver(f[k - 1], s[k]) BY <1>1, <1>4 DEF Parsing
<1>7. \A k \in 0 .. (n + 1) : g[k] = IF k = 0 THEN ParseFrom ELSE ParseOver(g[k - 1], u[k]) BY <1>3, <1>5 DEF Parsing
<1>8. PICK P : P = {k \in 0 .. n : f[k] = g[k]} OBVIOUS
<1>9. 0 \in P
  <2>1. 0 \in 0 .. n /\ 0 \in 0 .. (n + 1) OBVIOUS
  <2> QED BY <1>6, <1>7, <1>8, <2>1
<1>10. ASSUME NEW k \in 0 .. (n - 1), k \in P PROVE k + 1 \in P
  <2>1. k + 1 \in 1 .. n /\ k + 1 \in 0 .. n /\ k + 1 \in 0 .. (n + 1) /\ k + 1 # 0 /\ (k + 1) - 1 = k OBVIOUS
  <2>2. f[k + 1] = ParseOver(f[k], s[k + 1]) BY <1>6, <2>1
  <2>3. g[k + 1] = ParseOver(g[k], u[k + 1]) BY <1>7, <2>1
  <2>4. f[k] = g[k] /\ u[k + 1] = s[k + 1] BY <1>3, <1>8, <1>10, <2>1
  <2> QED BY <1>8, <2>1, <2>2, <2>3, <2>4
<1>11. P \in SUBSET (0 .. n) BY <1>8
<1>12. P = 0 .. n BY <1>9, <1>10, <1>11, UpTo
<1>13. f[n] = g[n] BY <1>8, <1>12
<1>14. n + 1 \in 0 .. (n + 1) /\ n + 1 # 0 /\ (n + 1) - 1 = n OBVIOUS
<1>15. g[n + 1] = ParseOver(g[n], u[n + 1]) BY <1>7, <1>14
<1> QED BY <1>0, <1>2, <1>3, <1>4, <1>5, <1>13, <1>15

LEMMA WalkingOn ==
  ASSUME NEW X, NEW s \in Seq(X)
  PROVE  \E f : Walking(f, s) /\ Walk(s) = f[Len(s)]
<1>0. PICK n \in Nat : n = Len(s) OBVIOUS
<1> DEFINE Upto(f, m) == f = [k \in 0 .. m |-> IF k = 0 THEN WalkFrom ELSE WalkOver(f[k - 1], s[k])]
           P == {m \in 0 .. n : \E f : Upto(f, m)}
<1>1. 0 \in P
  <2>1. PICK f : f = [k \in 0 .. 0 |-> WalkFrom] OBVIOUS
  <2>2. Upto(f, 0) BY <2>1
  <2> QED BY <2>2
<1>2. ASSUME NEW m \in 0 .. (n - 1), m \in P PROVE m + 1 \in P
  <2>1. PICK f : Upto(f, m) BY <1>2
  <2>2. PICK last : last = WalkOver(f[m], s[m + 1]) OBVIOUS
  <2>3. PICK g : g = [k \in 0 .. (m + 1) |-> IF k = m + 1 THEN last ELSE f[k]] OBVIOUS
  <2>4. \A k \in 0 .. (m + 1) : g[k] = IF k = 0 THEN WalkFrom ELSE WalkOver(g[k - 1], s[k])
    <3> TAKE k \in 0 .. (m + 1)
    <3>1. CASE k = m + 1
      <4>1. g[k - 1] = f[m] /\ g[k] = last /\ k # 0 BY <2>3, <3>1
      <4> QED BY <2>2, <3>1, <4>1
    <3>2. CASE k # m + 1
      <4>1. k \in 0 .. m /\ g[k] = f[k] BY <2>3, <3>2
      <4>2. k # 0 => g[k - 1] = f[k - 1] BY <2>3, <4>1
      <4>3. f[k] = IF k = 0 THEN WalkFrom ELSE WalkOver(f[k - 1], s[k]) BY <2>1, <4>1
      <4> QED BY <4>1, <4>2, <4>3
    <3> QED BY <3>1, <3>2
  <2>5. g = [k \in 0 .. (m + 1) |-> IF k = 0 THEN WalkFrom ELSE WalkOver(g[k - 1], s[k])]
    BY <2>3, <2>4
  <2>6. m + 1 \in 0 .. n OBVIOUS
  <2> QED BY <2>5, <2>6
<1>3. P \in SUBSET (0 .. n) OBVIOUS
<1> HIDE DEF P
<1>4. P = 0 .. n BY <1>1, <1>2, <1>3, UpTo
<1>5. n \in P BY <1>4
<1>6. \E f : Walking(f, s) BY <1>0, <1>5 DEF P, Walking
<1> DEFINE g == CHOOSE f : Walking(f, s)
<1>7. Walking(g, s) BY <1>6
<1>8. Walk(s) = g[Len(s)] BY DEF Walk, Walking
<1> QED BY <1>7, <1>8

\* Scanning goes on where it stopped.
LEMMA WalkMore ==
  ASSUME NEW X, NEW s \in Seq(X), NEW t \in X
  PROVE  Walk(<<>>) = WalkFrom /\ Walk(Append(s, t)) = WalkOver(Walk(s), t)
<1>0. Walk(<<>>) = WalkFrom
  <2>1. <<>> \in Seq(X) /\ Len(<<>>) = 0 OBVIOUS
  <2>2. PICK f : Walking(f, <<>>) /\ Walk(<<>>) = f[0] BY <2>1, WalkingOn
  <2>3. 0 \in 0 .. 0 OBVIOUS
  <2> QED BY <2>1, <2>2, <2>3 DEF Walking
<1>1. PICK n \in Nat : n = Len(s) OBVIOUS
<1>2. PICK u : u = Append(s, t) OBVIOUS
<1>3. u \in Seq(X) /\ Len(u) = n + 1 /\ u[n + 1] = t /\ \A k \in 1 .. n : u[k] = s[k] BY <1>1, <1>2
<1>4. PICK f : Walking(f, s) /\ Walk(s) = f[n] BY <1>1, WalkingOn
<1>5. PICK g : Walking(g, u) /\ Walk(u) = g[n + 1] BY <1>3, WalkingOn
<1>6. \A k \in 0 .. n : f[k] = IF k = 0 THEN WalkFrom ELSE WalkOver(f[k - 1], s[k]) BY <1>1, <1>4 DEF Walking
<1>7. \A k \in 0 .. (n + 1) : g[k] = IF k = 0 THEN WalkFrom ELSE WalkOver(g[k - 1], u[k]) BY <1>3, <1>5 DEF Walking
<1>8. PICK P : P = {k \in 0 .. n : f[k] = g[k]} OBVIOUS
<1>9. 0 \in P
  <2>1. 0 \in 0 .. n /\ 0 \in 0 .. (n + 1) OBVIOUS
  <2> QED BY <1>6, <1>7, <1>8, <2>1
<1>10. ASSUME NEW k \in 0 .. (n - 1), k \in P PROVE k + 1 \in P
  <2>1. k + 1 \in 1 .. n /\ k + 1 \in 0 .. n /\ k + 1 \in 0 .. (n + 1) /\ k + 1 # 0 /\ (k + 1) - 1 = k OBVIOUS
  <2>2. f[k + 1] = WalkOver(f[k], s[k + 1]) BY <1>6, <2>1
  <2>3. g[k + 1] = WalkOver(g[k], u[k + 1]) BY <1>7, <2>1
  <2>4. f[k] = g[k] /\ u[k + 1] = s[k + 1] BY <1>3, <1>8, <1>10, <2>1
  <2> QED BY <1>8, <2>1, <2>2, <2>3, <2>4
<1>11. P \in SUBSET (0 .. n) BY <1>8
<1>12. P = 0 .. n BY <1>9, <1>10, <1>11, UpTo
<1>13. f[n] = g[n] BY <1>8, <1>12
<1>14. n + 1 \in 0 .. (n + 1) /\ n + 1 # 0 /\ (n + 1) - 1 = n OBVIOUS
<1>15. g[n + 1] = WalkOver(g[n], u[n + 1]) BY <1>7, <1>14
<1> QED BY <1>0, <1>2, <1>3, <1>4, <1>5, <1>13, <1>15

\* The parts of a parse: what may come next, the keys, the open brackets, the objects.
Wanted == {"value", "value or ]", "key", "key or }", "more", "nothing"}
Naming == Keys \cup {""}
Frame  == [kind : {"{", "["}, key : Naming, object : Nat]
Fields(W) == UNION {[D -> W] : D \in SUBSET Naming}
Obj(W) == [depth : Nat, key : Naming, in : Nat, fields : Fields(W)]
PState(W) == [stack : Seq(Frame), want : Wanted, string : BOOLEAN, escaped : BOOLEAN,
              key : Naming, word : W, objects : Seq(Obj(W))]


LEMMA Added ==
  ASSUME NEW W, NEW f \in Fields(W), NEW k \in Naming, NEW w \in W
  PROVE  /\ Member(f, k, w) \in Fields(W)
         /\ DOMAIN Member(f, k, w) = DOMAIN f \cup {k}
         /\ Member(f, k, w)[k] = w
         /\ \A x \in DOMAIN f : x # k => Member(f, k, w)[x] = f[x]
<1>1. PICK D \in SUBSET Naming : f \in [D -> W] BY DEF Fields
<1>2. PICK g : g = Member(f, k, w) OBVIOUS
<1>3. g = [x \in D \cup {k} |-> IF x = k THEN w ELSE f[x]]
  BY <1>1, <1>2 DEF Member
<1>4. D \cup {k} \in SUBSET Naming /\ g \in [D \cup {k} -> W] BY <1>1, <1>3
<1>5. g \in Fields(W) BY <1>4 DEF Fields
<1> QED BY <1>1, <1>2, <1>3, <1>5

\* The objects seen so far, with one more member of the innermost.
Taken(objects, o, k, w) == [objects EXCEPT ![o].fields = Member(@, k, w)]

LEMMA TakenTyped ==
  ASSUME NEW W, NEW objects \in Seq(Obj(W)), NEW o, NEW k \in Naming, NEW w \in W
  PROVE  /\ Taken(objects, o, k, w) \in Seq(Obj(W)) /\ Len(Taken(objects, o, k, w)) = Len(objects)
         /\ \A i \in DOMAIN objects : i # o => Taken(objects, o, k, w)[i] = objects[i]
         /\ o \in DOMAIN objects =>
              Taken(objects, o, k, w)[o] = [objects[o] EXCEPT !.fields = Member(objects[o].fields, k, w)]
<1>1. PICK t : t = Taken(objects, o, k, w) OBVIOUS
<1>2. PICK n \in Nat : n = Len(objects) /\ DOMAIN objects = 1 .. n OBVIOUS
<1>3. CASE o \in DOMAIN objects
  <2>1. PICK x : x = [objects[o] EXCEPT !.fields = Member(objects[o].fields, k, w)] OBVIOUS
  <2>2. t = [objects EXCEPT ![o] = x] BY <1>1, <2>1 DEF Taken
  <2>3. objects[o] \in Obj(W) BY <1>3
  <2>4. Member(objects[o].fields, k, w) \in Fields(W) BY <2>3, Added DEF Obj
  <2>5. x \in Obj(W) BY <2>1, <2>3, <2>4 DEF Obj
  <2>6. t \in Seq(Obj(W)) /\ Len(t) = n BY <1>2, <1>3, <2>2, <2>5
  <2> QED BY <1>1, <1>2, <1>3, <2>1, <2>2, <2>6
<1>4. CASE o \notin DOMAIN objects
  <2>1. t = objects BY <1>1, <1>2, <1>4 DEF Taken
  <2> QED BY <1>1, <1>2, <1>4, <2>1
<1> QED BY <1>3, <1>4

LEMMA ValueTyped ==
  ASSUME NEW W, NEW p \in PState(W), NEW w \in W
  PROVE  TakeValue(p, w) \in PState(W)
<1>1. PICK stack \in Seq(Frame), want \in Wanted, string \in BOOLEAN, escaped \in BOOLEAN,
           key \in Naming, word \in W, objects \in Seq(Obj(W)) :
        p = [stack |-> stack, want |-> want, string |-> string, escaped |-> escaped, key |-> key,
             word |-> word, objects |-> objects]
  BY DEF PState
<1>2. PICK o : o = Top(p).object OBVIOUS
<1>3. PICK q : q = TakeValue(p, w) OBVIOUS
<1>4. \/ q = [p EXCEPT !.want = "more"]
      \/ q = [p EXCEPT !.want = "more", !.objects = Taken(objects, o, key, w)]
  BY <1>1, <1>2, <1>3 DEF TakeValue, Taken
<1>5. "more" \in Wanted BY DEF Wanted
<1>6. Taken(objects, o, key, w) \in Seq(Obj(W)) BY TakenTyped
<1>7. CASE q = [p EXCEPT !.want = "more"] BY <1>1, <1>3, <1>5, <1>7 DEF PState
<1>8. CASE q = [p EXCEPT !.want = "more", !.objects = Taken(objects, o, key, w)]
  <2>1. q = [stack |-> stack, want |-> "more", string |-> string, escaped |-> escaped, key |-> key,
             word |-> word, objects |-> Taken(objects, o, key, w)]
    BY <1>1, <1>8
  <2> QED BY <1>3, <1>5, <1>6, <2>1 DEF PState
<1> QED BY <1>4, <1>7, <1>8

Opening(t) == t \in {"{", "["}

\* No word at all is one, too.
Wordy(W) == "" \in W

\* Pushing and popping.
LEMMA StackFacts ==
  ASSUME NEW X, NEW s \in Seq(X)
  PROVE  /\ s # <<>> => Front(s) \in Seq(X) /\ Len(Front(s)) = Len(s) - 1
         /\ \A x \in X : /\ Append(s, x) # <<>> /\ Last(Append(s, x)) = x
                         /\ Front(Append(s, x)) = s
<1>1. ASSUME s # <<>> PROVE Front(s) \in Seq(X) /\ Len(Front(s)) = Len(s) - 1
  <2>1. Len(s) - 1 \in Nat /\ 1 \in Int /\ Len(s) - 1 \in Int BY <1>1
  <2>2. \A i \in 1 .. (Len(s) - 1) : s[i] \in X OBVIOUS
  <2>0. PICK n \in Nat : n = Len(s) - 1 BY <2>1
  <2>4. 1 \in Int /\ n \in Int /\ \A i \in 1 .. n : s[i] \in X BY <2>0, <2>2
  <2>5. SubSeq(s, 1, n) \in Seq(X) /\ Len(SubSeq(s, 1, n)) = IF 1 <= n THEN n - 1 + 1 ELSE 0
    BY <2>4, SubSeqProperties
  <2>3. SubSeq(s, 1, Len(s) - 1) \in Seq(X) /\ Len(SubSeq(s, 1, Len(s) - 1)) = Len(s) - 1
    BY <2>0, <2>5
  <2> QED BY <2>3 DEF Front
<1>2. ASSUME NEW x \in X
      PROVE  Append(s, x) # <<>> /\ Last(Append(s, x)) = x /\ Front(Append(s, x)) = s
  <2>1. PICK u : u = Append(s, x) OBVIOUS
  <2>2. u \in Seq(X) /\ Len(u) = Len(s) + 1 /\ u[Len(u)] = x /\ \A i \in 1 .. Len(s) : u[i] = s[i] BY <2>1
  <2>3. u # <<>> /\ Last(u) = x BY <2>2 DEF Last
  <2>4. Front(u) \in Seq(X) /\ Len(Front(u)) = Len(s) /\ \A i \in 1 .. Len(s) : Front(u)[i] = s[i]
    BY <2>2 DEF Front
  <2>5. Front(u) = s BY <2>4
  <2> QED BY <2>1, <2>3, <2>5
<1> QED BY <1>1, <1>2

\* The parts of a parse.
LEMMA ParseParts ==
  ASSUME NEW W, NEW p \in PState(W)
  PROVE  /\ p.stack \in Seq(Frame) /\ p.want \in Wanted /\ p.string \in BOOLEAN /\ p.escaped \in BOOLEAN
         /\ p.key \in Naming /\ p.word \in W /\ p.objects \in Seq(Obj(W))
         /\ Len(p.stack) \in Nat /\ Len(p.objects) \in Nat
<1>1. /\ p.stack \in Seq(Frame) /\ p.want \in Wanted /\ p.string \in BOOLEAN /\ p.escaped \in BOOLEAN
      /\ p.key \in Naming /\ p.word \in W /\ p.objects \in Seq(Obj(W))
  BY DEF PState
<1>2. PICK s \in Seq(Frame), o \in Seq(Obj(W)) : s = p.stack /\ o = p.objects BY <1>1
<1>3. Len(s) \in Nat /\ Len(o) \in Nat OBVIOUS
<1> QED BY <1>1, <1>2, <1>3

LEMMA TopTyped ==
  ASSUME NEW W, NEW p \in PState(W)
  PROVE  /\ Top(p).key \in Naming /\ Top(p).object \in Nat /\ Top(p).kind \in {"", "{", "["}
         /\ p.stack = <<>> <=> Top(p).kind = ""
<1>1. p.stack \in Seq(Frame) BY DEF PState
<1>2. CASE p.stack = <<>>
  <2>1. Top(p) = [kind |-> "", key |-> "", object |-> 0] BY <1>2 DEF Top
  <2>2. "" \in Naming BY DEF Naming
  <2>3. PICK x : x = [kind |-> "", key |-> "", object |-> 0] OBVIOUS
  <2>4. x.kind = "" /\ x.key = "" BY <2>3
  <2>7. x.object \in Nat BY <2>3
  <2>6. x.key \in Naming BY <2>2, <2>4
  <2>5. x.key \in Naming /\ x.object \in Nat /\ x.kind \in {"", "{", "["} 
    <3>2. x.kind \in {"", "{", "["} BY <2>4
    <3> QED BY <2>6, <2>7, <3>2
  <2> QED BY <1>2, <2>1, <2>3, <2>4, <2>5
<1>3. CASE p.stack # <<>>
  <2>1. Top(p) = Last(p.stack) BY <1>3 DEF Top
  <2>2. Last(p.stack) \in Frame BY <1>1, <1>3 DEF Last
  <2> QED BY <1>3, <2>1, <2>2 DEF Frame
<1> QED BY <1>2, <1>3

LEMMA OpenTyped ==
  ASSUME NEW W, NEW p \in PState(W), NEW t, Opening(t)
  PROVE  OpenBracket(p, t) \in PState(W)
<1>1. PICK q : q = OpenBracket(p, t) OBVIOUS
<1>2. PICK top : top = Top(p) /\ top.key \in Naming /\ top.object \in Nat BY TopTyped
<1>3. PICK key : key = (IF top.kind = "{" THEN p.key ELSE top.key) OBVIOUS
<1>4. key \in Naming BY <1>2, <1>3, ParseParts
<1>5. PICK new : new = [depth |-> Len(p.stack), key |-> key, in |-> top.object, fields |-> NoFields] OBVIOUS
<1>6. NoFields \in Fields(W)
  <2>1. NoFields \in [{} -> W] BY DEF NoFields
  <2>2. {} \in SUBSET Naming OBVIOUS
  <2> QED BY <2>1, <2>2 DEF Fields
<1>7. new \in Obj(W)
  <2>1. Len(p.stack) \in Nat BY ParseParts
  <2> QED BY <1>2, <1>4, <1>5, <1>6, <2>1 DEF Obj
<1>8. PICK frame, flat : frame = [kind |-> t, key |-> key, object |-> Len(p.objects) + 1]
                         /\ flat = [kind |-> t, key |-> key, object |-> top.object]
  OBVIOUS
<1>9. frame \in Frame /\ flat \in Frame
  <2>1. Len(p.objects) \in Nat BY ParseParts
  <2>2. Len(p.objects) + 1 \in Nat BY <2>1
  <2> QED BY <1>2, <1>4, <1>8, <2>2 DEF Frame, Opening
<1>10. q = IF t = "{" THEN [p EXCEPT !.want = "key or }", !.objects = Append(p.objects, new), !.stack = Append(p.stack, frame)]
           ELSE [p EXCEPT !.want = "value or ]", !.stack = Append(p.stack, flat)]
  <2>1. q = IF t = "{" THEN [p EXCEPT !.want = "key or }", !.objects = Append(@, new), !.stack = Append(@, frame)]
           ELSE [p EXCEPT !.want = "value or ]", !.stack = Append(@, flat)]
    BY <1>1, <1>2, <1>3, <1>5, <1>8, Zenon DEF OpenBracket
  <2> QED BY <2>1
<1>11. /\ Append(p.objects, new) \in Seq(Obj(W)) /\ Append(p.stack, frame) \in Seq(Frame)
       /\ Append(p.stack, flat) \in Seq(Frame)
  <2>1. PICK s \in Seq(Frame), o \in Seq(Obj(W)) : s = p.stack /\ o = p.objects BY ParseParts
  <2>2. Append(o, new) \in Seq(Obj(W)) /\ Append(s, frame) \in Seq(Frame) /\ Append(s, flat) \in Seq(Frame)
    BY <1>7, <1>9
  <2> QED BY <2>1, <2>2
<1>12. "key or }" \in Wanted /\ "value or ]" \in Wanted BY DEF Wanted
<1>13. [p EXCEPT !.want = "key or }", !.objects = Append(p.objects, new), !.stack = Append(p.stack, frame)] \in PState(W)
  BY <1>11, <1>12 DEF PState
<1>14. [p EXCEPT !.want = "value or ]", !.stack = Append(p.stack, flat)] \in PState(W) BY <1>11, <1>12 DEF PState
<1> QED BY <1>1, <1>10, <1>13, <1>14

LEMMA StepTyped ==
  ASSUME NEW W, Wordy(W), NEW p \in PState(W), NEW t \in W
  PROVE  ParseOver(p, t) \in PState(W)
<1>1. PICK q : q = ParseOver(p, t) OBVIOUS
<1>2. \/ q = [p EXCEPT !.escaped = FALSE, !.word = t]
      \/ q = [p EXCEPT !.escaped = TRUE]
      \/ q = TakeValue([p EXCEPT !.string = FALSE], p.word)
      \/ q = [p EXCEPT !.word = t]
      \/ q = [p EXCEPT !.string = TRUE, !.word = ""]
      \/ q = TakeValue(p, t)
      \/ Opening(t) /\ q = OpenBracket(p, t)
      \/ t \in Keys /\ q = [p EXCEPT !.key = t, !.want = "value"]
      \/ p.stack # <<>> /\ q = [p EXCEPT !.stack = Front(p.stack), !.want = "more"]
      \/ q = [p EXCEPT !.want = "key"] \/ q = [p EXCEPT !.want = "value"]
      \/ q = [p EXCEPT !.want = "nothing"]
  <2>1. CASE p.escaped BY <1>1, <2>1 DEF ParseOver
  <2>2. CASE ~p.escaped /\ p.string
    <3>1. q = CASE t = Backslash           -> [p EXCEPT !.escaped = TRUE]
           [] t = Quote               -> TakeValue([p EXCEPT !.string = FALSE], p.word)
           [] OTHER                   -> [p EXCEPT !.word = t]
      BY <1>1, <2>2 DEF ParseOver
    <3>2. PICK a, b, c : /\ a = [p EXCEPT !.escaped = TRUE] /\ b = TakeValue([p EXCEPT !.string = FALSE], p.word)
                         /\ c = [p EXCEPT !.word = t]
      OBVIOUS
    <3>3. q = CASE t = Backslash -> a [] t = Quote -> b [] OTHER -> c BY <3>1, <3>2
    <3>4. q = a \/ q = b \/ q = c BY <3>3
    <3> QED BY <3>2, <3>4
  <2>3. CASE ~p.escaped /\ ~p.string
    <3>1. p.stack = <<>> <=> Top(p).kind = "" BY TopTyped
    <3>2. PICK a, b, c, d, e, f, g : 
            /\ a = [p EXCEPT !.string = TRUE, !.word = ""] /\ b = TakeValue(p, t) /\ c = OpenBracket(p, t)
            /\ d = [p EXCEPT !.key = t, !.want = "value"] /\ e = [p EXCEPT !.stack = Front(@), !.want = "more"]
            /\ f = [p EXCEPT !.want = IF Top(p).kind = "{" THEN "key" ELSE "value"]
            /\ g = [p EXCEPT !.want = "nothing"]
      OBVIOUS
    <3>3. q = CASE t = Quote /\ Wants(p) -> a
                [] t \in DOMAIN Numeral /\ Wants(p) -> b
                [] Opening(t) /\ Wants(p) -> c
                [] t \in Keys /\ p.want \in {"key", "key or }"} -> d
                [] t = "}" /\ Top(p).kind = "{" /\ p.want \in {"more", "key or }"} -> e
                [] t = "]" /\ Top(p).kind = "[" /\ p.want \in {"more", "value or ]"} -> e
                [] t = "," /\ p.want = "more" /\ p.stack # <<>> -> f
                [] OTHER -> g
      BY <1>1, <2>3, <3>2 DEF ParseOver, Opening
    <3>4. \/ q = a \/ q = b
          \/ Opening(t) /\ q = c
          \/ t \in Keys /\ q = d
          \/ p.stack # <<>> /\ q = e
          \/ q = f \/ q = g
      <4>1. PICK A, B, C, D, E, F, G : 
              /\ A = (t = Quote /\ Wants(p)) /\ B = (t \in DOMAIN Numeral /\ Wants(p))
              /\ C = (Opening(t) /\ Wants(p)) /\ D = (t \in Keys /\ p.want \in {"key", "key or }"})
              /\ E = (t = "}" /\ Top(p).kind = "{" /\ p.want \in {"more", "key or }"})
              /\ F = (t = "]" /\ Top(p).kind = "[" /\ p.want \in {"more", "value or ]"})
              /\ G = (t = "," /\ p.want = "more" /\ p.stack # <<>>)
        OBVIOUS
      <4>2. q = CASE A -> a [] B -> b [] C -> c [] D -> d [] E -> e [] F -> e [] G -> f [] OTHER -> g
        BY <3>3, <4>1, Zenon
      <4>3. q = a \/ q = b \/ q = f \/ q = g \/ (C /\ q = c) \/ (D /\ q = d) \/ (E /\ q = e) \/ (F /\ q = e)
        BY <4>2
      <4>4. (C => Opening(t)) /\ (D => t \in Keys) BY <4>1, Zenon
      <4>5. E \/ F => p.stack # <<>> BY <3>1, <4>1
      <4> QED BY <4>3, <4>4, <4>5
    <3>5. e = [p EXCEPT !.stack = Front(p.stack), !.want = "more"] BY <3>2
    <3>6. f = [p EXCEPT !.want = "key"] \/ f = [p EXCEPT !.want = "value"] BY <3>2
    <3> QED BY <3>2, <3>4, <3>5, <3>6
  <2>4. p.escaped \in BOOLEAN /\ p.string \in BOOLEAN BY ParseParts
  <2> QED BY <2>1, <2>2, <2>3, <2>4
<1>3. /\ p.stack \in Seq(Frame) /\ p.want \in Wanted /\ p.string \in BOOLEAN /\ p.escaped \in BOOLEAN
      /\ p.key \in Naming /\ p.word \in W /\ p.objects \in Seq(Obj(W))
  BY ParseParts
<1>4. [p EXCEPT !.escaped = FALSE, !.word = t] \in PState(W) /\ [p EXCEPT !.escaped = TRUE] \in PState(W)
      /\ [p EXCEPT !.word = t] \in PState(W) /\ [p EXCEPT !.string = TRUE, !.word = ""] \in PState(W)
      /\ [p EXCEPT !.string = FALSE] \in PState(W)
  BY DEF PState, Wordy
<1>5. /\ [p EXCEPT !.want = "key"] \in PState(W) /\ [p EXCEPT !.want = "value"] \in PState(W)
      /\ [p EXCEPT !.want = "nothing"] \in PState(W)
  BY DEF PState, Wanted
<1>6. t \in Keys => [p EXCEPT !.key = t, !.want = "value"] \in PState(W) BY DEF PState, Wanted, Naming
<1>7. p.stack # <<>> => [p EXCEPT !.stack = Front(p.stack), !.want = "more"] \in PState(W)
  <2>1. p.stack # <<>> => Front(p.stack) \in Seq(Frame) BY <1>3, StackFacts
  <2> QED BY <2>1 DEF PState, Wanted
<1>8. TakeValue([p EXCEPT !.string = FALSE], p.word) \in PState(W) /\ TakeValue(p, t) \in PState(W)
  BY <1>3, <1>4, ValueTyped
<1>9. Opening(t) => OpenBracket(p, t) \in PState(W) BY OpenTyped
<1> QED BY <1>1, <1>2, <1>4, <1>5, <1>6, <1>7, <1>8, <1>9

\* Whatever is read of a text, its words are words of the text.
LEMMA ParseTyped ==
  ASSUME NEW W, Wordy(W), NEW s \in Seq(W)
  PROVE  Parse(s) \in PState(W)
<1>1. PICK n \in Nat : n = Len(s) OBVIOUS
<1>2. PICK f : Parsing(f, s) /\ Parse(s) = f[n] BY <1>1, ParsingOn
<1>3. \A k \in 0 .. n : f[k] = IF k = 0 THEN ParseFrom ELSE ParseOver(f[k - 1], s[k]) BY <1>1, <1>2 DEF Parsing
<1>4. ParseFrom \in PState(W)
  <2>1. <<>> \in Seq(Frame) /\ <<>> \in Seq(Obj(W)) /\ "" \in Naming /\ "value" \in Wanted BY DEF Naming, Wanted
  <2> QED BY <2>1 DEF ParseFrom, PState, Wordy
<1>5. f[0] \in PState(W) BY <1>3, <1>4
<1>6. \A k \in 1 .. n : f[k - 1] \in PState(W) => f[k] \in PState(W)
  <2> TAKE k \in 1 .. n
  <2>1. f[k] = ParseOver(f[k - 1], s[k]) /\ s[k] \in W BY <1>1, <1>3
  <2> QED BY <2>1, StepTyped
<1>7. PICK X : X = PState(W) OBVIOUS
<1>8. \A k \in 0 .. n : f[k] \in X BY <1>5, <1>6, <1>7, StaysIn
<1> QED BY <1>2, <1>7, <1>8

\* A scan of k tokens.
CloseMark == {"}", "]"}
OpenMark  == {"{", "["}

Scans(k) == [stack : Seq(OpenMark), string : BOOLEAN, escaped : BOOLEAN, at : {k},
             complete : 0 .. k, bracket : 0 .. k]

LEMMA UnwoundTyped ==
  ASSUME NEW k \in Nat, NEW w \in Scans(k)
  PROVE  Unwound(w) \in Scans(k)
<1>1. PICK s \in Seq(OpenMark) : s = w.stack BY DEF Scans
<1>2. PICK z : z = (IF s = <<>> THEN <<>> ELSE Front(s)) OBVIOUS
<1>3. z \in Seq(OpenMark)
  <2>1. s # <<>> => Front(s) \in Seq(OpenMark) BY StackFacts
  <2> QED BY <1>2, <2>1
<1>4. PICK c : c = (IF w.complete = 0 /\ s # <<>> /\ z = <<>> THEN k ELSE w.complete) OBVIOUS
<1>5. w.at = k /\ w.complete \in 0 .. k BY DEF Scans
<1>6. c \in 0 .. k /\ k \in 0 .. k BY <1>4, <1>5
<1>7. Unwound(w) = [w EXCEPT !.stack = z, !.bracket = k, !.complete = c]
  BY <1>1, <1>2, <1>4, <1>5 DEF Unwound
<1> QED BY <1>3, <1>6, <1>7 DEF Scans

LEMMA WalkStep ==
  ASSUME NEW k \in Nat, NEW w \in Scans(k), NEW t
  PROVE  WalkOver(w, t) \in Scans(k + 1)
<1>1. PICK next : next = [w EXCEPT !.at = @ + 1] OBVIOUS
<1>2. next \in Scans(k + 1)
  <2>1. 0 .. k \subseteq 0 .. (k + 1) OBVIOUS
  <2>2. w.at = k BY DEF Scans
  <2>3. next = [w EXCEPT !.at = k + 1] BY <1>1, <2>2
  <2> QED BY <2>1, <2>3 DEF Scans
<1>3. PICK a, b, c, d, e : 
        /\ a = [next EXCEPT !.escaped = FALSE]
        /\ b = [next EXCEPT !.escaped = (t = Backslash), !.string = (t # Quote)]
        /\ c = [next EXCEPT !.string = TRUE]
        /\ d = [next EXCEPT !.stack = Append(@, t)]
        /\ e = Unwound(next)
  OBVIOUS
<1>4. \/ WalkOver(w, t) = a \/ WalkOver(w, t) = b \/ WalkOver(w, t) = c
      \/ t \in OpenMark /\ WalkOver(w, t) = d
      \/ WalkOver(w, t) = e \/ WalkOver(w, t) = next
  <2>1. PICK A, B, C, D, F : 
          /\ A = w.escaped /\ B = (~w.escaped /\ w.string) /\ C = (~w.escaped /\ ~w.string /\ t = Quote)
          /\ D = (~w.escaped /\ ~w.string /\ t \in OpenMark) /\ F = (~w.escaped /\ ~w.string /\ t \in CloseMark)
    OBVIOUS
  <2>2. WalkOver(w, t) = CASE A -> a [] B -> b [] C -> c [] D -> d [] F -> e [] OTHER -> next
    BY <1>1, <1>3, <2>1, Zenon DEF WalkOver, OpenMark, CloseMark
  <2>3. D => t \in OpenMark BY <2>1, Zenon
  <2> QED BY <2>2, <2>3
<1>5. a \in Scans(k + 1) /\ c \in Scans(k + 1) BY <1>2, <1>3 DEF Scans
<1>6. b \in Scans(k + 1)
  <2>1. PICK x \in BOOLEAN, y \in BOOLEAN : x = (t = Backslash) /\ y = (t # Quote) OBVIOUS
  <2>2. b = [next EXCEPT !.escaped = x, !.string = y] BY <1>3, <2>1, Zenon
  <2> QED BY <1>2, <2>2 DEF Scans
<1>7. t \in OpenMark => d \in Scans(k + 1)
  <2>1. PICK s \in Seq(OpenMark) : s = next.stack BY <1>2 DEF Scans
  <2>2. t \in OpenMark => Append(s, t) \in Seq(OpenMark) OBVIOUS
  <2>3. d = [next EXCEPT !.stack = Append(s, t)] BY <1>3, <2>1
  <2> QED BY <1>2, <2>2, <2>3 DEF Scans
<1>8. e \in Scans(k + 1) BY <1>2, <1>3, UnwoundTyped
<1> QED BY <1>2, <1>4, <1>5, <1>6, <1>7, <1>8

\* A scan stays within its text.
LEMMA WalkTyped ==
  ASSUME NEW X, NEW s \in Seq(X)
  PROVE  /\ Walk(s).complete \in 0 .. Len(s) /\ Walk(s).bracket \in 0 .. Len(s)
         /\ Walk(s).stack \in Seq(OpenMark)
<1>1. PICK n \in Nat : n = Len(s) OBVIOUS
<1>2. PICK f : Walking(f, s) /\ Walk(s) = f[n] BY <1>1, WalkingOn
<1>3. \A k \in 0 .. n : f[k] = IF k = 0 THEN WalkFrom ELSE WalkOver(f[k - 1], s[k]) BY <1>1, <1>2 DEF Walking
<1>4. WalkFrom \in Scans(0)
  <2>1. <<>> \in Seq(OpenMark) /\ 0 \in 0 .. 0 OBVIOUS
  <2> QED BY <2>1 DEF WalkFrom, Scans
<1>5. PICK P : P = {k \in 0 .. n : f[k] \in Scans(k)} OBVIOUS
<1>6. 0 \in P BY <1>3, <1>4, <1>5
<1>7. ASSUME NEW k \in 0 .. (n - 1), k \in P PROVE k + 1 \in P
  <2>1. k + 1 \in 0 .. n /\ k + 1 # 0 /\ (k + 1) - 1 = k /\ k \in Nat OBVIOUS
  <2>2. f[k + 1] = WalkOver(f[k], s[k + 1]) BY <1>3, <2>1
  <2>3. f[k] \in Scans(k) BY <1>5, <1>7
  <2>4. f[k + 1] \in Scans(k + 1) BY <2>1, <2>2, <2>3, WalkStep
  <2> QED BY <1>5, <2>1, <2>4
<1>8. P \in SUBSET (0 .. n) BY <1>5
<1>9. P = 0 .. n BY <1>6, <1>7, <1>8, UpTo
<1>10. f[n] \in Scans(n) BY <1>5, <1>9
<1> QED BY <1>1, <1>2, <1>10 DEF Scans

(***************************************************************************)
(* What is found of a text                                                 *)
(***************************************************************************)
\* What is closed is closed by marks.
Marks == {"}", "]", Quote}
Marking(W) == Marks \subseteq W /\ "" \in W

LEMMA PlacesFound ==
  ASSUME NEW n \in Nat, NEW S \in SUBSET (1 .. n), S # {}
  PROVE  FirstOf(S) \in S /\ LastOf(S) \in S
<1>1. S \in SUBSET Nat OBVIOUS
<1>2. \E m \in S : \A j \in S : m <= j BY <1>1, LeastNatural
<1>3. \A j \in S : j <= n OBVIOUS
<1>4. Max(S) \in S /\ \A j \in S : j <= Max(S) BY <1>1, <1>3, MaxIs
<1> QED BY <1>2, <1>4 DEF FirstOf, LastOf

LEMMA PartTyped ==
  ASSUME NEW W, NEW s \in Seq(W), NEW m \in Nat, m >= 1, NEW k \in Int, k <= Len(s)
  PROVE  SubSeq(s, m, k) \in Seq(W)
<1>1. \A i \in m .. k : s[i] \in W OBVIOUS
<1>2. m \in Int OBVIOUS
<1> QED BY <1>1, <1>2, SubSeqProperties

LEMMA PlacesTyped ==
  ASSUME NEW W, NEW s \in Seq(W), NEW t
  PROVE  /\ Positions(s, t) \in SUBSET (1 .. Len(s))
         /\ Positions(s, t) # {} => /\ FirstOf(Positions(s, t)) \in 1 .. Len(s)
                                    /\ LastOf(Positions(s, t)) \in 1 .. Len(s)
<1>1. Positions(s, t) \in SUBSET (1 .. Len(s)) BY DEF Positions
<1>2. Len(s) \in Nat OBVIOUS
<1> QED BY <1>1, <1>2, PlacesFound

LEMMA RepairTyped ==
  ASSUME NEW W, Marking(W), NEW s \in Seq(W)
  PROVE  RepairTruncated(s) \in Seq(W)
<1>1. ASSUME NEW u \in Seq(W) PROVE TrimCommas(u) \in Seq(W)
  <2>1. PICK kept : kept = {i \in DOMAIN u : u[i] # ","} OBVIOUS
  <2>2. CASE kept = {}
    <3>1. TrimCommas(u) = <<>> BY <2>1, <2>2 DEF TrimCommas
    <3> QED BY <3>1
  <2>3. CASE kept # {}
    <3>1. Len(u) \in Nat /\ kept \in SUBSET (1 .. Len(u))
      <4>1. Len(u) \in Nat /\ DOMAIN u = 1 .. Len(u) OBVIOUS
      <4>2. kept \in SUBSET DOMAIN u BY <2>1, Zenon
      <4> QED BY <4>1, <4>2, Zenon
    <3>2. LastOf(kept) \in 1 .. Len(u) BY <2>3, <3>1, PlacesFound
    <3>3. TrimCommas(u) = SubSeq(u, 1, LastOf(kept)) BY <2>1, <2>3 DEF TrimCommas
    <3> QED BY <3>2, <3>3, PartTyped
  <2> QED BY <2>2, <2>3
<1>2. ASSUME NEW u \in Seq(W) PROVE Closed(u) \in Seq(W)
  <2>1. PICK stack \in Seq(OpenMark) : stack = Walk(u).stack BY WalkTyped
  <2>2. PICK q : q = (IF Walk(u).string THEN <<Quote>> ELSE <<>>) OBVIOUS
  <2>3. Quote \in W /\ "}" \in W /\ "]" \in W BY DEF Marking, Marks
  <2>4. q \in Seq(W)
    <3>0. PICK x \in W : x = Quote BY <2>3
    <3>1. <<>> \in Seq(W) /\ <<x>> \in Seq(W) OBVIOUS
    <3> QED BY <2>2, <3>0, <3>1
  <2>5. Closing(stack) \in Seq(W)
    <3>1. PICK n \in Nat : n = Len(stack) /\ DOMAIN stack = 1 .. n OBVIOUS
    <3>2. PICK c : c = Closing(stack) OBVIOUS
    <3>3. c = [i \in 1 .. n |-> IF stack[n + 1 - i] = "{" THEN "}" ELSE "]"] BY <3>1, <3>2 DEF Closing
    <3>4. \A i \in 1 .. n : c[i] \in W BY <2>3, <3>3
    <3>5. c = [i \in 1 .. n |-> c[i]] BY <3>3
    <3>6. c \in [1 .. n -> W] BY <3>4, <3>5
    <3>7. c \in Seq(W) BY <3>6, SeqDef
    <3> QED BY <3>2, <3>7
  <2>6. Closed(u) = u \o q \o Closing(stack) BY <2>1, <2>2 DEF Closed
  <2>7. u \o q \in Seq(W) BY <2>4, ConcatProperties
  <2>8. (u \o q) \o Closing(stack) \in Seq(W) BY <2>5, <2>7, ConcatProperties
  <2> QED BY <2>6, <2>8
<1>3. PICK cut : cut = Walk(s).bracket OBVIOUS
<1>4. cut \in 0 .. Len(s) BY <1>3, WalkTyped
<1>5. PICK u : u = (IF cut > 0 THEN SubSeq(s, 1, cut) ELSE s) OBVIOUS
<1>6. u \in Seq(W)
  <2>1. SubSeq(s, 1, cut) \in Seq(W) BY <1>4, PartTyped
  <2> QED BY <1>5, <2>1
<1>7. RepairTruncated(s) = Closed(TrimCommas(u)) BY <1>3, <1>5 DEF RepairTruncated
<1> QED BY <1>1, <1>2, <1>6, <1>7

LEMMA ScanTyped ==
  ASSUME NEW W, Marking(W), NEW s \in Seq(W)
  PROVE  ScanJSON(s) \in Seq(W)
<1>0. NoJSON \in Seq(W) BY DEF NoJSON
<1>1. ASSUME NEW u \in Seq(W) PROVE Extent(u) \in Seq(W)
  <2>1. PICK c : c = Walk(u).complete OBVIOUS
  <2>2. c \in 0 .. Len(u) BY <2>1, WalkTyped
  <2>3. SubSeq(u, 1, c) \in Seq(W) BY <2>2, PartTyped
  <2>4. PICK v : v = RepairTruncated(u) OBVIOUS
  <2>5. v \in Seq(W) BY <2>4, RepairTyped
  <2>6. IfValid(v) = v \/ IfValid(v) = NoJSON BY DEF IfValid
  <2>7. Extent(u) = SubSeq(u, 1, c) \/ Extent(u) = IfValid(v) BY <2>1, <2>4 DEF Extent
  <2> QED BY <1>0, <2>3, <2>5, <2>6, <2>7
<1>2. PICK open : open = Positions(s, "{") \cup Positions(s, "[") OBVIOUS
<1>3. CASE open = {}
  <2>1. ScanJSON(s) = NoJSON BY <1>2, <1>3 DEF ScanJSON
  <2> QED BY <1>0, <2>1
<1>4. CASE open # {}
  <2>1. Len(s) \in Nat /\ open \in SUBSET (1 .. Len(s))
    <3>1. Positions(s, "{") \in SUBSET (1 .. Len(s)) /\ Positions(s, "[") \in SUBSET (1 .. Len(s)) BY PlacesTyped
    <3>2. open \in SUBSET (1 .. Len(s)) BY <1>2, <3>1, Zenon
    <3>3. Len(s) \in Nat OBVIOUS
    <3> QED BY <3>2, <3>3
  <2>2. PICK i \in 1 .. Len(s) : i = FirstOf(open) BY <1>4, <2>1, PlacesFound
  <2>3. i \in Nat /\ i >= 1 /\ Len(s) \in Int BY <2>1
  <2>4. SubSeq(s, i, Len(s)) \in Seq(W) BY <2>3, PartTyped
  <2>5. ScanJSON(s) = Extent(SubSeq(s, i, Len(s))) BY <1>2, <1>4, <2>2 DEF ScanJSON, From
  <2> QED BY <1>1, <2>4, <2>5
<1> QED BY <1>3, <1>4

\* What is found of a text is made of its words, and of marks.
LEMMA ExtractTyped ==
  ASSUME NEW W, Marking(W), NEW text \in Seq(W)
  PROVE  ExtractJSON(text) \in Seq(W)
<1>1. ASSUME NEW s \in Seq(W), NEW i \in 1 .. Len(s) PROVE From(s, i + 1) \in Seq(W)
  <2>1. i + 1 \in Nat /\ i + 1 >= 1 /\ Len(s) \in Int OBVIOUS
  <2>2. SubSeq(s, i + 1, Len(s)) \in Seq(W) BY <2>1, PartTyped
  <2> QED BY <2>2 DEF From
<1>2. AfterThoughts(text) \in Seq(W)
  <2>1. PICK ends : ends = Positions(text, ThoughtEnd) OBVIOUS
  <2>2. CASE ends = {}
    <3>1. AfterThoughts(text) = text BY <2>1, <2>2 DEF AfterThoughts
    <3> QED BY <3>1
  <2>3. CASE ends # {}
    <3>1. LastOf(ends) \in 1 .. Len(text) BY <2>1, <2>3, PlacesTyped
    <3>2. AfterThoughts(text) = From(text, LastOf(ends) + 1) BY <2>1, <2>3 DEF AfterThoughts
    <3> QED BY <1>1, <3>1, <3>2
  <2> QED BY <2>2, <2>3
<1>3. ASSUME NEW s \in Seq(W), Positions(s, Fence) # {} PROVE FencedBlock(s) \in Seq(W)
  <2>1. PICK rest : rest = From(s, FirstOf(Positions(s, Fence)) + 1) OBVIOUS
  <2>2. FirstOf(Positions(s, Fence)) \in 1 .. Len(s) BY <1>3, PlacesTyped
  <2>3. rest \in Seq(W) BY <1>1, <2>1, <2>2
  <2>4. PICK ends : ends = Positions(rest, Fence) OBVIOUS
  <2>5. CASE ends = {}
    <3>1. FencedBlock(s) = rest BY <2>1, <2>4, <2>5 DEF FencedBlock
    <3> QED BY <2>3, <3>1
  <2>6. CASE ends # {}
    <3>1. FirstOf(ends) \in 1 .. Len(rest) BY <2>3, <2>4, <2>6, PlacesTyped
    <3>2. PICK k : k = FirstOf(ends) - 1 OBVIOUS
    <3>3. Len(rest) \in Nat BY <2>3
    <3>4. k \in Int /\ k <= Len(rest) BY <3>1, <3>2, <3>3
    <3>5. SubSeq(rest, 1, k) \in Seq(W) BY <2>3, <3>4, PartTyped
    <3>6. FencedBlock(s) = SubSeq(rest, 1, k) BY <2>1, <2>4, <2>6, <3>2 DEF FencedBlock
    <3> QED BY <3>5, <3>6
  <2> QED BY <2>5, <2>6
<1>4. PICK s \in Seq(W) : s = AfterThoughts(text) BY <1>2
<1>5. PICK fenced : fenced = (IF Positions(s, Fence) = {} THEN NoJSON ELSE ScanJSON(FencedBlock(s))) OBVIOUS
<1>6. fenced # NoJSON => fenced \in Seq(W) BY <1>3, <1>5, ScanTyped
<1>7. ScanJSON(s) \in Seq(W) BY ScanTyped
<1>8. ExtractJSON(text) = IF fenced # NoJSON THEN fenced ELSE ScanJSON(s)
  BY <1>4, <1>5 DEF ExtractJSON, FencedOrNot
<1> QED BY <1>6, <1>7, <1>8

\* The flags of what is read of a text are counted.
LEMMA ReadIsCounted ==
  ASSUME NEW W, Marking(W), NEW text \in Seq(W)
  PROVE  /\ \A q \in DOMAIN ParseBatch(text).replies : ParseBatch(text).replies[q].flags \in Nat
         /\ ParseSingle(text) # NoReply => ParseSingle(text).flags \in Nat
<1>1. PICK s \in Seq(W) : s = ExtractJSON(text) BY ExtractTyped
<1>2. PICK p \in PState(W) : p = Parse(s)
  <2>1. Wordy(W) BY DEF Wordy, Marking
  <2> QED BY <2>1, ParseTyped
<1>3. PICK objects \in Seq(Obj(W)) : objects = p.objects BY ParseParts
<1>4. ASSUME NEW i PROVE ToResult(objects, i).flags \in Nat
  <2>1. PICK o : o = objects[i] OBVIOUS
  <2>2. PICK flags : flags = {k \in DOMAIN objects : objects[k].in = i /\ objects[k].key = "flags:"
                                                   /\ FieldOf(objects[k], "kind:") # ""}
    OBVIOUS
  <2>3. PICK n \in Nat : n = Len(objects) OBVIOUS
  <2>4. IsFiniteSet(1 .. n) BY UpToN
  <2>5. flags \subseteq 1 .. n
    <3>1. DOMAIN objects = 1 .. n BY <2>3
    <3>2. flags \subseteq DOMAIN objects BY <2>2, Zenon
    <3> QED BY <3>1, <3>2, Zenon
  <2>6. IsFiniteSet(flags) BY <2>4, <2>5, FS_Subset
  <2>7. Cardinality(flags) \in Nat BY <2>6, FS_CardinalityType
  <2>8. PICK a, b, x, c : /\ a = FlexNumber(FieldOf(o, "risk_score:"))
                          /\ b = (FlexNumber(FieldOf(o, "confidence:")) >= LowConfidence)
                          /\ x = (FieldOf(o, "assessor_feedback:") # "")
                          /\ c = NormalizeEnum(FieldOf(o, "completeness:"))
    OBVIOUS
  <2>9. PICK f : f = Cardinality(flags) OBVIOUS
  <2>10. PICK r : r = [score |-> a, sure |-> b, draft |-> x, flags |-> f, completeness |-> c] OBVIOUS
  <2>11. ToResult(objects, i) = NormalizeResult(r)
    BY <2>1, <2>2, <2>8, <2>9, <2>10, Zenon DEF ToResult
  <2>12. PICK y, d : NormalizeResult(r) = [r EXCEPT !.score = y, !.completeness = d] BY DEF NormalizeResult
  <2>13. NormalizeResult(r).flags = f BY <2>10, <2>12
  <2> QED BY <2>7, <2>9, <2>11, <2>13
<1>5. ASSUME NEW listed PROVE \A q \in DOMAIN Collect(objects, listed).replies : Collect(objects, listed).replies[q].flags \in Nat
  <2>1. DOMAIN NoResults.replies = {} BY DEF NoResults
  <2>2. PICK D : D = {FieldOf(objects[i], "question_id:") : i \in {k \in listed : HasId(objects[k])}} OBVIOUS
  <2>3. PICK f : f = [q \in D |-> ToResult(objects, ResultFor(objects, listed, q))] OBVIOUS
  <2>4. \A q \in DOMAIN f : f[q].flags \in Nat BY <1>4, <2>3
  <2>5. PICK x : x = [read |-> TRUE, replies |-> f] OBVIOUS
  <2>6. Collect(objects, listed) = NoResults \/ Collect(objects, listed) = x
    BY <2>2, <2>3, <2>5, Zenon DEF Collect
  <2>7. x.replies = f BY <2>5
  <2> QED BY <2>1, <2>4, <2>6, <2>7
<1>6. ParseBatch(text) = AsBatch(s, p) /\ ParseSingle(text) = AsSingle(s, p)
  BY <1>1, <1>2 DEF ParseBatch, ReadBatch, ParseSingle, ReadSingle
<1>7. AsBatch(s, p) = NoResults \/ AsBatch(s, p) = Collect(objects, Elements(s, objects))
  BY <1>3 DEF AsBatch
<1>8. AsSingle(s, p) = NoReply \/ AsSingle(s, p) = ToResult(objects, 1) BY <1>3 DEF AsSingle
<1>9. DOMAIN NoResults.replies = {} BY DEF NoResults
<1> QED BY <1>4, <1>5, <1>6, <1>7, <1>8, <1>9

(***************************************************************************)
(* What models write                                                       *)
(***************************************************************************)
\* The words of what models write.
Spoken == {"", "{", "[", "}", "]", ",", Quote, Backslash, Fence, ThoughtEnd, "text", "1", "vague"} \cup Keys
Words  == Spoken \cup Ids \cup {say.score : say \in Says} \cup {say.completeness : say \in Says}
          \cup {say.confidence : say \in Says}

Uttered == [id : Ids, say : Says]
Shaped  == {"results", "array", "object"}

LEMMA OfWords ==
  ASSUME NEW X
  PROVE  /\ <<>> \in Seq(X)
         /\ \A a \in X : <<a>> \in Seq(X)
         /\ \A a, b \in X : <<a, b>> \in Seq(X)
         /\ \A a, b, c \in X : <<a, b, c>> \in Seq(X)
         /\ \A a, b, c, d \in X : <<a, b, c, d>> \in Seq(X)
         /\ \A a, b, c, d, e \in X : <<a, b, c, d, e>> \in Seq(X)
         /\ \A a, b, c, d, e, f \in X : <<a, b, c, d, e, f>> \in Seq(X)
         /\ \A a, b, c, d, e, f, g \in X : <<a, b, c, d, e, f, g>> \in Seq(X)
         /\ \A a, b, c, d, e, f, g, h, i \in X : <<a, b, c, d, e, f, g, h, i>> \in Seq(X)
OBVIOUS

LEMMA SpokenWords ==
  /\ Marking(Words) /\ "" \in Words /\ "{" \in Words /\ "[" \in Words /\ "}" \in Words /\ "]" \in Words
  /\ "," \in Words /\ Quote \in Words /\ Backslash \in Words /\ Fence \in Words /\ ThoughtEnd \in Words
  /\ "text" \in Words /\ "1" \in Words /\ "vague" \in Words /\ Keys \subseteq Words
<1>1. /\ "" \in Spoken /\ "{" \in Spoken /\ "[" \in Spoken /\ "}" \in Spoken /\ "]" \in Spoken
      /\ "," \in Spoken /\ Quote \in Spoken /\ Backslash \in Spoken /\ Fence \in Spoken /\ ThoughtEnd \in Spoken
      /\ "text" \in Spoken /\ "1" \in Spoken /\ "vague" \in Spoken /\ Keys \subseteq Spoken
  BY Zenon DEF Spoken
<1>2. Spoken \subseteq Words BY Zenon DEF Words
<1>3. Marking(Words) BY <1>1, <1>2, Zenon DEF Marking, Marks
<1> QED BY <1>1, <1>2, <1>3, Zenon

LEMMA ItemTyped ==
  ASSUME NEW id \in Ids, NEW say \in Says
  PROVE  Item(id, say) \in Seq(Words)
<1>1. PICK X : X = Words OBVIOUS
<1>2. PICK a, b, c, d, e, q, s, t, v, k1, k2, k3, k4, k5, k6, k7, x, y, z :
        /\ a = "{" /\ b = "}" /\ c = "[" /\ d = "]" /\ e = "," /\ q = Quote /\ s = Backslash
        /\ t = "text" /\ v = "vague" /\ k1 = "question_id:" /\ k2 = "risk_score:" /\ k3 = "completeness:"
        /\ k4 = "flags:" /\ k5 = "kind:" /\ k6 = "assessor_feedback:" /\ k7 = "confidence:"
        /\ x = say.score /\ y = say.completeness /\ z = say.confidence
  OBVIOUS
<1>3. /\ k1 \in Keys /\ k2 \in Keys /\ k3 \in Keys /\ k4 \in Keys /\ k5 \in Keys /\ k6 \in Keys /\ k7 \in Keys
  BY <1>2, Zenon DEF Keys, FieldKeys
<1>4. /\ a \in X /\ b \in X /\ c \in X /\ d \in X /\ e \in X /\ q \in X /\ s \in X /\ t \in X /\ v \in X
      /\ k1 \in X /\ k2 \in X /\ k3 \in X /\ k4 \in X /\ k5 \in X /\ k6 \in X /\ k7 \in X
  BY <1>1, <1>2, <1>3, SpokenWords, Zenon
<1>5. id \in X /\ x \in X /\ y \in X /\ z \in X BY <1>1, <1>2, Zenon DEF Words
<1>6. PICK p1, p2, p3, p4, p5, p6 :
        /\ p1 = <<a, k1, q, id, q, e, k2, x, e>> /\ p2 = <<k3, q, y, q, e, k4, c>>
        /\ p3 = (IF say.flagged THEN <<a, k5, q, v, q, b>> ELSE <<>>) /\ p4 = <<d, e, k6, q>>
        /\ p5 = (IF say.feedback THEN <<b, s, q, t>> ELSE <<>>) /\ p6 = <<q, e, k7, z, b>>
  OBVIOUS
<1>7. p1 \in Seq(X) BY <1>4, <1>5, <1>6, OfWords, Zenon
<1>8. p2 \in Seq(X) BY <1>4, <1>5, <1>6, OfWords, Zenon
<1>9. p3 \in Seq(X)
  <2>1. <<a, k5, q, v, q, b>> \in Seq(X) /\ <<>> \in Seq(X) BY <1>4, OfWords, Zenon
  <2> QED BY <1>6, <2>1, Zenon
<1>10. p4 \in Seq(X) BY <1>4, <1>6, OfWords, Zenon
<1>11. p5 \in Seq(X)
  <2>1. <<b, s, q, t>> \in Seq(X) /\ <<>> \in Seq(X) BY <1>4, OfWords, Zenon
  <2> QED BY <1>6, <2>1, Zenon
<1>12. p6 \in Seq(X) BY <1>4, <1>5, <1>6, OfWords, Zenon
<1>13. Item(id, say) = p1 \o p2 \o p3 \o p4 \o p5 \o p6 BY <1>2, <1>6, Zenon DEF Item
<1>14. p1 \o p2 \in Seq(X) BY <1>7, <1>8, ConcatProperties
<1>15. p1 \o p2 \o p3 \in Seq(X) BY <1>9, <1>14, ConcatProperties
<1>16. p1 \o p2 \o p3 \o p4 \in Seq(X) BY <1>10, <1>15, ConcatProperties
<1>17. p1 \o p2 \o p3 \o p4 \o p5 \in Seq(X) BY <1>11, <1>16, ConcatProperties
<1>18. p1 \o p2 \o p3 \o p4 \o p5 \o p6 \in Seq(X) BY <1>12, <1>17, ConcatProperties
<1> QED BY <1>1, <1>13, <1>18

\* The items a model lists.
ItemsOf(said, n) == [i \in 1 .. n |-> (IF i = 1 THEN <<>> ELSE <<",">>) \o Item(said[i].id, said[i].say)]

LEMMA ListedTyped ==
  ASSUME NEW said \in Seq(Uttered), NEW n \in 0 .. Len(said)
  PROVE  /\ ItemsOf(said, n) \in Seq(Seq(Words)) /\ Len(ItemsOf(said, n)) = n
         /\ Listed(said, n) = FlattenSeq(ItemsOf(said, n))
         /\ Listed(said, n) \in Seq(Words)
<1>1. PICK X : X = Words OBVIOUS
<1>2. PICK m \in Nat : m = n OBVIOUS
<1>3. PICK comma \in X : comma = "," BY <1>1, SpokenWords, Zenon
<1>4. ASSUME NEW i \in 1 .. m
      PROVE  (IF i = 1 THEN <<>> ELSE <<comma>>) \o Item(said[i].id, said[i].say) \in Seq(X)
  <2>1. said[i] \in Uttered BY <1>2, <1>4
  <2>2. said[i].id \in Ids /\ said[i].say \in Says BY <2>1 DEF Uttered
  <2>3. Item(said[i].id, said[i].say) \in Seq(X) BY <1>1, <2>2, ItemTyped
  <2>4. (IF i = 1 THEN <<>> ELSE <<comma>>) \in Seq(X)
    <3>1. <<>> \in Seq(X) /\ <<comma>> \in Seq(X) BY OfWords, Zenon
    <3> QED BY <3>1, Zenon
  <2> QED BY <2>3, <2>4, ConcatProperties
<1>5. PICK parts : parts = ItemsOf(said, n) OBVIOUS
<1>6. parts = [i \in 1 .. m |-> (IF i = 1 THEN <<>> ELSE <<comma>>) \o Item(said[i].id, said[i].say)]
  BY <1>2, <1>3, <1>5, Zenon DEF ItemsOf
<1>7. PICK Y : Y = Seq(X) OBVIOUS
<1>8. parts \in [1 .. m -> Y] BY <1>4, <1>6, <1>7
<1>9. parts \in Seq(Y) /\ Len(parts) = m BY <1>8, SeqDef
<1>10. Listed(said, n) = FlattenSeq(parts) BY <1>5, Zenon DEF Listed, ItemsOf
<1>11. FlattenSeq(parts) \in Seq(X)
  <2>1. parts \in Seq(Seq(X)) BY <1>7, <1>9
  <2>2. PICK f : Appends(f, X, Len(parts), parts) /\ FlattenSeq(parts) = f[Len(parts)] BY <2>1, Flattening
  <2>3. f \in [0 .. m -> Seq(X)] BY <1>9, <2>2 DEF Appends
  <2> QED BY <1>9, <2>2, <2>3
<1> QED BY <1>1, <1>2, <1>5, <1>7, <1>9, <1>10, <1>11

LEMMA WholeTyped ==
  ASSUME NEW r, r.said \in Seq(Uttered), r.shape \in Shaped
  PROVE  Whole(r) \in Seq(Words)
<1>1. PICK X : X = Words OBVIOUS
<1>2. PICK l1, l2, t1, t2 :
        /\ l1 = (CASE r.wrap = "fenced"  -> <<Fence>>
              [] r.wrap = "thought" -> <<"{", "text", ThoughtEnd>>
              [] r.wrap = "cited"   -> <<"text", "[", "1", "]">>
              [] OTHER              -> <<>>)
        /\ l2 = (CASE r.shape = "results" -> <<"{", "results:", "[">>
                 [] r.shape = "array"   -> <<"[">>
                 [] r.shape = "object"  -> <<>>)
        /\ t1 = (CASE r.shape = "results" -> <<"]", "}">>
              [] r.shape = "array"   -> <<"]">>
              [] r.shape = "object"  -> <<>>)
        /\ t2 = (IF r.wrap = "fenced" THEN <<Fence>> ELSE <<>>)
  OBVIOUS
<1>3. PICK a, b, c, d, f, h, t, k, o :
        /\ a = "{" /\ b = "}" /\ c = "[" /\ d = "]" /\ f = Fence /\ h = ThoughtEnd /\ t = "text"
        /\ k = "results:" /\ o = "1"
  OBVIOUS
<1>4. k \in Keys BY <1>3, Zenon DEF Keys
<1>5. a \in X /\ b \in X /\ c \in X /\ d \in X /\ f \in X /\ h \in X /\ t \in X /\ k \in X /\ o \in X
  BY <1>1, <1>3, <1>4, SpokenWords, Zenon
<1>6. /\ <<f>> \in Seq(X) /\ <<a, t, h>> \in Seq(X) /\ <<t, c, o, d>> \in Seq(X) /\ <<>> \in Seq(X)
      /\ <<a, k, c>> \in Seq(X) /\ <<c>> \in Seq(X) /\ <<d, b>> \in Seq(X) /\ <<d>> \in Seq(X)
  BY <1>5, OfWords, Zenon
<1>7. l1 \in Seq(X)
  <2>1. l1 = CASE r.wrap = "fenced" -> <<f>> [] r.wrap = "thought" -> <<a, t, h>>
               [] r.wrap = "cited" -> <<t, c, o, d>> [] OTHER -> <<>>
    BY <1>2, <1>3, Zenon
  <2>2. PICK A, B, C, u, v, w, z : /\ A = (r.wrap = "fenced") /\ B = (r.wrap = "thought") /\ C = (r.wrap = "cited")
                                   /\ u = <<f>> /\ v = <<a, t, h>> /\ w = <<t, c, o, d>> /\ z = <<>>
    OBVIOUS
  <2>3. l1 = CASE A -> u [] B -> v [] C -> w [] OTHER -> z BY <2>1, <2>2, Zenon
  <2>4. l1 = u \/ l1 = v \/ l1 = w \/ l1 = z BY <2>3
  <2> QED BY <1>6, <2>2, <2>4, Zenon
<1>8. l2 \in Seq(X) /\ t1 \in Seq(X)
  <2>1. CASE r.shape = "results"
    <3>1. l2 = <<a, k, c>> /\ t1 = <<d, b>> BY <1>2, <1>3, <2>1
    <3> QED BY <1>6, <3>1
  <2>2. CASE r.shape = "array"
    <3>1. l2 = <<c>> /\ t1 = <<d>> BY <1>2, <1>3, <2>2
    <3> QED BY <1>6, <3>1
  <2>3. CASE r.shape = "object"
    <3>1. l2 = <<>> /\ t1 = <<>> BY <1>2, <1>3, <2>3
    <3> QED BY <1>6, <3>1
  <2> QED BY <2>1, <2>2, <2>3, Zenon DEF Shaped
<1>9. t2 \in Seq(X)
  <2>1. t2 = <<f>> \/ t2 = <<>> BY <1>2, <1>3, Zenon
  <2> QED BY <1>6, <2>1, Zenon
<1>10. PICK list : list = Listed(r.said, Len(r.said)) OBVIOUS
<1>11. list \in Seq(X)
  <2>1. Len(r.said) \in 0 .. Len(r.said) OBVIOUS
  <2> QED BY <1>1, <1>10, <2>1, ListedTyped
<1>12. Whole(r) = (l1 \o l2) \o list \o (t1 \o t2) BY <1>2, <1>10, Zenon DEF Whole, Lead, Trail
<1>13. l1 \o l2 \in Seq(X) BY <1>7, <1>8, ConcatProperties
<1>14. t1 \o t2 \in Seq(X) BY <1>8, <1>9, ConcatProperties
<1>15. (l1 \o l2) \o list \in Seq(X) BY <1>11, <1>13, ConcatProperties
<1>16. (l1 \o l2) \o list \o (t1 \o t2) \in Seq(X) BY <1>14, <1>15, ConcatProperties
<1> QED BY <1>1, <1>12, <1>16

\* What is said of a question, as it is said alone.
LEMMA SaidAlone ==
  ASSUME NEW r, r.said \in Seq(Uttered), Len(r.said) = 1, r.shape = "object", r.wrap = "plain"
  PROVE  Whole(r) = Item(r.said[1].id, r.said[1].say)
<1>1. PICK X, s : X = Words /\ s = r.said OBVIOUS
<1>2. PICK i : i = Item(s[1].id, s[1].say) OBVIOUS
<1>3. s \in Seq(Uttered) /\ Len(s) = 1 BY <1>1
<1>4. i \in Seq(X)
  <2>0. 1 \in 1 .. Len(s) BY <1>3
  <2>1. s[1] \in Uttered BY <1>3, <2>0, ElementOfSeq
  <2> QED BY <1>1, <1>2, <2>1, ItemTyped DEF Uttered
<1>5. PICK parts : parts = ItemsOf(s, 1) OBVIOUS
<1>6. parts \in Seq(Seq(X)) /\ Len(parts) = 1 /\ Listed(s, 1) = FlattenSeq(parts)
  <2>1. 1 \in 0 .. Len(s) BY <1>3
  <2> QED BY <1>1, <1>3, <1>5, <2>1, ListedTyped
<1>7. <<>> \o i = i /\ i \o <<>> = i BY <1>4, ConcatEmptySeq
<1>8. parts[1] = i
  <2>1. parts[1] = <<>> \o i BY <1>2, <1>5 DEF ItemsOf
  <2> QED BY <1>7, <2>1
<1>9. Listed(s, 1) = i
  <2>1. PICK f : Appends(f, X, Len(parts), parts) /\ FlattenSeq(parts) = f[Len(parts)] BY <1>6, Flattening
  <2>2. f[0] = <<>> /\ \A k \in 1 .. 1 : f[k] = f[k - 1] \o parts[k] BY <1>6, <2>1 DEF Appends
  <2>3. 1 \in 1 .. 1 /\ 1 - 1 = 0 OBVIOUS
  <2>4. f[1] = f[0] \o parts[1] BY <2>2, <2>3
  <2> QED BY <1>6, <1>7, <1>8, <2>1, <2>2, <2>4
<1>10. Lead(r) = <<>> \o <<>> /\ Trail(r) = <<>> \o <<>> BY DEF Lead, Trail
<1>11. <<>> \o <<>> = <<>>
  <2>1. <<>> \in Seq(X) OBVIOUS
  <2> QED BY <2>1, ConcatEmptySeq
<1>12. Whole(r) = <<>> \o i \o <<>> BY <1>1, <1>3, <1>9, <1>10, <1>11 DEF Whole
<1> QED BY <1>1, <1>2, <1>7, <1>12

\* A reply as it is written down: all of it, or its beginning.
Written(r) == /\ r.said \in Seq(Uttered) /\ r.shape \in Shaped
              /\ r.cut \in Nat /\ r.cut <= Len(Whole(r))

LEMMA TextTyped ==
  ASSUME NEW r, Written(r)
  PROVE  Text(r) \in Seq(Words)
<1>1. Whole(r) \in Seq(Words) BY WholeTyped DEF Written
<1>2. PICK w \in Seq(Words), k \in Nat : w = Whole(r) /\ k = r.cut /\ k <= Len(w) BY <1>1 DEF Written
<1>3. SubSeq(w, 1, k) \in Seq(Words) BY <1>2, PartTyped
<1>4. Text(r) = w \/ Text(r) = SubSeq(w, 1, k) BY <1>2 DEF Text
<1> QED BY <1>3, <1>4

\* Reply(...) as it is.
LEMMA ReplyWritten ==
  ASSUME NEW said \in Seq(Uttered), NEW shape \in Shaped, NEW wrap
  PROVE  /\ Written(Reply(said, shape, wrap))
         /\ \A n \in 1 .. (Len(Whole(Reply(said, shape, wrap))) - 1) :
              Written([Reply(said, shape, wrap) EXCEPT !.cut = n])
<1>1. PICK r : r = Reply(said, shape, wrap) OBVIOUS
<1>2. r = [said |-> said, shape |-> shape, wrap |-> wrap, cut |-> 0] BY <1>1 DEF Reply
<1>3. r.said = said /\ r.shape = shape /\ r.cut = 0 BY <1>2
<1>4. Whole(r) \in Seq(Words) BY <1>3, WholeTyped
<1>5. PICK l \in Nat : l = Len(Whole(r)) BY <1>4
<1>6. Written(r) BY <1>3, <1>5 DEF Written
<1>7. ASSUME NEW n \in 1 .. (l - 1) PROVE Written([r EXCEPT !.cut = n])
  <2>1. PICK c : c = [r EXCEPT !.cut = n] OBVIOUS
  <2>2. c.said = said /\ c.shape = shape /\ c.wrap = r.wrap /\ c.cut = n BY <1>2, <2>1
  <2>3. Whole(c) = Whole(r) BY <1>3, <2>2 DEF Whole, Lead, Trail
  <2>4. n \in Nat /\ n <= l BY <1>5
  <2> QED BY <1>5, <2>1, <2>2, <2>3, <2>4 DEF Written
<1> QED BY <1>1, <1>5, <1>6, <1>7

LEMMA BatchWritten ==
  ASSUME NEW c \in Seq(Question), NEW r \in BatchReplies(c)
  PROVE  Written(r)
<1>0. PICK m \in Nat : m = Len(c) /\ DOMAIN c = 1 .. m OBVIOUS
<1> DEFINE about(f) == [i \in DOMAIN c |-> [id |-> c[i].id, say |-> f[i]]]
<1>1. ASSUME NEW f \in [DOMAIN c -> Says] PROVE about(f) \in Seq(Uttered)
  <2>1. \A i \in 1 .. m : about(f)[i] \in Uttered
    <3> TAKE i \in 1 .. m
    <3>1. c[i] \in Question BY <1>0
    <3>2. c[i].id \in Ids BY <3>1 DEF Question
    <3>3. f[i] \in Says BY <1>0
    <3>4. about(f)[i] = [id |-> c[i].id, say |-> f[i]] BY <1>0
    <3> QED BY <3>2, <3>3, <3>4 DEF Uttered
  <2>2. about(f) \in [1 .. m -> Uttered]
    <3>1. DOMAIN about(f) = 1 .. m /\ about(f) = [i \in 1 .. m |-> about(f)[i]] BY <1>0
    <3> HIDE DEF about
    <3> QED BY <2>1, <3>1
  <2> QED BY <2>2, SeqDef
<1>2. PICK fu : fu = [i \in DOMAIN c |-> Usual] OBVIOUS
<1>3. fu \in [DOMAIN c -> Says] BY <1>2, UsualAssumption
<1>4. PICK usual : usual = about(fu) OBVIOUS
<1>5. usual \in Seq(Uttered) BY <1>1, <1>3, <1>4
<1>6. Front(usual) \in Seq(Uttered)
  <2>1. PICK n \in Nat : n = Len(usual) BY <1>5
  <2>2. n - 1 \in Int /\ n - 1 <= n BY <2>1
  <2>3. SubSeq(usual, 1, n - 1) \in Seq(Uttered) BY <1>5, <2>1, <2>2, PartTyped
  <2> QED BY <2>1, <2>3 DEF Front
<1>7. "results" \in Shaped /\ "array" \in Shaped BY DEF Shaped
<1>8. PICK plain : plain = Reply(usual, "results", "plain") OBVIOUS
<1>9. \/ \E f \in [DOMAIN c -> Says] : r = Reply(about(f), "results", "plain")
      \/ r = Reply(Front(usual), "results", "plain")
      \/ r = Reply(usual, "array", "plain")
      \/ \E wrap : r = Reply(usual, "results", wrap)
      \/ \E n \in 1 .. (Len(Whole(plain)) - 1) : r = [plain EXCEPT !.cut = n]
  <2> DEFINE v == about([i \in DOMAIN c |-> Usual])
             p == Reply(v, "results", "plain")
  <2>1. BatchReplies(c) =
          {Reply(about(f), "results", "plain") : f \in [DOMAIN c -> Says]}
          \cup {Reply(Front(v), "results", "plain"), Reply(v, "array", "plain")}
          \cup {Reply(v, "results", wrap) : wrap \in {"fenced", "thought", "cited"}}
          \cup {[p EXCEPT !.cut = n] : n \in 1 .. (Len(Whole(p)) - 1)}
    BY DEF BatchReplies
  <2>2. v = usual BY <1>2, <1>4
  <2> HIDE DEF v
  <2>3. p = plain BY <1>8, <2>2
  <2> HIDE DEF p, about
  <2>4. \/ r \in {Reply(about(f), "results", "plain") : f \in [DOMAIN c -> Says]}
        \/ r \in {Reply(Front(v), "results", "plain"), Reply(v, "array", "plain")}
        \/ r \in {Reply(v, "results", wrap) : wrap \in {"fenced", "thought", "cited"}}
        \/ r \in {[p EXCEPT !.cut = n] : n \in 1 .. (Len(Whole(p)) - 1)}
    BY <2>1, Zenon
  <2> QED BY <2>2, <2>3, <2>4, Zenon
<1> HIDE DEF about
<1>10. CASE \E f \in [DOMAIN c -> Says] : r = Reply(about(f), "results", "plain")
  BY <1>1, <1>7, <1>10, ReplyWritten
<1>11. CASE r = Reply(Front(usual), "results", "plain") BY <1>6, <1>7, <1>11, ReplyWritten
<1>12. CASE r = Reply(usual, "array", "plain") BY <1>5, <1>7, <1>12, ReplyWritten
<1>13. CASE \E wrap : r = Reply(usual, "results", wrap) BY <1>5, <1>7, <1>13, ReplyWritten
<1>14. CASE \E n \in 1 .. (Len(Whole(plain)) - 1) : r = [plain EXCEPT !.cut = n]
  BY <1>5, <1>7, <1>8, <1>14, ReplyWritten
<1> QED BY <1>9, <1>10, <1>11, <1>12, <1>13, <1>14, Zenon

LEMMA SingleWritten ==
  ASSUME NEW q \in Ids, NEW r \in SingleReplies(q)
  PROVE  Written(r)
<1>1. ASSUME NEW say \in Says
      PROVE  <<[id |-> q, say |-> say]>> \in Seq(Uttered) /\ Len(<<[id |-> q, say |-> say]>>) = 1
             /\ <<[id |-> q, say |-> say]>>[1] = [id |-> q, say |-> say]
  <2>1. PICK x : x = [id |-> q, say |-> say] OBVIOUS
  <2>2. x \in Uttered BY <2>1 DEF Uttered
  <2>3. <<x>> \in Seq(Uttered) /\ Len(<<x>>) = 1 /\ <<x>>[1] = x BY <2>2
  <2> QED BY <2>1, <2>3
<1>2. PICK usual : usual = <<[id |-> q, say |-> Usual]>> OBVIOUS
<1>3. usual \in Seq(Uttered) /\ Len(usual) = 1 /\ usual[1] = [id |-> q, say |-> Usual]
  BY <1>1, <1>2, UsualAssumption
<1>4. "results" \in Shaped /\ "array" \in Shaped /\ "object" \in Shaped BY DEF Shaped
<1>5. PICK plain : plain = Reply(usual, "object", "plain") OBVIOUS
<1>6. \/ \E say \in Says : r = Reply(<<[id |-> q, say |-> say]>>, "object", "plain")
      \/ \E shape \in {"results", "array"} : r = Reply(usual, shape, "plain")
      \/ r = Reply(usual, "object", "fenced")
      \/ \E n \in 1 .. (Len(Item(q, Usual)) - 1) : r = [plain EXCEPT !.cut = n]
  <2>1. PICK B : B = SingleReplies(q) OBVIOUS
  <2>2. B = {Reply(<<[id |-> q, say |-> say]>>, "object", "plain") : say \in Says}
            \cup {Reply(usual, shape, "plain") : shape \in {"results", "array"}}
            \cup {Reply(usual, "object", "fenced")}
            \cup {[plain EXCEPT !.cut = n] : n \in 1 .. (Len(Item(q, Usual)) - 1)}
    BY <1>2, <1>5, <2>1, Zenon DEF SingleReplies
  <2> QED BY <2>1, <2>2, Zenon
<1>7. CASE \E say \in Says : r = Reply(<<[id |-> q, say |-> say]>>, "object", "plain")
  <2>1. PICK say \in Says : r = Reply(<<[id |-> q, say |-> say]>>, "object", "plain") BY <1>7
  <2>2. PICK said : said = <<[id |-> q, say |-> say]>> OBVIOUS
  <2>3. said \in Seq(Uttered) BY <1>1, <2>2
  <2>4. Written(Reply(said, "object", "plain")) BY <1>4, <2>3, ReplyWritten
  <2> QED BY <2>1, <2>2, <2>4
<1>8. CASE \E shape \in {"results", "array"} : r = Reply(usual, shape, "plain")
  BY <1>3, <1>4, <1>8, ReplyWritten
<1>9. CASE r = Reply(usual, "object", "fenced") BY <1>3, <1>4, <1>9, ReplyWritten
<1>10. CASE \E n \in 1 .. (Len(Item(q, Usual)) - 1) : r = [plain EXCEPT !.cut = n]
  <2>1. Whole(plain) = Item(q, Usual)
    <3>1. plain.said = usual /\ plain.shape = "object" /\ plain.wrap = "plain" BY <1>5 DEF Reply
    <3>2. Whole(plain) = Item(plain.said[1].id, plain.said[1].say) BY <1>3, <3>1, SaidAlone
    <3>3. usual[1].id = q /\ usual[1].say = Usual BY <1>3
    <3> QED BY <3>1, <3>2, <3>3
  <2> QED BY <1>3, <1>4, <1>5, <1>10, <2>1, ReplyWritten
<1> QED BY <1>6, <1>7, <1>8, <1>9, <1>10, Zenon

\* The flags of a result that is read are counted.
LEMMA FlagsCounted == FlagsAreCounted
<1>0. Marking(Words) BY SpokenWords
<1>1. ASSUME NEW c \in AllChunks, NEW r \in BatchTalk[c], NEW q \in DOMAIN BatchRead[r].taken.replies
      PROVE  BatchRead[r].taken.replies[q].flags \in Nat
  <2>1. c \in Seq(Question)
    <3>1. PICK s \in Sheets : c \in ToSet(ChunksOf[s]) BY Zenon DEF AllChunks
    <3>2. PICK cs : cs = ChunksOf[s] OBVIOUS
    <3>3. cs \in Seq(Seq(Question)) BY <3>2, SheetsAreCut
    <3>4. PICK i \in DOMAIN cs : c = cs[i] BY <3>1, <3>2 DEF ToSet
    <3> QED BY <3>3, <3>4
  <2>2. r \in BatchReplies(c) BY DEF BatchTalk
  <2>3. Text(r) \in Seq(Words) BY <2>1, <2>2, BatchWritten, TextTyped
  <2>4. BatchRead[r].taken = ParseBatch(Text(r))
    <3>1. r \in UNION {BatchTalk[d] : d \in AllChunks} OBVIOUS
    <3>2. BatchRead[r] = [taken |-> ParseBatch(Text(r)), full |-> SaidInFull(r)] BY <3>1 DEF BatchRead
    <3> QED BY <3>2
  <2> QED BY <1>0, <2>3, <2>4, ReadIsCounted
<1>2. ASSUME NEW q \in Ids, NEW r \in SingleTalk[q], SingleRead[r] # NoReply PROVE SingleRead[r].flags \in Nat
  <2>1. r \in SingleReplies(q) BY DEF SingleTalk
  <2>2. Text(r) \in Seq(Words) BY <2>1, SingleWritten, TextTyped
  <2>3. SingleRead[r] = ParseSingle(Text(r))
    <3>1. r \in UNION {SingleTalk[u] : u \in Ids} OBVIOUS
    <3> QED BY <3>1 DEF SingleRead
  <2> QED BY <1>0, <1>2, <2>2, <2>3, ReadIsCounted
<1> QED BY <1>1, <1>2 DEF FlagsAreCounted

(***************************************************************************)
(* The inductive invariant                                                 *)
(***************************************************************************)
\* A call under way, or none.
Calls == [kind : {"none", "batch", "single"}, at : Nat, round : {1, 2}, attempt : 0 .. MaxRetries, json : BOOLEAN]

Shapes ==
  /\ sheet \in Sheets /\ provider \in Providers /\ expired \in BOOLEAN /\ unlucky \in BOOLEAN
  /\ status \in {"running", "failed", "reviewed"}
  /\ chunk \in 1 .. (Len(ChunkList) + 1)
  /\ status = "running" => chunk \in DOMAIN ChunkList
  /\ progress \in [done : Nat, failed : Nat] /\ requests \in Nat
  /\ DOMAIN stored = SheetIds /\ \A q \in SheetIds : IsReply(stored[q])
  /\ DOMAIN heard = SheetIds

\* The replies are those of the current chunk; a single call is about a question the
\* batch left open, and none has been made for those after it.
Asking == status = "running" =>
  /\ call \in Calls
  /\ DOMAIN batch = IdsOf(Current) /\ DOMAIN singles = IdsOf(Current)
  /\ \A q \in IdsOf(Current) : IsReply(batch[q]) /\ IsReply(singles[q])
  /\ call.kind = "none" => call = NoCall
  /\ call.kind = "batch" => batch = Silent(Current) /\ singles = Silent(Current)
  /\ call.kind = "single" =>
       /\ call.at \in DOMAIN Current /\ call.round = 1 /\ NeedsFollowUp(batch[Current[call.at].id])
       /\ \A k \in DOMAIN Current : k >= call.at => singles[Current[k].id] = NoReply

\* What the calls made so far may have cost.
Spent == CASE call.kind = "batch"  -> (MaxRetries + 1) * (call.round - 1) + call.attempt
           [] call.kind = "single" -> (MaxRetries + 1) * (1 + call.at) + call.attempt
           [] OTHER                -> (MaxRetries + 1) * (2 + Len(Current))

Budget == status = "running" => requests <= Spent

Accounted ==
  /\ progress.done = Cardinality(Stored)
  /\ Stored \subseteq Past
  /\ progress.done + progress.failed = Cardinality(Past)
  /\ status = "reviewed" => chunk = Len(ChunkList) + 1 /\ Stored # {}

\* What the chunk's calls have made of a question so far.
Answer(q) == Settle(batch[q], singles[q])
Answered  == {q \in IdsOf(Current) : Answer(q) # NoReply}

\* What was said of a question in full makes its answer, and its answer was said.
Kept == status = "running" =>
  \A q \in IdsOf(Current) :
    /\ heard[q] # {} => Answer(q) # NoReply
    /\ Answer(q) # NoReply => q \in vague \/ \E x \in heard[q] : Answer(q).score = ClampRiskScore(x)

\* As long as nothing else goes wrong, a refusal is an attempt in JSON mode, the first.
Lucky == provider.rejects /\ ~unlucky =>
  /\ ~expired /\ progress.failed = 0 /\ status # "failed"
  /\ status = "running" =>
       /\ call.round = 1 /\ (call.json => call.attempt = 0)
       /\ call.kind # "batch" => \A q \in IdsOf(Current) : batch[q] # NoReply

\* The chunk under review.
LEMMA Here ==
  ASSUME Shapes, status = "running"
  PROVE  /\ Current \in Seq(Question) /\ Len(Current) \in Nat \ {0} /\ DOMAIN Current = 1 .. Len(Current)
         /\ DistinctIds(Current) /\ IdsOf(Current) \subseteq SheetIds
         /\ IsFiniteSet(IdsOf(Current)) /\ Cardinality(IdsOf(Current)) = Len(Current)
         /\ \A i \in DOMAIN Current : Current[i].id \in IdsOf(Current)
         /\ \A q \in IdsOf(Current) : \E i \in DOMAIN Current : q = Current[i].id
         /\ Current \in AllChunks
<1>1. sheet \in Sheets /\ chunk \in DOMAIN ChunkList BY DEF Shapes
<1>2. PICK cs : cs = ChunksOf[sheet] OBVIOUS
<1>3. cs \in Seq(Seq(Question)) /\ Cuts(IdsOf(sheet), cs) BY <1>1, <1>2, SheetsAreCut
<1>4. chunk \in DOMAIN cs /\ Current = cs[chunk] BY <1>1, <1>2 DEF Current, ChunkList
<1>5. SheetIds = IdsOf(sheet) BY DEF SheetIds, IdsOf
<1>6. /\ cs[chunk] \in Seq(Question) /\ Len(cs[chunk]) \in Nat \ {0}
      /\ DistinctIds(cs[chunk]) /\ IdsOf(cs[chunk]) \subseteq IdsOf(sheet)
      /\ IsFiniteSet(IdsOf(cs[chunk])) /\ Cardinality(IdsOf(cs[chunk])) = Len(cs[chunk])
  BY <1>3, <1>4 DEF Cuts
<1>7. DOMAIN cs[chunk] = 1 .. Len(cs[chunk]) BY <1>6
<1>8. /\ \A i \in DOMAIN Current : Current[i].id \in IdsOf(Current)
      /\ \A q \in IdsOf(Current) : \E i \in DOMAIN Current : q = Current[i].id
  BY DEF IdsOf
<1>9. Current \in AllChunks
  <2>1. Current \in ToSet(ChunksOf[sheet]) BY <1>2, <1>4 DEF ToSet
  <2> QED BY <1>1, <2>1 DEF AllChunks
<1> QED BY <1>4, <1>5, <1>6, <1>7, <1>8, <1>9

\* Where no new chunk begins, all that depends on it stays.
LEMMA SameChunk ==
  ASSUME sheet' = sheet, chunk' = chunk
  PROVE  /\ ChunkList' = ChunkList /\ Current' = Current /\ SheetIds' = SheetIds /\ Past' = Past
         /\ IdsOf(Current)' = IdsOf(Current) /\ Silent(Current)' = Silent(Current)
BY DEF ChunkList, Current, SheetIds, Past, IdsOf, Silent

\* The next call is about the next question the batch left open.
LEMMA NextCall ==
  ASSUME Shapes, status = "running", NEW replies, NEW i \in Nat, GoOn(replies, i)
  PROVE  \/ call' = NoCall
         \/ \E k \in DOMAIN Current : /\ k > i /\ NeedsFollowUp(replies[Current[k].id])
                                      /\ call' = Call("single", k)
<1> DEFINE open == OpenAfter(replies, i)
<1>1. open \in SUBSET DOMAIN Current /\ \A k \in open : k > i /\ NeedsFollowUp(replies[Current[k].id])
  BY DEF OpenAfter
<1>2. call' = IF open = {} THEN NoCall ELSE Call("single", FirstOf(open)) BY DEF GoOn
<1> HIDE DEF open
<1>3. CASE open = {} BY <1>2, <1>3
<1>4. CASE open # {}
  <2>1. open \in SUBSET Nat BY <1>1, Here
  <2>2. \E k \in open : \A j \in open : k <= j BY <1>4, <2>1, LeastNatural
  <2>3. PICK k : k = FirstOf(open) OBVIOUS
  <2>4. k \in open BY <2>2, <2>3 DEF FirstOf
  <2> QED BY <1>1, <1>2, <1>4, <2>3, <2>4
<1> QED BY <1>3, <1>4

LEMMA CallFields ==
  ASSUME NEW kind, NEW at
  PROVE  /\ Call(kind, at).kind = kind /\ Call(kind, at).at = at /\ Call(kind, at).round = 1
         /\ Call(kind, at).attempt = 0 /\ Call(kind, at).json = TRUE
         /\ kind \in {"none", "batch", "single"} /\ at \in Nat => Call(kind, at) \in Calls
<1>1. 0 \in 0 .. MaxRetries BY BoundAssumption
<1> QED BY <1>1 DEF Call, Calls

\* A call of C attempts is paid for by the next multiple of C.
LEMMA OneMoreCall ==
  ASSUME NEW C \in Nat, NEW a \in 0 .. (C - 1), NEW x \in Nat, NEW y \in Nat, x + 1 <= y
  PROVE  C * x + a + 1 <= C * y
<1>1. (x + 1) * C <= y * C BY Multiples
<1>2. (x + 1) * C = C * x + C /\ y * C = C * y BY SMT
<1>3. PICK m \in Int, n \in Int : m = C * x /\ n = C * y OBVIOUS
<1> QED BY <1>1, <1>2, <1>3

\* A call that ends has its attempts; what comes after it may have cost one more.
LEMMA NextIsPaid ==
  ASSUME Shapes, Asking, Budget, status = "running", status' = status, sheet' = sheet, chunk' = chunk,
         call # NoCall, requests' = requests + 1,
         \/ call' = NoCall
         \/ \E k \in DOMAIN Current : (call.kind = "single" => k > call.at) /\ call' = Call("single", k)
  PROVE  Budget'
<1> DEFINE C == MaxRetries + 1
<1>1. C \in Nat /\ call.attempt \in 0 .. (C - 1) /\ call.at \in Nat /\ call.round \in {1, 2} /\ call \in Calls
  BY BoundAssumption DEF Asking, Calls
<1>2. Current' = Current /\ Len(Current) \in Nat /\ DOMAIN Current = 1 .. Len(Current) BY Here, SameChunk
<1>3. requests \in Nat BY DEF Shapes
<1>4. call.kind \in {"batch", "single"} BY <1>1 DEF Asking, Calls
<1>5. PICK x \in Nat : /\ requests <= C * x + call.attempt
                       /\ \/ x <= 1
                          \/ x = 1 + call.at /\ call.at <= Len(Current) /\ call.kind = "single"
  <2>1. CASE call.kind = "batch"
    <3>1. requests <= C * (call.round - 1) + call.attempt BY <2>1 DEF Budget, Spent
    <3>2. call.round - 1 \in Nat /\ call.round - 1 <= 1 BY <1>1
    <3> QED BY <3>1, <3>2
  <2>2. CASE call.kind = "single"
    <3>1. requests <= C * (1 + call.at) + call.attempt BY <2>2 DEF Budget, Spent
    <3>2. call.at \in DOMAIN Current BY <2>2 DEF Asking
    <3> QED BY <1>1, <1>2, <2>2, <3>1, <3>2
  <2> QED BY <1>4, <2>1, <2>2
<1>6. ASSUME NEW y \in Nat, x + 1 <= y PROVE requests + 1 <= C * y
  <2>1. C * x + call.attempt + 1 <= C * y BY <1>1, <1>6, OneMoreCall
  <2>2. PICK m \in Int, n \in Int, a \in Int : m = C * x /\ n = C * y /\ a = call.attempt BY <1>1
  <2> QED BY <1>3, <1>5, <2>1, <2>2
<1>7. CASE call' = NoCall
  <2>1. call'.kind = "none" BY <1>7, CallFields DEF NoCall
  <2>2. Spent' = C * (2 + Len(Current)) BY <1>2, <2>1 DEF Spent
  <2>3. requests + 1 <= C * (2 + Len(Current)) BY <1>1, <1>2, <1>5, <1>6
  <2> QED BY <2>2, <2>3 DEF Budget
<1>8. CASE \E k \in DOMAIN Current : (call.kind = "single" => k > call.at) /\ call' = Call("single", k)
  <2>1. PICK k \in DOMAIN Current : (call.kind = "single" => k > call.at) /\ call' = Call("single", k) BY <1>8
  <2>2. call'.kind = "single" /\ call'.at = k /\ call'.attempt = 0
    BY <2>1 DEF Call
  <2>3. k \in Nat /\ k >= 1 BY <1>2
  <2>4. Spent' = C * (1 + k) + 0 BY <2>2 DEF Spent
  <2>5. requests + 1 <= C * (1 + k) BY <1>1, <1>5, <1>6, <2>1, <2>3
  <2>6. C * (1 + k) \in Int BY <1>1, <2>3
  <2> QED BY <2>4, <2>5, <2>6 DEF Budget
<1> QED BY <1>7, <1>8

\* The next call is asked on the terms of the invariant.
LEMMA NextIsAsked ==
  ASSUME Shapes, status = "running", status' = status, sheet' = sheet, chunk' = chunk,
         NEW i \in Nat, GoOn(batch', i),
         DOMAIN batch' = IdsOf(Current), DOMAIN singles' = IdsOf(Current),
         \A q \in IdsOf(Current) : IsReply(batch'[q]) /\ IsReply(singles'[q]),
         \A k \in DOMAIN Current : k > i => singles'[Current[k].id] = NoReply
  PROVE  /\ Asking'
         /\ \/ call' = NoCall
            \/ \E k \in DOMAIN Current : k > i /\ call' = Call("single", k)
<1>1. PICK replies : replies = batch' OBVIOUS
<1>2. \/ call' = NoCall
      \/ \E k \in DOMAIN Current : /\ k > i /\ NeedsFollowUp(replies[Current[k].id])
                                   /\ call' = Call("single", k)
  BY <1>1, NextCall
<1>3. Current' = Current /\ IdsOf(Current)' = IdsOf(Current) BY SameChunk
<1>4. DOMAIN Current \in SUBSET Nat BY Here
<1>5. CASE call' = NoCall
  <2>1. call' \in Calls /\ call'.kind = "none" BY <1>5, CallFields DEF NoCall
  <2> QED BY <1>3, <1>5, <2>1 DEF Asking
<1>6. CASE \E k \in DOMAIN Current : /\ k > i /\ NeedsFollowUp(replies[Current[k].id])
                                     /\ call' = Call("single", k)
  <2>1. PICK k \in DOMAIN Current : /\ k > i /\ NeedsFollowUp(replies[Current[k].id])
                                    /\ call' = Call("single", k)
    BY <1>6
  <2>2. call' \in Calls BY <1>4, <2>1, CallFields
  <2>3. call'.kind = "single" /\ call'.at = k /\ call'.round = 1 BY <2>1 DEF Call
  <2>4. \A j \in DOMAIN Current : j >= k => singles'[Current[j].id] = NoReply BY <1>4, <2>1
  <2> QED BY <1>1, <1>3, <2>1, <2>2, <2>3, <2>4 DEF Asking
<1>7. QED BY <1>2, <1>5, <1>6

\* At most one reply follows the current call, and none is in for the questions ahead.
LEMMA NoneAhead ==
  ASSUME Shapes, Asking, status = "running", call # NoCall, NEW k \in DOMAIN Current, k > call.at
  PROVE  singles[Current[k].id] = NoReply
<1>1. call.kind \in {"batch", "single"} /\ call.at \in Nat BY DEF Asking, Calls
<1>2. k \in Nat /\ Current[k].id \in IdsOf(Current) BY Here
<1>3. CASE call.kind = "batch" BY <1>2, <1>3 DEF Asking, Silent
<1>4. CASE call.kind = "single" BY <1>1, <1>2, <1>4 DEF Asking
<1> QED BY <1>1, <1>3, <1>4

LEMMA FailTyped ==
  ASSUME Shapes, Asking, Budget, NEW o, Fail(o)
  PROVE  Shapes' /\ Asking' /\ Budget'
<1>1. /\ status = "running" /\ call # NoCall /\ requests' = requests + 1
      /\ sheet' = sheet /\ provider' = provider /\ chunk' = chunk /\ stored' = stored /\ progress' = progress
      /\ expired' = expired /\ status' = status /\ heard' = heard
  BY DEF Fail
<1>2. /\ ChunkList' = ChunkList /\ Current' = Current /\ SheetIds' = SheetIds
      /\ IdsOf(Current)' = IdsOf(Current) /\ Silent(Current)' = Silent(Current)
  BY <1>1, SameChunk
<1>3. Shapes'
  <2>1. unlucky' \in BOOLEAN BY DEF Fail
  <2> QED BY <1>1, <1>2, <2>1 DEF Shapes
<1>4. call \in Calls /\ call.at \in Nat BY <1>1 DEF Asking, Calls
<1>5. CASE Retryable(o) /\ AttemptsLeft /\ ~expired
  <2>1. call' = [call EXCEPT !.attempt = @ + 1, !.json = JSONMode(o)] /\ batch' = batch /\ singles' = singles
    BY <1>5 DEF Fail
  <2>2. JSONMode(o) \in BOOLEAN BY <1>4 DEF JSONMode, Calls
  <2>3. call.attempt \in 0 .. MaxRetries /\ call.attempt < MaxRetries BY <1>4, <1>5 DEF Calls, AttemptsLeft
  <2>4. call' \in Calls
    <3>1. PICK n : n = call.attempt + 1 OBVIOUS
    <3>2. PICK j \in BOOLEAN : j = JSONMode(o) BY <2>2
    <3>3. n \in 0 .. MaxRetries BY <2>3, <3>1, BoundAssumption
    <3>4. call' = [call EXCEPT !.attempt = n, !.json = j] BY <2>1, <3>1, <3>2
    <3> QED BY <1>4, <3>3, <3>4 DEF Calls
  <2>5. /\ call'.kind = call.kind /\ call'.at = call.at /\ call'.round = call.round
        /\ call'.attempt = call.attempt + 1
    BY <1>4, <2>1 DEF Calls
  <2>6. call.kind # "none" BY <1>1 DEF Asking
  <2>7. Asking' BY <1>1, <1>2, <2>1, <2>4, <2>5, <2>6 DEF Asking
  <2>8. Spent' = Spent + 1
    <3>1. call.round \in {1, 2} /\ call.kind \in {"batch", "single"} BY <1>4, <2>6 DEF Calls
    <3>2. PICK m \in Int, n \in Int : m = (MaxRetries + 1) * (call.round - 1) /\ n = (MaxRetries + 1) * (1 + call.at)
      BY <1>4, <3>1, BoundAssumption
    <3>3. PICK a \in Int : a = call.attempt BY <2>3
    <3> QED BY <2>5, <3>1, <3>2, <3>3 DEF Spent
  <2>9. requests \in Int /\ Spent \in Int
    <3>1. call.round \in {1, 2} /\ call.kind \in {"batch", "single"} BY <1>4, <2>6 DEF Calls
    <3>2. PICK m \in Int, n \in Int : m = (MaxRetries + 1) * (call.round - 1) /\ n = (MaxRetries + 1) * (1 + call.at)
      BY <1>4, <3>1, BoundAssumption
    <3> QED BY <2>3, <3>1, <3>2 DEF Spent, Shapes
  <2>10. Budget' BY <1>1, <2>8, <2>9 DEF Budget
  <2> QED BY <1>3, <2>7, <2>10
<1>6. CASE ~(Retryable(o) /\ AttemptsLeft /\ ~expired)
  <2>1. GoOn(batch, call.at) /\ batch' = batch /\ singles' = singles BY <1>6 DEF Fail, GiveUp
  <2>2. GoOn(batch', call.at) BY <2>1 DEF GoOn, OpenAfter
  <2>3. \A k \in DOMAIN Current : k > call.at => singles'[Current[k].id] = NoReply
    BY <1>1, <2>1, NoneAhead
  <2>4. /\ DOMAIN batch' = IdsOf(Current) /\ DOMAIN singles' = IdsOf(Current)
        /\ \A q \in IdsOf(Current) : IsReply(batch'[q]) /\ IsReply(singles'[q])
    BY <1>1, <2>1 DEF Asking
  <2>5. /\ Asking'
        /\ \/ call' = NoCall
           \/ \E k \in DOMAIN Current : k > call.at /\ call' = Call("single", k)
    BY <1>1, <1>4, <2>2, <2>3, <2>4, NextIsAsked
  <2>6. Budget' BY <1>1, <2>5, NextIsPaid
  <2> QED BY <1>3, <2>5, <2>6
<1> QED BY <1>5, <1>6

LEMMA BatchIsRead ==
  ASSUME NEW c \in AllChunks, NEW r \in BatchTalk[c]
  PROVE  /\ BatchRead[r].full = SaidInFull(r) /\ BatchRead[r].taken.read \in BOOLEAN
         /\ \A q \in DOMAIN BatchRead[r].taken.replies : IsResult(BatchRead[r].taken.replies[q])
<1>1. r \in UNION {BatchTalk[d] : d \in AllChunks} OBVIOUS
<1>2. BatchRead[r] = [taken |-> ParseBatch(Text(r)), full |-> SaidInFull(r)]
  BY <1>1, Zenon DEF BatchRead
<1>3. BatchRead[r].taken = ParseBatch(Text(r)) /\ BatchRead[r].full = SaidInFull(r) BY <1>2
<1> QED BY <1>3, ReadingIsTyped

LEMMA SingleIsRead ==
  ASSUME NEW q \in Ids, NEW r \in SingleTalk[q]
  PROVE  IsReply(SingleRead[r])
<1>1. r \in UNION {SingleTalk[d] : d \in Ids} OBVIOUS
<1>2. SingleRead[r] = ParseSingle(Text(r)) BY <1>1, Zenon DEF SingleRead
<1> QED BY <1>2, ReadingIsTyped

\* The batch is answered.
BatchSaid == \E r \in BatchTalk[Current] : SayBatch(r, BatchRead[r].taken, BatchRead[r].full)

\* What a reply to the batch leads to: its replies are taken, or it is asked for again,
\* or there is none.
LEMMA BatchTaken ==
  ASSUME Shapes, Asking, NEW r \in BatchTalk[Current],
         SayBatch(r, BatchRead[r].taken, BatchRead[r].full)
  PROVE  /\ status = "running" /\ call.kind = "batch" /\ call # NoCall /\ requests' = requests + 1
         /\ sheet' = sheet /\ provider' = provider /\ chunk' = chunk /\ stored' = stored
         /\ progress' = progress /\ expired' = expired /\ status' = status /\ singles' = singles
         /\ \/ /\ BatchRead[r].taken.read /\ GoOn(batch', 0)
               /\ batch' = [q \in IdsOf(Current) |->
                              IF q \in DOMAIN BatchRead[r].taken.replies
                              THEN BatchRead[r].taken.replies[q] ELSE NoReply]
            \/ /\ ~BatchRead[r].taken.read /\ call.round = 1 /\ batch' = batch
               /\ call' = [Call("batch", 0) EXCEPT !.round = 2]
            \/ /\ ~BatchRead[r].taken.read /\ call.round # 1 /\ batch' = batch /\ GoOn(batch', 0)
         /\ \A q \in IdsOf(Current) : IsReply(batch'[q])
         /\ DOMAIN batch' = IdsOf(Current)
<1>1. PICK p, full : p = BatchRead[r].taken /\ full = BatchRead[r].full OBVIOUS
<1>2. SayBatch(r, p, full) BY <1>1
<1>3. PICK replies : replies = [q \in IdsOf(Current) |-> IF q \in DOMAIN p.replies THEN p.replies[q] ELSE NoReply]
  OBVIOUS
<1>4. /\ status = "running" /\ call.kind = "batch" /\ requests' = requests + 1
      /\ CASE p.read -> batch' = replies /\ GoOn(replies, 0)
           [] ~p.read /\ call.round = 1 -> call' = [Call("batch", 0) EXCEPT !.round = 2] /\ UNCHANGED batch
           [] ~p.read /\ call.round # 1 -> GoOn(batch, 0) /\ UNCHANGED batch
      /\ UNCHANGED <<sheet, provider, chunk, singles, stored, progress, expired, status>>
  BY <1>2, <1>3, Zenon DEF SayBatch
<1>5. Current \in AllChunks BY <1>4, Here
<1>6. p.read \in BOOLEAN /\ \A q \in DOMAIN p.replies : IsResult(p.replies[q])
  BY <1>1, <1>5, BatchIsRead
<1>7. \/ p.read /\ batch' = replies /\ GoOn(replies, 0)
      \/ ~p.read /\ call.round = 1 /\ call' = [Call("batch", 0) EXCEPT !.round = 2] /\ batch' = batch
      \/ ~p.read /\ call.round # 1 /\ GoOn(batch, 0) /\ batch' = batch
  BY <1>4, <1>6
<1>8. batch' = batch => GoOn(batch, 0) = GoOn(batch', 0) BY DEF GoOn, OpenAfter
<1>9. batch' = replies => GoOn(replies, 0) = GoOn(batch', 0) BY DEF GoOn, OpenAfter
<1>10. call # NoCall BY <1>4 DEF NoCall, Call
<1>11. /\ \A q \in IdsOf(Current) : IsReply(replies[q]) /\ IsReply(batch[q])
       /\ DOMAIN replies = IdsOf(Current) /\ DOMAIN batch = IdsOf(Current)
  BY <1>3, <1>4, <1>6 DEF IsReply, Asking
<1>12. /\ \A q \in IdsOf(Current) : IsReply(batch'[q])
       /\ DOMAIN batch' = IdsOf(Current)
  BY <1>7, <1>11
<1> QED BY <1>1, <1>3, <1>4, <1>7, <1>8, <1>9, <1>10, <1>12

LEMMA BatchTyped ==
  ASSUME Shapes, Asking, Budget, BatchSaid
  PROVE  Shapes' /\ Asking' /\ Budget'
<1>1. PICK r \in BatchTalk[Current] : SayBatch(r, BatchRead[r].taken, BatchRead[r].full) BY DEF BatchSaid
<1>2. /\ status = "running" /\ call.kind = "batch" /\ call # NoCall /\ requests' = requests + 1
      /\ sheet' = sheet /\ provider' = provider /\ chunk' = chunk /\ stored' = stored
      /\ progress' = progress /\ expired' = expired /\ status' = status /\ singles' = singles
      /\ \A q \in IdsOf(Current) : IsReply(batch'[q])
      /\ DOMAIN batch' = IdsOf(Current)
  BY <1>1, BatchTaken
<1>3. \/ GoOn(batch', 0)
      \/ call.round = 1 /\ batch' = batch /\ call' = [Call("batch", 0) EXCEPT !.round = 2]
  BY <1>1, BatchTaken
<1>4. /\ ChunkList' = ChunkList /\ Current' = Current /\ SheetIds' = SheetIds
      /\ IdsOf(Current)' = IdsOf(Current) /\ Silent(Current)' = Silent(Current)
  BY <1>2, SameChunk
<1>5. Shapes'
  <2>1. unlucky' \in BOOLEAN /\ DOMAIN heard' = SheetIds BY <1>1 DEF SayBatch
  <2> QED BY <1>2, <1>4, <2>1 DEF Shapes
<1>6. /\ batch = Silent(Current) /\ singles = Silent(Current) /\ DOMAIN singles = IdsOf(Current)
      /\ \A q \in IdsOf(Current) : IsReply(singles[q])
  BY <1>2 DEF Asking
<1>7. CASE GoOn(batch', 0)
  <2>1. \A k \in DOMAIN Current : k > 0 => singles'[Current[k].id] = NoReply
    BY <1>2, <1>6, Here DEF Silent
  <2>2. /\ Asking'
        /\ \/ call' = NoCall
           \/ \E k \in DOMAIN Current : k > 0 /\ call' = Call("single", k)
    BY <1>2, <1>6, <1>7, <2>1, NextIsAsked
  <2>3. Budget' BY <1>2, <2>2, NextIsPaid
  <2> QED BY <1>5, <2>2, <2>3
<1>8. CASE call.round = 1 /\ batch' = batch /\ call' = [Call("batch", 0) EXCEPT !.round = 2]
  <2>1. /\ call'.kind = "batch" /\ call'.round = 2 /\ call'.attempt = 0 /\ call' \in Calls
    <3>1. Call("batch", 0) \in Calls BY CallFields
    <3>2. call'.kind = "batch" /\ call'.round = 2 /\ call'.attempt = 0 BY <1>8 DEF Call
    <3> QED BY <1>8, <3>1, <3>2 DEF Calls
  <2>2. Asking' BY <1>2, <1>4, <1>6, <1>8, <2>1 DEF Asking
  <2>3. call.attempt \in 0 .. MaxRetries BY <1>2 DEF Asking, Calls
  <2>4. Spent = (MaxRetries + 1) * (1 - 1) + call.attempt BY <1>2, <1>8 DEF Spent
  <2>5. Spent' = (MaxRetries + 1) * (2 - 1) + 0 BY <2>1 DEF Spent
  <2>6. requests <= Spent /\ requests \in Nat BY <1>2 DEF Budget, Shapes
  <2>7. requests' <= Spent' BY <1>2, <2>3, <2>4, <2>5, <2>6, BoundAssumption
  <2>8. Budget' BY <2>7 DEF Budget
  <2> QED BY <1>5, <2>2, <2>8
<1> QED BY <1>3, <1>7, <1>8

\* A single question is answered.
SingleSaid == call.kind = "single" /\ \E r \in SingleTalk[Current[call.at].id] : SaySingle(r)

LEMMA SingleTyped ==
  ASSUME Shapes, Asking, Budget, SingleSaid
  PROVE  Shapes' /\ Asking' /\ Budget'
<1>1. PICK r \in SingleTalk[Current[call.at].id] : SaySingle(r) BY DEF SingleSaid
<1>2. PICK q : q = Current[call.at].id OBVIOUS
<1>3. /\ status = "running" /\ call.kind = "single" /\ requests' = requests + 1
      /\ singles' = [singles EXCEPT ![q] = SingleRead[r]] /\ GoOn(batch, call.at)
      /\ sheet' = sheet /\ provider' = provider /\ chunk' = chunk /\ stored' = stored /\ batch' = batch
      /\ progress' = progress /\ expired' = expired /\ status' = status
  BY <1>1, <1>2 DEF SaySingle
<1>4. call.at \in DOMAIN Current /\ call.at \in Nat /\ call # NoCall
  <2>1. call # NoCall BY <1>3 DEF NoCall, Call
  <2> QED BY <1>3, <2>1 DEF Asking, Calls
<1>5. q \in IdsOf(Current) /\ q \in Ids
  <2>1. q \in IdsOf(Current) /\ Current \in Seq(Question) BY <1>2, <1>3, <1>4, Here
  <2>2. PICK u \in Question : u = Current[call.at] BY <1>4, <2>1
  <2> QED BY <1>2, <2>1, <2>2 DEF Question
<1>6. IsReply(SingleRead[r]) BY <1>1, <1>2, <1>5, SingleIsRead
<1>7. /\ ChunkList' = ChunkList /\ Current' = Current /\ SheetIds' = SheetIds
      /\ IdsOf(Current)' = IdsOf(Current) /\ Silent(Current)' = Silent(Current)
  BY <1>3, SameChunk
<1>8. Shapes'
  <2>1. unlucky' \in BOOLEAN BY <1>1 DEF SaySingle
  <2>2. heard' = heard \/ \E v : heard' = [heard EXCEPT ![q] = v] BY <1>1, <1>2 DEF SaySingle
  <2>3. DOMAIN heard' = SheetIds BY <2>2 DEF Shapes
  <2> QED BY <1>3, <1>7, <2>1, <2>3 DEF Shapes
<1>9. /\ DOMAIN batch' = IdsOf(Current) /\ DOMAIN singles' = IdsOf(Current)
      /\ \A u \in IdsOf(Current) : IsReply(batch'[u]) /\ IsReply(singles'[u])
  BY <1>3, <1>5, <1>6 DEF Asking
<1>10. ASSUME NEW k \in DOMAIN Current, k > call.at PROVE singles'[Current[k].id] = NoReply
  <2>1. Current[k].id # q BY <1>2, <1>3, <1>4, <1>10, Here DEF DistinctIds
  <2>2. singles[Current[k].id] = NoReply BY <1>3, <1>4, <1>10, NoneAhead
  <2>3. Current[k].id \in DOMAIN singles BY <1>3, Here DEF Asking
  <2> QED BY <1>3, <2>1, <2>2, <2>3
<1>11. GoOn(batch', call.at) BY <1>3 DEF GoOn, OpenAfter
<1>12. /\ Asking'
       /\ \/ call' = NoCall
          \/ \E k \in DOMAIN Current : k > call.at /\ call' = Call("single", k)
  BY <1>3, <1>4, <1>9, <1>10, <1>11, NextIsAsked
<1>13. Budget' BY <1>3, <1>4, <1>12, NextIsPaid
<1> QED BY <1>8, <1>12, <1>13

LEMMA ExpireTyped ==
  ASSUME Shapes, Asking, Budget, Expire
  PROVE  Shapes' /\ Asking' /\ Budget'
<1>1. /\ expired' = TRUE /\ unlucky' = TRUE
      /\ UNCHANGED <<sheet, provider, chunk, call, batch, singles, stored, progress, status, requests, heard, vague>>
  BY DEF Expire
<1>2. /\ ChunkList' = ChunkList /\ Current' = Current /\ SheetIds' = SheetIds
      /\ IdsOf(Current)' = IdsOf(Current) /\ Silent(Current)' = Silent(Current)
  BY <1>1, SameChunk
<1> QED BY <1>1, <1>2 DEF Shapes, Asking, Budget, Spent

\* What the end of a chunk stores and counts, question by question.
LEMMA AnswersStored ==
  ASSUME Shapes, Asking, EndChunk
  PROVE  /\ status = "running" /\ sheet' = sheet /\ provider' = provider
         /\ expired' = expired /\ unlucky' = unlucky
         /\ expired => /\ status' = "failed" /\ chunk' = chunk /\ stored' = stored /\ progress' = progress
                       /\ requests' = requests /\ heard' = heard /\ vague' = vague
         /\ ~expired =>
              /\ chunk' = chunk + 1
              /\ stored' = [q \in SheetIds |->
                              IF q \in Answered THEN NormalizeResult(Answer(q)) ELSE stored[q]]
              /\ IsFiniteSet(Answered) /\ Cardinality(Answered) \in Nat
              /\ Cardinality(Answered) <= Len(Current)
              /\ progress' = [done   |-> progress.done + Cardinality(Answered),
                              failed |-> progress.failed + Len(Current) - Cardinality(Answered)]
              /\ heard' = [q \in SheetIds |-> {}] /\ vague' = {}
              /\ chunk < Len(ChunkList) =>
                   /\ call' = Call("batch", 0) /\ batch' = Silent(ChunkList[chunk + 1])
                   /\ singles' = Silent(ChunkList[chunk + 1]) /\ requests' = 0 /\ status' = status
              /\ ~(chunk < Len(ChunkList)) =>
                   /\ status' = IF \A q \in SheetIds : stored'[q] = NoReply THEN "failed" ELSE "reviewed"
                   /\ requests' = requests
<1> DEFINE out    == ReviewChunkReplies(Current, batch, singles)
           usable == {i \in DOMAIN out : out[i] # NoReply}
           kept   == [q \in SheetIds |->
                        IF \E i \in usable : Current[i].id = q
                        THEN NormalizeResult(out[CHOOSE i \in usable : Current[i].id = q]) ELSE stored[q]]
           answers == [q \in SheetIds |->
                         IF q \in Answered THEN NormalizeResult(Answer(q)) ELSE stored[q]]
<1>1. status = "running" /\ call = NoCall BY DEF EndChunk
<1>2. PICK n \in Nat : n = Len(Current) /\ DOMAIN Current = 1 .. n BY <1>1, Here
<1>3. /\ DOMAIN out = 1 .. n /\ Len(out) = n
      /\ \A i \in 1 .. n : out[i] = Answer(Current[i].id)
  <2>1. out = [i \in 1 .. n |-> Answer(Current[i].id)] BY <1>2 DEF ReviewChunkReplies, Answer
  <2> HIDE DEF out
  <2>2. DOMAIN out = 1 .. n /\ \A i \in 1 .. n : out[i] = Answer(Current[i].id) BY <2>1
  <2>3. Len(out) = n BY <2>1
  <2> QED BY <2>2, <2>3
<1>4. \A i, k \in 1 .. n : Current[i].id = Current[k].id => i = k BY <1>1, <1>2, Here DEF DistinctIds
<1>5. \A q \in IdsOf(Current) : \E i \in 1 .. n : q = Current[i].id BY <1>1, <1>2, Here
<1>6. \A i \in 1 .. n : Current[i].id \in IdsOf(Current) BY <1>1, <1>2, Here
<1> HIDE DEF out
<1>7. \A i \in usable : i \in 1 .. n /\ Current[i].id \in Answered BY <1>3, <1>6 DEF Answered
<1>8. \A q \in Answered : \E i \in usable : Current[i].id = q
  <2> TAKE q \in Answered
  <2>1. PICK i \in 1 .. n : q = Current[i].id BY <1>5 DEF Answered
  <2>2. out[i] # NoReply BY <1>3, <2>1 DEF Answered
  <2> QED BY <1>3, <2>1, <2>2
<1>9. kept = answers
  <2> SUFFICES ASSUME NEW q \in SheetIds PROVE kept[q] = answers[q] OBVIOUS
  <2>1. CASE q \in Answered
    <3>1. PICK j : j = CHOOSE i \in usable : Current[i].id = q OBVIOUS
    <3>2. j \in usable /\ Current[j].id = q BY <1>8, <2>1, <3>1
    <3>3. out[j] = Answer(q) BY <1>3, <1>7, <3>2
    <3>4. kept[q] = NormalizeResult(out[j])
      <4>1. \E i \in usable : Current[i].id = q BY <3>2
      <4> QED BY <3>1, <4>1
    <3> QED BY <2>1, <3>3, <3>4
  <2>2. CASE q \notin Answered
    <3>1. ~ \E i \in usable : Current[i].id = q BY <1>7, <2>2
    <3> QED BY <2>2, <3>1
  <2> QED BY <2>1, <2>2
<1>10. IsFiniteSet(usable) /\ Cardinality(usable) \in Nat /\ Cardinality(usable) <= n
  <2>1. usable \in SUBSET (1 .. n) BY <1>7
  <2>2. IsFiniteSet(1 .. n) /\ Cardinality(1 .. n) = n BY UpToN
  <2> HIDE DEF usable
  <2>3. IsFiniteSet(usable) /\ Cardinality(usable) <= n BY <2>1, <2>2, FS_Subset
  <2> QED BY <2>3, FS_CardinalityType
<1>11. IsFiniteSet(Answered) /\ Cardinality(Answered) = Cardinality(usable)
  <2> DEFINE f == [i \in usable |-> Current[i].id]
  <2>1. f \in [usable -> Answered] BY <1>7
  <2>2. \A i, k \in usable : f[i] = f[k] => i = k BY <1>4, <1>7
  <2>3. \A q \in Answered : \E i \in usable : f[i] = q BY <1>8
  <2> HIDE DEF f, usable
  <2>4. f \in Bijection(usable, Answered)
    BY <2>1, <2>2, <2>3 DEF Bijection, Injection, Surjection, IsInjective
  <2>5. PICK S, T : S = usable /\ T = Answered OBVIOUS
  <2>6. IsFiniteSet(S) /\ f \in Bijection(S, T) BY <1>10, <2>4, <2>5
  <2>7. IsFiniteSet(T) /\ Cardinality(T) = Cardinality(S) BY <2>6, FS_Bijection DEF ExistsBijection
  <2> QED BY <2>5, <2>7
<1>12. /\ IF expired
          THEN /\ status' = "failed"
               /\ UNCHANGED <<chunk, call, batch, singles, stored, progress, requests, heard, vague>>
          ELSE /\ stored' = kept
               /\ progress' = [done |-> progress.done + Cardinality(usable),
                               failed |-> progress.failed + Len(out) - Cardinality(usable)]
               /\ chunk' = chunk + 1
               /\ heard' = [q \in SheetIds |-> {}] /\ vague' = {}
               /\ IF chunk < Len(ChunkList)
                  THEN /\ call' = Call("batch", 0) /\ batch' = Silent(ChunkList[chunk + 1])
                       /\ singles' = Silent(ChunkList[chunk + 1]) /\ requests' = 0
                       /\ UNCHANGED status
                  ELSE /\ status' = IF \A q \in SheetIds : kept[q] = NoReply THEN "failed" ELSE "reviewed"
                       /\ UNCHANGED <<call, batch, singles, requests>>
       /\ UNCHANGED <<sheet, provider, expired, unlucky>>
  BY Zenon DEF EndChunk, out
<1> HIDE DEF usable, kept
<1>13. ASSUME ~expired
       PROVE  /\ stored' = answers
              /\ progress' = [done |-> progress.done + Cardinality(Answered),
                              failed |-> progress.failed + Len(Current) - Cardinality(Answered)]
              /\ ~(chunk < Len(ChunkList)) =>
                   status' = IF \A q \in SheetIds : stored'[q] = NoReply THEN "failed" ELSE "reviewed"
  <2>1. stored' = kept BY <1>12, <1>13
  <2>2. progress' = [done |-> progress.done + Cardinality(usable),
                     failed |-> progress.failed + Len(out) - Cardinality(usable)]
    BY <1>12, <1>13
  <2>3. ~(chunk < Len(ChunkList)) =>
          status' = IF \A q \in SheetIds : stored'[q] = NoReply THEN "failed" ELSE "reviewed"
    BY <1>12, <1>13, <2>1, Zenon
  <2> HIDE DEF answers
  <2> QED BY <1>2, <1>3, <1>9, <1>11, <2>1, <2>2, <2>3
<1>14. Cardinality(Answered) \in Nat /\ Cardinality(Answered) <= Len(Current) BY <1>2, <1>10, <1>11
<1> HIDE DEF answers
<1> QED BY <1>1, <1>11, <1>12, <1>13, <1>14 DEF answers

LEMMA AnswersAreReplies ==
  ASSUME Asking, status = "running", NEW q \in IdsOf(Current)
  PROVE  IsReply(Answer(q))
BY DEF Asking, Answer, Settle

\* The next chunk begins with nothing known of it.
LEMMA ChunkBegins ==
  ASSUME NEW k \in Nat, sheet' = sheet, chunk' = k, call' = Call("batch", 0),
         batch' = Silent(ChunkList[k]), singles' = Silent(ChunkList[k])
  PROVE  Asking'
<1>1. Current' = ChunkList[k] BY DEF Current, ChunkList
<1>2. PICK c : c = ChunkList[k] OBVIOUS
<1>3. call' \in Calls /\ call'.kind = "batch" BY CallFields
<1>4. /\ DOMAIN Silent(c) = IdsOf(c) /\ \A q \in IdsOf(c) : IsReply(Silent(c)[q])
  BY DEF Silent, IsReply
<1> QED BY <1>1, <1>2, <1>3, <1>4 DEF Asking

LEMMA EndTyped ==
  ASSUME Shapes, Asking, Budget, EndChunk
  PROVE  Shapes' /\ Asking' /\ Budget'
<1>1. status = "running" /\ sheet' = sheet /\ provider' = provider /\ expired' = expired /\ unlucky' = unlucky
  BY AnswersStored
<1>2. ChunkList' = ChunkList /\ SheetIds' = SheetIds BY <1>1 DEF ChunkList, SheetIds
<1>3. PICK n \in Nat : Len(ChunkList) = n /\ DOMAIN ChunkList = 1 .. n
  BY SheetsAreCut DEF Shapes, ChunkList
<1>4. chunk \in 1 .. n BY <1>1, <1>3 DEF Shapes
<1>5. CASE expired
  <2>1. /\ status' = "failed" /\ chunk' = chunk /\ stored' = stored /\ progress' = progress
        /\ requests' = requests /\ heard' = heard
    BY <1>5, AnswersStored
  <2>2. Shapes' BY <1>1, <1>2, <2>1 DEF Shapes
  <2> QED BY <2>1, <2>2 DEF Asking, Budget
<1>6. CASE ~expired
  <2>1. /\ chunk' = chunk + 1
        /\ stored' = [q \in SheetIds |->
                        IF q \in Answered THEN NormalizeResult(Answer(q)) ELSE stored[q]]
        /\ Cardinality(Answered) \in Nat /\ Cardinality(Answered) <= Len(Current)
        /\ progress' = [done   |-> progress.done + Cardinality(Answered),
                        failed |-> progress.failed + Len(Current) - Cardinality(Answered)]
        /\ heard' = [q \in SheetIds |-> {}]
    BY <1>6, AnswersStored, Zenon
  <2>2. \A q \in SheetIds : IsReply(stored'[q])
    <3> TAKE q \in SheetIds
    <3>1. CASE q \in Answered
      <4>1. IsReply(Answer(q)) /\ Answer(q) # NoReply BY <1>1, <3>1, AnswersAreReplies DEF Answered
      <4>2. IsResult(Answer(q)) BY <4>1 DEF IsReply
      <4>3. IsResult(NormalizeResult(Answer(q))) BY <4>2, ResultFacts
      <4> QED BY <2>1, <3>1, <4>3 DEF IsReply
    <3>2. CASE q \notin Answered BY <2>1, <3>2 DEF Shapes
    <3> QED BY <3>1, <3>2
  <2>3. DOMAIN stored' = SheetIds BY <2>1
  <2>4. progress' \in [done : Nat, failed : Nat]
    <3>1. PICK a \in Nat, len \in Nat : a = Cardinality(Answered) /\ len = Len(Current)
      BY <1>1, <2>1, Here
    <3>2. PICK d \in Nat, f \in Nat : d = progress.done /\ f = progress.failed BY DEF Shapes
    <3>3. progress' = [done |-> d + a, failed |-> f + len - a] /\ a <= len BY <2>1, <3>1, <3>2
    <3>4. d + a \in Nat /\ f + len - a \in Nat BY <3>3
    <3> QED BY <3>3, <3>4
  <2>5. CASE chunk < Len(ChunkList)
    <3>1. /\ call' = Call("batch", 0) /\ batch' = Silent(ChunkList[chunk + 1])
          /\ singles' = Silent(ChunkList[chunk + 1]) /\ requests' = 0 /\ status' = status
      BY <1>6, <2>5, AnswersStored, Zenon
    <3>2. chunk + 1 \in 1 .. n /\ chunk + 1 \in Nat BY <1>3, <1>4, <2>5
    <3>3. Shapes' BY <1>1, <1>2, <1>3, <2>1, <2>2, <2>3, <2>4, <3>1, <3>2 DEF Shapes
    <3>4. Asking' BY <1>1, <2>1, <3>1, <3>2, ChunkBegins
    <3>5. call'.kind = "batch" /\ call'.round = 1 /\ call'.attempt = 0 BY <3>1 DEF Call
    <3>6. Spent' = (MaxRetries + 1) * (1 - 1) + 0 BY <3>5 DEF Spent
    <3>7. Budget' BY <3>1, <3>6, BoundAssumption DEF Budget
    <3> QED BY <3>3, <3>4, <3>7
  <2>6. CASE ~(chunk < Len(ChunkList))
    <3>1. status' \in {"failed", "reviewed"} /\ requests' = requests
      <4>1. /\ status' = IF \A q \in SheetIds : stored'[q] = NoReply THEN "failed" ELSE "reviewed"
            /\ requests' = requests
        BY <1>6, <2>6, AnswersStored, Zenon
      <4> QED BY <4>1
    <3>2. chunk + 1 \in 1 .. (n + 1) BY <1>4
    <3>3. Shapes' BY <1>1, <1>2, <1>3, <2>1, <2>2, <2>3, <2>4, <3>1, <3>2 DEF Shapes
    <3> QED BY <3>1, <3>3 DEF Asking, Budget
  <2> QED BY <2>5, <2>6
<1> QED BY <1>5, <1>6

LEMMA InitTyped ==
  ASSUME Init
  PROVE  Shapes /\ Asking /\ Budget
<1>1. /\ sheet \in Sheets /\ provider \in Providers /\ chunk = 1 /\ call = Call("batch", 0)
      /\ batch = Silent(Current) /\ singles = Silent(Current)
      /\ stored = [q \in SheetIds |-> NoReply] /\ progress = [done |-> 0, failed |-> 0]
      /\ expired = FALSE /\ status = "running" /\ requests = 0
      /\ heard = [q \in SheetIds |-> {}] /\ unlucky = FALSE
  BY DEF Init
<1>2. PICK n \in Nat \ {0} : Len(ChunkList) = n /\ DOMAIN ChunkList = 1 .. n
  BY <1>1, SheetsAreCut DEF ChunkList
<1>3. 1 \in 1 .. (n + 1) /\ 1 \in 1 .. n BY <1>2
<1>4. Shapes BY <1>1, <1>2, <1>3 DEF Shapes, IsReply
<1>5. call \in Calls /\ call.kind = "batch" /\ call.round = 1 /\ call.attempt = 0
  <2>1. Call("batch", 0) \in Calls BY CallFields
  <2>2. call.kind = "batch" /\ call.round = 1 /\ call.attempt = 0 BY <1>1 DEF Call
  <2> QED BY <1>1, <2>1, <2>2
<1>6. Asking
  <2>1. PICK c : c = Current OBVIOUS
  <2>2. DOMAIN Silent(c) = IdsOf(c) /\ \A q \in IdsOf(c) : IsReply(Silent(c)[q]) BY DEF Silent, IsReply
  <2> QED BY <1>1, <1>5, <2>1, <2>2 DEF Asking
<1>7. Spent = (MaxRetries + 1) * (1 - 1) + 0 BY <1>5 DEF Spent
<1>8. Budget BY <1>1, <1>7, BoundAssumption DEF Budget
<1> QED BY <1>4, <1>6, <1>8

\* The steps of Next, under the names the proofs give them.
LEMMA Steps ==
  ASSUME [Next]_vars
  PROVE  \/ \E o \in Failures : Fail(o)
         \/ BatchSaid \/ SingleSaid \/ Expire \/ EndChunk \/ UNCHANGED vars
BY DEF Next, BatchSaid, SingleSaid, Over

LEMMA StaysTyped ==
  ASSUME Shapes, Asking, Budget, [Next]_vars
  PROVE  Shapes' /\ Asking' /\ Budget'
<1>1. CASE \E o \in Failures : Fail(o) BY <1>1, FailTyped
<1>2. CASE BatchSaid BY <1>2, BatchTyped
<1>3. CASE SingleSaid BY <1>3, SingleTyped
<1>4. CASE Expire BY <1>4, ExpireTyped
<1>5. CASE EndChunk BY <1>5, EndTyped
<1>6. CASE UNCHANGED vars
  <2>1. /\ UNCHANGED <<sheet, provider, chunk, call, batch, singles>>
        /\ UNCHANGED <<stored, progress, expired, status, requests, heard, unlucky>>
    BY <1>6 DEF vars
  <2>2. /\ ChunkList' = ChunkList /\ Current' = Current /\ SheetIds' = SheetIds
        /\ IdsOf(Current)' = IdsOf(Current) /\ Silent(Current)' = Silent(Current)
    BY <2>1, SameChunk
  <2> QED BY <2>1, <2>2 DEF Shapes, Asking, Budget, Spent
<1> QED BY <1>1, <1>2, <1>3, <1>4, <1>5, <1>6, Steps

\* The types of a run and of its calls, and what they may have cost.
LEMMA TypesHold == Spec => [](Shapes /\ Asking /\ Budget)
<1>1. Init => Shapes /\ Asking /\ Budget BY InitTyped
<1>2. (Shapes /\ Asking /\ Budget) /\ [Next]_vars => (Shapes /\ Asking /\ Budget)' BY StaysTyped
<1> QED BY <1>1, <1>2, PTL DEF Spec

(***************************************************************************)
(* What a chunk costs                                                      *)
(***************************************************************************)
LEMMA PeersHold ==
  ASSUME Shapes
  PROVE  PeersAreOthers
<1>1. sheet \in Sheets BY DEF Shapes
<1>2. PICK q \in Seq(Question) : q = sheet /\ DistinctIds(q) BY <1>1, SheetsAreCut
<1>3. PICK limit \in Nat \ {0} : limit = PeerSampleSize BY BoundAssumption
<1>4. PICK peers : peers = BuildPeers(q, limit) OBVIOUS
<1>5. peers \in Seq(Question) /\ SampleOf(q, limit, peers) BY <1>2, <1>4, PeersAreASample
<1>6. PICK c : c = Current OBVIOUS
<1>7. PICK others : others = ExcludeSelf(peers, c) OBVIOUS
<1>8. /\ SampleOf(q, limit, others)
      /\ \A k \in DOMAIN others : \A i \in DOMAIN c : c[i].id # others[k].id
  BY <1>5, <1>7, OthersAreASample
<1>9. PeersSent = others BY <1>2, <1>3, <1>4, <1>6, <1>7 DEF PeersSent
<1>10. \A k \in DOMAIN others : others[k].id \notin IdsOf(c) BY <1>8 DEF IdsOf
<1> QED BY <1>3, <1>6, <1>8, <1>9, <1>10 DEF PeersAreOthers, SampleOf, DistinctIds

\* Whatever is answered, a chunk costs no more than its calls with their retries, and
\* each of them carries a bounded sample of other answers.
THEOREM BoundedCalls == Spec => []CallsAreBounded
<1>1. ASSUME Shapes, Asking, Budget PROVE CallsAreBounded
  <2>1. PeersAreOthers BY <1>1, PeersHold
  <2>2. SUFFICES ASSUME status = "running" PROVE requests <= (MaxRetries + 1) * (2 + Len(Current))
    BY <2>1 DEF CallsAreBounded
  <2>3. PICK C \in Nat \ {0} : C = MaxRetries + 1 BY BoundAssumption
  <2>4. call \in Calls BY <1>1, <2>2 DEF Asking
  <2>5. PICK a \in 0 .. (C - 1) : a = call.attempt BY <2>3, <2>4, BoundAssumption DEF Calls
  <2>6. PICK n \in Nat : n = Len(Current) /\ DOMAIN Current = 1 .. n BY <1>1, <2>2, Here
  <2>7. requests \in Nat /\ requests <= Spent BY <1>1, <2>2 DEF Shapes, Budget
  <2>8. ASSUME NEW x \in Nat, x + 1 <= 2 + n, Spent = C * x + a PROVE requests <= C * (2 + n)
    <3>1. C * x + a + 1 <= C * (2 + n) BY <2>8, OneMoreCall
    <3>2. PICK u \in Int, v \in Int : u = C * x /\ v = C * (2 + n) OBVIOUS
    <3> QED BY <2>7, <2>8, <3>1, <3>2
  <2>9. CASE call.kind = "batch"
    <3>1. call.round \in {1, 2} BY <2>4 DEF Calls
    <3>2. Spent = C * (call.round - 1) + a BY <2>3, <2>5, <2>9 DEF Spent
    <3>3. call.round - 1 \in Nat /\ call.round - 1 + 1 <= 2 + n BY <3>1
    <3> QED BY <2>3, <2>6, <2>8, <3>2, <3>3
  <2>10. CASE call.kind = "single"
    <3>1. call.at \in 1 .. n BY <1>1, <2>2, <2>6, <2>10 DEF Asking
    <3>2. Spent = C * (1 + call.at) + a BY <2>3, <2>5, <2>10 DEF Spent
    <3>3. 1 + call.at \in Nat /\ 1 + call.at + 1 <= 2 + n BY <3>1
    <3> QED BY <2>3, <2>6, <2>8, <3>2, <3>3
  <2>11. CASE call.kind = "none"
    <3>1. Spent = C * (2 + n) BY <2>3, <2>6, <2>11 DEF Spent
    <3> QED BY <2>3, <2>6, <2>7, <3>1
  <2> QED BY <2>4, <2>9, <2>10, <2>11 DEF Calls
<1>2. Shapes /\ Asking /\ Budget => CallsAreBounded BY <1>1
<1> QED BY <1>2, TypesHold, PTL

(***************************************************************************)
(* Every question is accounted for                                         *)
(***************************************************************************)
\* What is behind a chunk and the chunk itself have nothing in common; together they
\* are what is behind the next, and behind the last is the whole sheet.
LEMMA PastGrows ==
  ASSUME Shapes, status = "running"
  PROVE  /\ Past \cap IdsOf(Current) = {}
         /\ sheet' = sheet /\ chunk' = chunk + 1 => Past' = Past \cup IdsOf(Current)
<1>1. PICK cs : cs = ChunkList OBVIOUS
<1>2. PICK n \in Nat : DOMAIN cs = 1 .. n /\ Cuts(IdsOf(sheet), cs)
  BY <1>1, SheetsAreCut DEF Shapes, ChunkList
<1>3. chunk \in 1 .. n /\ Current = cs[chunk] BY <1>1, <1>2 DEF Shapes, Current
<1>4. Past = UNION {IdsOf(cs[k]) : k \in 1 .. (chunk - 1)} BY <1>1 DEF Past
<1>5. \A k \in 1 .. (chunk - 1) : IdsOf(cs[k]) \cap IdsOf(cs[chunk]) = {} BY <1>2, <1>3 DEF Cuts
<1>6. Past \cap IdsOf(Current) = {} BY <1>3, <1>4, <1>5
<1>7. ASSUME sheet' = sheet, chunk' = chunk + 1 PROVE Past' = Past \cup IdsOf(Current)
  <2>0. cs = ChunksOf[sheet] /\ sheet' = sheet /\ chunk' = chunk + 1 BY <1>1, <1>7 DEF ChunkList
  <2>1. Past' = UNION {IdsOf(cs[k]) : k \in 1 .. (chunk + 1 - 1)}
    <3>1. \A q : q \in Past' <=> \E k \in 1 .. (chunk' - 1) : \E i \in DOMAIN ChunksOf[sheet'][k] :
                                    q = ChunksOf[sheet'][k][i].id
      BY DEF Past, IdsOf, ChunkList
    <3>2. \A q : q \in Past' <=> \E k \in 1 .. (chunk + 1 - 1) : \E i \in DOMAIN cs[k] : q = cs[k][i].id
      BY <1>3, <2>0, <3>1
    <3>3. \A q : q \in Past' <=> \E k \in 1 .. (chunk + 1 - 1) : q \in IdsOf(cs[k])
      BY <3>2 DEF IdsOf
    <3> QED BY <3>3
  <2>2. 1 .. (chunk + 1 - 1) = (1 .. (chunk - 1)) \cup {chunk} BY <1>3
  <2> QED BY <1>3, <1>4, <2>1, <2>2
<1> QED BY <1>6, <1>7

\* What is behind is counted, and is all there is once no chunk is left.
LEMMA PastCounted ==
  ASSUME Shapes
  PROVE  /\ Past \subseteq SheetIds /\ IsFiniteSet(SheetIds)
         /\ chunk = Len(ChunkList) + 1 => Past = SheetIds
<1>1. PICK cs : cs = ChunkList OBVIOUS
<1>2. PICK n \in Nat : DOMAIN cs = 1 .. n /\ Len(cs) = n /\ Cuts(IdsOf(sheet), cs)
  BY <1>1, SheetsAreCut DEF Shapes, ChunkList
<1>3. chunk \in 1 .. (n + 1) BY <1>1, <1>2 DEF Shapes
<1>4. Past = UNION {IdsOf(cs[k]) : k \in 1 .. (chunk - 1)} BY <1>1 DEF Past
<1>5. SheetIds = IdsOf(sheet) BY DEF SheetIds, IdsOf
<1>6. Past \subseteq SheetIds
  <2>1. \A k \in 1 .. (chunk - 1) : IdsOf(cs[k]) \subseteq IdsOf(sheet) BY <1>2, <1>3 DEF Cuts
  <2> QED BY <1>4, <1>5, <2>1
<1>7. IsFiniteSet(SheetIds)
  <2>1. PICK s : s \in Seq(Question) /\ DistinctIds(s) /\ s = sheet BY SheetsAreCut DEF Shapes
  <2>2. IsFiniteSet(IdsOf(s)) BY <2>1, IdsCounted
  <2> QED BY <1>5, <2>1, <2>2
<1>8. ASSUME chunk = Len(ChunkList) + 1 PROVE Past = SheetIds
  <2>1. chunk - 1 = n BY <1>1, <1>2, <1>8
  <2>2. \A q \in IdsOf(sheet) : \E k \in 1 .. n : q \in IdsOf(cs[k]) BY <1>2 DEF Cuts
  <2> QED BY <1>4, <1>5, <1>6, <2>1, <2>2
<1> QED BY <1>6, <1>7, <1>8

\* The end of a chunk adds its answers to what is stored.
LEMMA StoredGrows ==
  ASSUME Shapes, Asking, EndChunk, ~expired
  PROVE  Stored' = Stored \cup Answered /\ Answered \subseteq IdsOf(Current)
<1>1. /\ status = "running" /\ sheet' = sheet
      /\ stored' = [q \in SheetIds |-> IF q \in Answered THEN NormalizeResult(Answer(q)) ELSE stored[q]]
  BY AnswersStored, Zenon
<1>2. SheetIds' = SheetIds BY <1>1 DEF SheetIds
<1>3. Answered \subseteq IdsOf(Current) /\ IdsOf(Current) \subseteq SheetIds BY <1>1, Here DEF Answered
<1>4. ASSUME NEW q \in Answered PROVE stored'[q] # NoReply
  <2>1. IsResult(Answer(q)) BY <1>1, AnswersAreReplies DEF Answered, IsReply
  <2>2. NormalizeResult(Answer(q)) # NoReply BY <2>1, ResultFacts
  <2> QED BY <1>1, <1>3, <2>2
<1>5. \A q \in SheetIds : q \notin Answered => stored'[q] = stored[q] BY <1>1
<1>6. Stored' = {q \in SheetIds : stored'[q] # NoReply} BY <1>2 DEF Stored
<1> QED BY <1>3, <1>4, <1>5, <1>6 DEF Stored

LEMMA EndAccounted ==
  ASSUME Shapes, Asking, Accounted, EndChunk
  PROVE  Accounted'
<1>1. status = "running" /\ sheet' = sheet BY AnswersStored
<1>2. ChunkList' = ChunkList /\ SheetIds' = SheetIds BY <1>1 DEF ChunkList, SheetIds
<1>3. PICK n \in Nat : Len(ChunkList) = n /\ chunk \in 1 .. n
  BY <1>1, SheetsAreCut DEF Shapes, ChunkList
<1>4. CASE expired
  <2>1. status' = "failed" /\ chunk' = chunk /\ stored' = stored /\ progress' = progress
    BY <1>4, AnswersStored
  <2>2. Past' = Past /\ Stored' = Stored BY <1>1, <1>2, <2>1, SameChunk DEF Stored
  <2> QED BY <2>1, <2>2 DEF Accounted
<1>5. CASE ~expired
  <2>1. /\ chunk' = chunk + 1 /\ IsFiniteSet(Answered) /\ Cardinality(Answered) \in Nat
        /\ progress' = [done   |-> progress.done + Cardinality(Answered),
                        failed |-> progress.failed + Len(Current) - Cardinality(Answered)]
    BY <1>5, AnswersStored, Zenon
  <2>2. Stored' = Stored \cup Answered /\ Answered \subseteq IdsOf(Current) BY <1>5, StoredGrows
  <2>3. Past \cap IdsOf(Current) = {} /\ Past' = Past \cup IdsOf(Current) BY <1>1, <2>1, PastGrows
  <2>4. Stored \subseteq Past /\ Past \subseteq SheetIds /\ IsFiniteSet(SheetIds)
    BY PastCounted DEF Accounted
  <2>5. /\ IsFiniteSet(IdsOf(Current)) /\ Cardinality(IdsOf(Current)) = Len(Current)
        /\ Len(Current) \in Nat
    BY <1>1, Here
  <2>6. PICK S, A, P, I : S = Stored /\ A = Answered /\ P = Past /\ I = IdsOf(Current) OBVIOUS
  <2>7. IsFiniteSet(P) /\ IsFiniteSet(S)
    <3>1. PICK X : X = SheetIds OBVIOUS
    <3>2. IsFiniteSet(X) /\ P \in SUBSET X /\ S \in SUBSET X BY <2>4, <2>6, <3>1
    <3> QED BY <3>2, FS_Subset
  <2>8. Cardinality(S \cup A) = Cardinality(S) + Cardinality(A)
    <3>1. S \cap A = {} BY <2>2, <2>3, <2>4, <2>6
    <3>2. Cardinality(S \cup A) = Cardinality(S) + Cardinality(A) - Cardinality(S \cap A)
      BY <2>1, <2>6, <2>7, FS_Union
    <3>3. Cardinality(S \cap A) = 0 BY <3>1, FS_EmptySet
    <3>4. Cardinality(S) \in Nat /\ Cardinality(A) \in Nat BY <2>1, <2>6, <2>7, FS_CardinalityType
    <3> QED BY <3>2, <3>3, <3>4
  <2>9. Cardinality(P \cup I) = Cardinality(P) + Cardinality(I)
    <3>1. P \cap I = {} BY <2>3, <2>6
    <3>2. Cardinality(P \cup I) = Cardinality(P) + Cardinality(I) - Cardinality(P \cap I)
      BY <2>5, <2>6, <2>7, FS_Union
    <3>3. Cardinality(P \cap I) = 0 BY <3>1, FS_EmptySet
    <3>4. Cardinality(P) \in Nat /\ Cardinality(I) \in Nat BY <2>5, <2>6, <2>7, FS_CardinalityType
    <3> QED BY <3>2, <3>3, <3>4
  <2>10. progress'.done = Cardinality(Stored')
    <3>1. progress'.done = progress.done + Cardinality(Answered) BY <2>1
    <3>2. progress.done = Cardinality(Stored) BY DEF Accounted
    <3> QED BY <2>2, <2>6, <2>8, <3>1, <3>2
  <2>11. Stored' \subseteq Past' BY <2>2, <2>3, <2>4
  <2>12. progress'.done + progress'.failed = Cardinality(Past')
    <3>1. PICK d \in Nat, f \in Nat : d = progress.done /\ f = progress.failed BY DEF Shapes
    <3>2. PICK a \in Nat, len \in Nat : a = Cardinality(Answered) /\ len = Len(Current) BY <2>1, <2>5
    <3>3. progress'.done = d + a /\ progress'.failed = f + len - a BY <2>1, <3>1, <3>2
    <3>4. d + f = Cardinality(Past) BY <3>1 DEF Accounted
    <3>5. Cardinality(Past') = Cardinality(Past) + len BY <2>3, <2>5, <2>6, <2>9, <3>2
    <3> QED BY <3>3, <3>4, <3>5
  <2>13. ASSUME status' = "reviewed" PROVE chunk' = Len(ChunkList') + 1 /\ Stored' # {}
    <3>1. ~(chunk < Len(ChunkList)) BY <1>1, <1>5, <2>13, AnswersStored
    <3>2. status' = IF \A q \in SheetIds : stored'[q] = NoReply THEN "failed" ELSE "reviewed"
      BY <1>5, <3>1, AnswersStored, Zenon
    <3>3. \E q \in SheetIds : stored'[q] # NoReply BY <2>13, <3>2
    <3> QED BY <1>2, <1>3, <2>1, <3>1, <3>3 DEF Stored
  <2> QED BY <2>10, <2>11, <2>12, <2>13 DEF Accounted
<1> QED BY <1>4, <1>5

\* The other steps store and count nothing.
LEMMA StayAccounted ==
  ASSUME Shapes, Asking, Accounted, [Next]_vars
  PROVE  Accounted'
<1>1. CASE EndChunk BY <1>1, EndAccounted
<1>2. CASE /\ sheet' = sheet /\ chunk' = chunk /\ stored' = stored /\ progress' = progress
           /\ status' = status
  <2>1. Past' = Past /\ ChunkList' = ChunkList /\ Stored' = Stored BY <1>2, SameChunk DEF Stored
  <2> QED BY <1>2, <2>1 DEF Accounted
<1>3. CASE \E o \in Failures : Fail(o) BY <1>2, <1>3 DEF Fail
<1>4. CASE BatchSaid
  <2>1. PICK r \in BatchTalk[Current] : SayBatch(r, BatchRead[r].taken, BatchRead[r].full)
    BY <1>4 DEF BatchSaid
  <2> QED BY <1>2, <2>1, BatchTaken
<1>5. CASE SingleSaid BY <1>2, <1>5 DEF SingleSaid, SaySingle
<1>6. CASE Expire BY <1>2, <1>6 DEF Expire
<1>7. CASE UNCHANGED vars BY <1>2, <1>7 DEF vars
<1> QED BY <1>1, <1>3, <1>4, <1>5, <1>6, <1>7, Steps

LEMMA InitAccounted ==
  ASSUME Init
  PROVE  Accounted
<1>1. /\ stored = [q \in SheetIds |-> NoReply] /\ progress = [done |-> 0, failed |-> 0]
      /\ chunk = 1 /\ status = "running"
  BY DEF Init
<1>2. Stored = {} BY <1>1 DEF Stored
<1>3. 1 .. (chunk - 1) = {} BY <1>1
<1>4. Past = {} BY <1>3 DEF Past
<1>5. Cardinality({}) = 0 BY FS_EmptySet
<1> QED BY <1>1, <1>2, <1>4, <1>5 DEF Accounted

\* The counts of a run are those of its results, and no question goes uncounted.
THEOREM NoQuestionIsDropped == Spec => []EveryQuestionIsAccountedFor
<1>1. Init => Accounted BY InitAccounted
<1>2. Shapes /\ Asking /\ Accounted /\ [Next]_vars => Accounted' BY StayAccounted
<1>3. ASSUME Shapes, Accounted PROVE EveryQuestionIsAccountedFor
  <2>1. status = "reviewed" => Past = SheetIds /\ Stored # {} BY <1>3, PastCounted DEF Accounted
  <2> QED BY <1>3, <2>1 DEF Accounted, EveryQuestionIsAccountedFor
<1>4. Shapes /\ Accounted => EveryQuestionIsAccountedFor BY <1>3
<1> QED BY <1>1, <1>2, <1>4, TypesHold, PTL DEF Spec

(***************************************************************************)
(* What was said is what is stored                                         *)
(***************************************************************************)
\* A reply to the batch leaves an answer to all it says in full, and to nothing else.
LEMMA BatchKept ==
  ASSUME ReaderKeeps, Shapes, Asking, Kept, BatchSaid
  PROVE  Kept'
<1>1. PICK r \in BatchTalk[Current] : SayBatch(r, BatchRead[r].taken, BatchRead[r].full) BY DEF BatchSaid
<1>2. PICK p, full : p = BatchRead[r].taken /\ full = BatchRead[r].full OBVIOUS
<1>3. /\ status = "running" /\ call.kind = "batch" /\ sheet' = sheet /\ chunk' = chunk
      /\ singles' = singles /\ DOMAIN batch' = IdsOf(Current)
      /\ \/ /\ p.read
            /\ batch' = [q \in IdsOf(Current) |-> IF q \in DOMAIN p.replies THEN p.replies[q] ELSE NoReply]
         \/ ~p.read /\ batch' = batch
  BY <1>1, <1>2, BatchTaken
<1>4. IdsOf(Current)' = IdsOf(Current) BY <1>3, SameChunk
<1>5. /\ heard' = [q \in SheetIds |-> heard[q] \cup
                     {Numeral[r.said[i].say.score] : i \in {k \in full : r.said[k].id = q}}]
      /\ vague' = vague \cup {r.said[i].id : i \in DOMAIN r.said \ full}
  BY <1>1, <1>2, Zenon DEF SayBatch
<1>6. Current \in AllChunks /\ IdsOf(Current) \subseteq SheetIds BY <1>3, Here
<1>7. /\ full # {} => p.read
      /\ \A i \in full : r.said[i].id \in DOMAIN p.replies
      /\ \A q \in DOMAIN p.replies \cap IdsOf(Current) : \E i \in DOMAIN r.said :
           /\ r.said[i].id = q
           /\ i \in full => p.replies[q].score = ClampRiskScore(Numeral[r.said[i].say.score])
  BY <1>1, <1>2, <1>6, Zenon DEF ReaderKeeps
<1>8. \A q \in DOMAIN p.replies : p.replies[q] # NoReply BY <1>1, <1>2, <1>6, BatchIsRead, ResultFacts
<1>9. \A q \in IdsOf(Current) : batch[q] = NoReply /\ singles[q] = NoReply
  BY <1>3 DEF Asking, Silent
<1>10. ASSUME NEW q \in IdsOf(Current)
       PROVE  /\ Answer(q) = NoReply /\ heard[q] = {} /\ Answer(q)' = batch'[q]
  <2>1. Answer(q) = NoReply BY <1>9 DEF Answer, Settle
  <2>2. heard[q] = {} BY <1>3, <2>1 DEF Kept
  <2>3. singles'[q] = NoReply BY <1>3, <1>9
  <2>4. Answer(q)' = batch'[q] BY <2>3 DEF Answer, Settle
  <2> QED BY <2>1, <2>2, <2>4
<1>11. ASSUME NEW q \in IdsOf(Current)
       PROVE  /\ heard'[q] # {} => batch'[q] # NoReply
              /\ batch'[q] # NoReply => q \in vague' \/ \E x \in heard'[q] : batch'[q].score = ClampRiskScore(x)
  <2>1. heard'[q] = {Numeral[r.said[i].say.score] : i \in {k \in full : r.said[k].id = q}}
    BY <1>5, <1>6, <1>10
  <2>2. CASE ~p.read
    <3>1. full = {} BY <1>7, <2>2
    <3>2. heard'[q] = {} BY <2>1, <3>1
    <3>3. batch'[q] = NoReply BY <1>3, <1>9, <2>2
    <3> QED BY <3>2, <3>3
  <2>3. CASE p.read
    <3>1. batch'[q] = IF q \in DOMAIN p.replies THEN p.replies[q] ELSE NoReply BY <1>3, <2>3
    <3>2. ASSUME heard'[q] # {} PROVE batch'[q] # NoReply
      <4>1. PICK i \in full : r.said[i].id = q BY <2>1, <3>2
      <4>2. q \in DOMAIN p.replies BY <1>7, <4>1
      <4> QED BY <1>8, <3>1, <4>2
    <3>3. ASSUME batch'[q] # NoReply
          PROVE  q \in vague' \/ \E x \in heard'[q] : batch'[q].score = ClampRiskScore(x)
      <4>1. q \in DOMAIN p.replies /\ batch'[q] = p.replies[q] BY <3>1, <3>3
      <4>2. PICK i \in DOMAIN r.said : /\ r.said[i].id = q
                                       /\ i \in full => p.replies[q].score = ClampRiskScore(Numeral[r.said[i].say.score])
        BY <1>7, <4>1
      <4>3. CASE i \in full
        <5>1. Numeral[r.said[i].say.score] \in heard'[q] BY <2>1, <4>2, <4>3
        <5> QED BY <4>1, <4>2, <4>3, <5>1
      <4>4. CASE i \notin full BY <1>5, <4>2, <4>4
      <4> QED BY <4>3, <4>4
    <3> QED BY <3>2, <3>3
  <2> QED BY <2>2, <2>3
<1> QED BY <1>4, <1>10, <1>11 DEF Kept

\* The reply to a single question makes its answer if it is read, and leaves the others.
LEMMA SingleKept ==
  ASSUME ReaderKeeps, Shapes, Asking, Kept, SingleSaid
  PROVE  Kept'
<1>1. PICK r \in SingleTalk[Current[call.at].id] : SaySingle(r) BY DEF SingleSaid
<1>2. PICK q : q = Current[call.at].id OBVIOUS
<1>3. PICK full \in BOOLEAN : full = (r.shape = "object" /\ r.cut = 0) OBVIOUS
<1>4. PICK x : x = Numeral[r.said[1].say.score] OBVIOUS
<1>5. /\ status = "running" /\ call.kind = "single" /\ sheet' = sheet /\ chunk' = chunk /\ batch' = batch
      /\ singles' = [singles EXCEPT ![q] = SingleRead[r]]
      /\ heard' = IF full THEN [heard EXCEPT ![q] = @ \cup {x}] ELSE heard
      /\ vague' = IF full THEN vague \ {q} ELSE vague \cup {q}
  BY <1>1, <1>2, <1>3, <1>4, Zenon DEF SaySingle
<1>6. IdsOf(Current)' = IdsOf(Current) BY <1>5, SameChunk
<1>7. /\ q \in IdsOf(Current) /\ IdsOf(Current) \subseteq SheetIds /\ q \in Ids
      /\ singles[q] = NoReply /\ NeedsFollowUp(batch[q]) /\ DOMAIN singles = IdsOf(Current)
  <2>1. call.at \in DOMAIN Current /\ call.at \in Nat BY <1>5 DEF Asking, Calls
  <2>2. q \in IdsOf(Current) /\ Current \in Seq(Question) /\ IdsOf(Current) \subseteq SheetIds
    BY <1>2, <1>5, <2>1, Here
  <2>3. PICK u \in Question : u = Current[call.at] BY <2>1, <2>2
  <2>4. singles[q] = NoReply /\ NeedsFollowUp(batch[q]) /\ DOMAIN singles = IdsOf(Current)
    BY <1>2, <1>5, <2>1 DEF Asking
  <2> QED BY <1>2, <2>2, <2>3, <2>4 DEF Question
<1>8. full => SingleRead[r] # NoReply /\ SingleRead[r].score = ClampRiskScore(x)
  BY <1>1, <1>2, <1>3, <1>4, <1>7 DEF ReaderKeeps
<1>9. DOMAIN heard = SheetIds BY DEF Shapes
<1>10. ASSUME NEW u \in IdsOf(Current), u # q
       PROVE  Answer(u)' = Answer(u) /\ heard'[u] = heard[u] /\ (u \in vague => u \in vague')
  <2>1. singles'[u] = singles[u] BY <1>5, <1>7, <1>10
  <2>2. Answer(u)' = Answer(u) BY <1>5, <2>1 DEF Answer
  <2>3. heard'[u] = heard[u] BY <1>5, <1>7, <1>9, <1>10
  <2> QED BY <1>5, <1>10, <2>2, <2>3
<1>11. Answer(q) = batch[q] BY <1>7 DEF Answer, Settle
<1>12. Answer(q)' = IF SingleRead[r] # NoReply THEN SingleRead[r] ELSE batch[q]
  <2>1. singles'[q] = SingleRead[r] /\ batch'[q] = batch[q] BY <1>5, <1>7
  <2>2. PICK b, s : b = batch[q] /\ s = SingleRead[r] OBVIOUS
  <2>3. Answer(q)' = Settle(b, s) BY <2>1, <2>2 DEF Answer
  <2> QED BY <1>7, <2>2, <2>3 DEF Settle
<1>13. /\ heard'[q] # {} => Answer(q)' # NoReply
       /\ Answer(q)' # NoReply => q \in vague' \/ \E y \in heard'[q] : Answer(q)'.score = ClampRiskScore(y)
  <2>1. CASE full
    <3>1. x \in heard'[q] BY <1>5, <1>7, <1>9, <2>1
    <3> QED BY <1>8, <1>12, <2>1, <3>1
  <2>2. CASE ~full
    <3>1. heard' = heard /\ q \in vague' BY <1>5, <2>2
    <3>2. heard[q] # {} => batch[q] # NoReply BY <1>5, <1>7, <1>11 DEF Kept
    <3> QED BY <1>12, <3>1, <3>2
  <2> QED BY <2>1, <2>2
<1>14. ASSUME NEW u \in IdsOf(Current)
       PROVE  /\ heard'[u] # {} => Answer(u)' # NoReply
              /\ Answer(u)' # NoReply =>
                   u \in vague' \/ \E y \in heard'[u] : Answer(u)'.score = ClampRiskScore(y)
  <2>1. CASE u = q BY <1>13, <2>1
  <2>2. CASE u # q
    <3>1. /\ heard[u] # {} => Answer(u) # NoReply
          /\ Answer(u) # NoReply => u \in vague \/ \E y \in heard[u] : Answer(u).score = ClampRiskScore(y)
      BY <1>5 DEF Kept
    <3> QED BY <1>10, <2>2, <3>1
  <2> QED BY <2>1, <2>2
<1> QED BY <1>6, <1>14 DEF Kept

\* Of a chunk that begins nothing has been heard.
LEMMA EndKept ==
  ASSUME Shapes, Asking, Budget, EndChunk
  PROVE  Kept'
<1>1. CASE status' # "running" BY <1>1 DEF Kept
<1>2. CASE status' = "running"
  <2>1. status = "running" /\ sheet' = sheet /\ ~expired BY <1>2, AnswersStored
  <2>2. chunk' = chunk + 1 /\ heard' = [q \in SheetIds |-> {}] BY <2>1, AnswersStored, Zenon
  <2>3. chunk < Len(ChunkList)
    <3>1. SUFFICES ASSUME ~(chunk < Len(ChunkList)) PROVE FALSE OBVIOUS
    <3>2. status' = IF \A q \in SheetIds : stored'[q] = NoReply THEN "failed" ELSE "reviewed"
      BY <2>1, <3>1, AnswersStored, Zenon
    <3> QED BY <1>2, <3>2
  <2>4. batch' = Silent(ChunkList[chunk + 1]) /\ singles' = Silent(ChunkList[chunk + 1])
    BY <2>1, <2>3, AnswersStored, Zenon
  <2>5. PICK c : c = ChunkList[chunk + 1] OBVIOUS
  <2>6. Current' = c BY <2>1, <2>2, <2>5 DEF Current, ChunkList
  <2>7. Shapes' BY EndTyped
  <2>8. PICK n \in Nat : Len(ChunkList) = n /\ DOMAIN ChunkList = 1 .. n /\ Cuts(IdsOf(sheet), ChunkList)
    BY SheetsAreCut DEF Shapes, ChunkList
  <2>9. chunk \in Nat /\ chunk + 1 \in DOMAIN ChunkList BY <2>1, <2>3, <2>8 DEF Shapes
  <2>10. IdsOf(c) \subseteq IdsOf(sheet) BY <2>5, <2>8, <2>9 DEF Cuts
  <2>11. SheetIds = IdsOf(sheet) BY DEF SheetIds, IdsOf
  <2>12. \A q \in IdsOf(c) : heard'[q] = {} /\ batch'[q] = NoReply /\ singles'[q] = NoReply
    BY <2>2, <2>4, <2>5, <2>10, <2>11 DEF Silent
  <2>13. \A q \in IdsOf(c) : Answer(q)' = NoReply BY <2>12 DEF Answer, Settle
  <2>14. IdsOf(Current)' = IdsOf(c) BY <2>6 DEF IdsOf
  <2> QED BY <2>12, <2>13, <2>14 DEF Kept
<1> QED BY <1>1, <1>2

LEMMA StayKept ==
  ASSUME ReaderKeeps, Shapes, Asking, Budget, Kept, [Next]_vars
  PROVE  Kept'
<1>1. CASE EndChunk BY <1>1, EndKept
<1>2. CASE BatchSaid BY <1>2, BatchKept
<1>3. CASE SingleSaid BY <1>3, SingleKept
<1>4. CASE /\ sheet' = sheet /\ chunk' = chunk /\ batch' = batch /\ singles' = singles
           /\ heard' = heard /\ vague' = vague /\ status' = status
  <2>1. IdsOf(Current)' = IdsOf(Current) BY <1>4, SameChunk
  <2> QED BY <1>4, <2>1 DEF Kept, Answer
<1>5. CASE \E o \in Failures : Fail(o)
  <2>1. PICK o \in Failures : Fail(o) BY <1>5
  <2>2. batch' = batch /\ singles' = singles BY <2>1 DEF Fail, GiveUp
  <2> QED BY <1>4, <2>1, <2>2 DEF Fail
<1>6. CASE Expire BY <1>4, <1>6 DEF Expire
<1>7. CASE UNCHANGED vars BY <1>4, <1>7 DEF vars
<1> QED BY <1>1, <1>2, <1>3, <1>5, <1>6, <1>7, Steps

LEMMA InitKept ==
  ASSUME Init
  PROVE  Kept
<1>1. /\ batch = Silent(Current) /\ singles = Silent(Current) /\ heard = [q \in SheetIds |-> {}]
      /\ status = "running"
  BY DEF Init
<1>2. IdsOf(Current) \subseteq SheetIds BY <1>1, InitTyped, Here
<1>3. \A q \in IdsOf(Current) : heard[q] = {} /\ batch[q] = NoReply /\ singles[q] = NoReply
  BY <1>1, <1>2 DEF Silent
<1>4. \A q \in IdsOf(Current) : Answer(q) = NoReply BY <1>3 DEF Answer, Settle
<1> QED BY <1>3, <1>4 DEF Kept

LEMMA KeptHolds ==
  ASSUME ReaderKeeps
  PROVE  Spec => []Kept
<1>1. Init => Kept BY InitKept
<1>2. Shapes /\ Asking /\ Budget /\ Kept /\ [Next]_vars => Kept' BY StayKept
<1> QED BY <1>1, <1>2, TypesHold, PTL DEF Spec

\* A chunk goes by, and what is stored changes, only where a chunk ends in time.
LEMMA OnlyEndsStore ==
  ASSUME Shapes, Asking, [Next]_vars, chunk' # chunk \/ stored' # stored
  PROVE  EndChunk /\ ~expired
<1>1. EndChunk
  <2>1. CASE \E o \in Failures : Fail(o) BY <2>1 DEF Fail
  <2>2. CASE BatchSaid
    <3>1. PICK r \in BatchTalk[Current] : SayBatch(r, BatchRead[r].taken, BatchRead[r].full)
      BY <2>2 DEF BatchSaid
    <3> QED BY <3>1, BatchTaken
  <2>3. CASE SingleSaid BY <2>3 DEF SingleSaid, SaySingle
  <2>4. CASE Expire BY <2>4 DEF Expire
  <2>5. CASE UNCHANGED vars BY <2>5 DEF vars
  <2> QED BY <2>1, <2>2, <2>3, <2>4, <2>5, Steps
<1>2. ~expired BY <1>1, AnswersStored
<1> QED BY <1>1, <1>2

\* What the provider said in full is on record when its chunk is, whatever became of the
\* rest of the reply and of the calls after it.
THEOREM NoAnswerIsLost ==
  ASSUME ReaderKeeps
  PROVE  Spec => AnswersAreNotLost
<1>1. ASSUME Shapes, Asking, Kept, [Next]_vars
      PROVE  [chunk' # chunk => \A q \in IdsOf(Current) : heard[q] # {} => stored'[q] # NoReply]_vars
  <2>1. SUFFICES ASSUME chunk' # chunk, NEW q \in IdsOf(Current), heard[q] # {}
                 PROVE  stored'[q] # NoReply
    OBVIOUS
  <2>2. EndChunk /\ ~expired BY <1>1, <2>1, OnlyEndsStore
  <2>3. /\ status = "running"
        /\ stored' = [u \in SheetIds |-> IF u \in Answered THEN NormalizeResult(Answer(u)) ELSE stored[u]]
    BY <1>1, <2>2, AnswersStored, Zenon
  <2>4. q \in Answered /\ q \in SheetIds BY <1>1, <2>1, <2>3, Here DEF Kept, Answered
  <2>5. IsResult(Answer(q)) BY <1>1, <2>1, <2>3, <2>4, AnswersAreReplies DEF Answered, IsReply
  <2>6. NormalizeResult(Answer(q)) # NoReply BY <2>5, ResultFacts
  <2> QED BY <2>3, <2>4, <2>6
<1>2. Shapes /\ Asking /\ Kept /\ [Next]_vars =>
        [chunk' # chunk => \A q \in IdsOf(Current) : heard[q] # {} => stored'[q] # NoReply]_vars
  BY <1>1
<1> QED BY <1>2, TypesHold, KeptHolds, PTL DEF Spec, AnswersAreNotLost

\* No score is made up where the reply was whole and of the shape asked for.
THEOREM NoScoreIsMadeUp ==
  ASSUME ReaderKeeps
  PROVE  Spec => ScoresAreSaid
<1>1. ASSUME Shapes, Asking, Kept, [Next]_vars
      PROVE  [\A q \in SheetIds : stored'[q] # stored[q] =>
                q \in vague \/ \E x \in heard[q] : stored'[q].score = ClampRiskScore(x)]_vars
  <2>1. SUFFICES ASSUME NEW q \in SheetIds, stored'[q] # stored[q]
                 PROVE  q \in vague \/ \E x \in heard[q] : stored'[q].score = ClampRiskScore(x)
    OBVIOUS
  <2>2. EndChunk /\ ~expired BY <1>1, <2>1, OnlyEndsStore
  <2>3. /\ status = "running"
        /\ stored' = [u \in SheetIds |-> IF u \in Answered THEN NormalizeResult(Answer(u)) ELSE stored[u]]
    BY <1>1, <2>2, AnswersStored, Zenon
  <2>4. q \in Answered /\ stored'[q] = NormalizeResult(Answer(q)) BY <2>1, <2>3
  <2>5. q \in IdsOf(Current) /\ Answer(q) # NoReply BY <2>4 DEF Answered
  <2>6. q \in vague \/ \E x \in heard[q] : Answer(q).score = ClampRiskScore(x)
    BY <1>1, <2>3, <2>5 DEF Kept
  <2>7. IsResult(Answer(q)) BY <1>1, <2>3, <2>5, AnswersAreReplies DEF IsReply
  <2>8. NormalizeResult(Answer(q)).score = Answer(q).score BY <2>7, ResultFacts
  <2> QED BY <2>4, <2>6, <2>8
<1>2. Shapes /\ Asking /\ Kept /\ [Next]_vars =>
        [\A q \in SheetIds : stored'[q] # stored[q] =>
           q \in vague \/ \E x \in heard[q] : stored'[q].score = ClampRiskScore(x)]_vars
  BY <1>1
<1> QED BY <1>2, TypesHold, KeptHolds, PTL DEF Spec, ScoresAreSaid

(***************************************************************************)
(* A backend that refuses response_format                                  *)
(***************************************************************************)
\* A reply to a batch speaks of the chunk's questions, in their order.
LEMMA RepliesAreAbout ==
  ASSUME NEW c, c \in AllChunks, c \in Seq(Question), NEW r \in BatchTalk[c]
  PROVE  /\ DOMAIN r.said \subseteq DOMAIN c /\ \A i \in DOMAIN r.said : r.said[i].id = c[i].id
         /\ SaidInFull(r) \subseteq DOMAIN r.said
<1> DEFINE about(f) == [i \in DOMAIN c |-> [id |-> c[i].id, say |-> f[i]]]
           usual    == about([i \in DOMAIN c |-> Usual])
           plain    == Reply(usual, "results", "plain")
<1>1. PICK n \in Nat : DOMAIN c = 1 .. n /\ n = Len(c) OBVIOUS
<1>2. r \in BatchReplies(c) BY DEF BatchTalk
<1>3. \/ \E f \in [DOMAIN c -> Says] : r = Reply(about(f), "results", "plain")
      \/ r = Reply(Front(usual), "results", "plain") \/ r = Reply(usual, "array", "plain")
      \/ \E wrap \in {"fenced", "thought", "cited"} : r = Reply(usual, "results", wrap)
      \/ \E m \in 1 .. (Len(Whole(plain)) - 1) : r = [plain EXCEPT !.cut = m]
  BY <1>2 DEF BatchReplies
<1>4. PICK u, v : u = usual /\ v = Front(u) OBVIOUS
<1>5. r.said = u \/ r.said = v \/ \E f \in [DOMAIN c -> Says] : r.said = about(f)
  <2>1. ASSUME NEW said, NEW shape, NEW wrap PROVE Reply(said, shape, wrap).said = said BY DEF Reply
  <2>2. CASE \E f \in [DOMAIN c -> Says] : r = Reply(about(f), "results", "plain")
    <3>1. PICK f \in [DOMAIN c -> Says] : r = Reply(about(f), "results", "plain") BY <2>2
    <3>2. r.said = about(f) BY <2>1, <3>1
    <3> QED BY <3>2
  <2>3. CASE r = Reply(v, "results", "plain") \/ r = Reply(u, "array", "plain") BY <2>1, <2>3
  <2>4. CASE \E wrap \in {"fenced", "thought", "cited"} : r = Reply(u, "results", wrap)
    <3>1. PICK wrap : r = Reply(u, "results", wrap) BY <2>4
    <3>2. r.said = u BY <2>1, <3>1
    <3> QED BY <3>2
  <2>5. CASE \E m \in 1 .. (Len(Whole(plain)) - 1) : r = [plain EXCEPT !.cut = m]
    <3>1. PICK m : r = [plain EXCEPT !.cut = m] BY <2>5
    <3>2. PICK w : w = plain /\ w = Reply(u, "results", "plain") BY <1>4
    <3>3. r = [w EXCEPT !.cut = m] /\ w.said = u BY <2>1, <3>1, <3>2
    <3>4. r.said = w.said BY <3>2, <3>3 DEF Reply
    <3> QED BY <3>3, <3>4
  <2> QED BY <1>3, <1>4, <2>2, <2>3, <2>4, <2>5
<1>6. ASSUME NEW f PROVE DOMAIN about(f) = 1 .. n /\ \A i \in 1 .. n : about(f)[i].id = c[i].id BY <1>1
<1>7. DOMAIN u = 1 .. n /\ (\A i \in 1 .. n : u[i].id = c[i].id) /\ u = [i \in 1 .. n |-> u[i]]
  <2>1. u = about([i \in DOMAIN c |-> Usual]) BY <1>4
  <2> HIDE DEF usual
  <2> QED BY <1>1, <1>6, <2>1
<1> HIDE DEF about, usual, plain
<1>8. DOMAIN v = 1 .. (n - 1) /\ \A i \in 1 .. (n - 1) : v[i].id = c[i].id
  <2>1. PICK X : X = {u[i] : i \in 1 .. n} OBVIOUS
  <2>2. u \in Seq(X) /\ Len(u) = n BY <1>7, <2>1
  <2>3. v = SubSeq(u, 1, n - 1) BY <1>4, <2>2 DEF Front
  <2>4. DOMAIN v = 1 .. (n - 1) /\ \A i \in 1 .. (n - 1) : v[i] = u[i] BY <2>2, <2>3
  <2>5. \A i \in 1 .. (n - 1) : i \in 1 .. n OBVIOUS
  <2> QED BY <1>7, <2>4, <2>5, Zenon
<1>9. SaidInFull(r) \subseteq DOMAIN r.said BY DEF SaidInFull
<1>10. DOMAIN r.said \subseteq 1 .. n /\ \A i \in DOMAIN r.said : r.said[i].id = c[i].id
  <2>1. CASE r.said = u BY <1>7, <2>1
  <2>2. CASE r.said = v BY <1>8, <2>2
  <2>3. CASE \E f \in [DOMAIN c -> Says] : r.said = about(f)
    <3>1. PICK f : r.said = about(f) BY <2>3
    <3> QED BY <1>6, <3>1
  <2> QED BY <1>5, <2>1, <2>2, <2>3
<1> QED BY <1>1, <1>9, <1>10

LEMMA FailLucky ==
  ASSUME MaxRetries > 0, Shapes, Asking, Lucky, NEW o, Fail(o)
  PROVE  Lucky'
<1>1. SUFFICES ASSUME provider'.rejects, ~unlucky' PROVE Lucky' BY DEF Lucky
<1>2. /\ status = "running" /\ call # NoCall
      /\ UNCHANGED <<sheet, provider, chunk, progress, expired, status>>
      /\ unlucky' = (unlucky \/ ~(provider.rejects /\ call.json /\ o = "bad request"))
  BY DEF Fail
<1>3. ~unlucky /\ provider.rejects /\ call.json /\ o = "bad request" BY <1>1, <1>2 DEF Shapes
<1>4. ~expired /\ progress.failed = 0 /\ call.round = 1 /\ call.attempt = 0 BY <1>2, <1>3 DEF Lucky
<1>5. Retryable(o) /\ AttemptsLeft BY <1>3, <1>4, BoundAssumption DEF Retryable, AttemptsLeft
<1>6. call' = [call EXCEPT !.attempt = @ + 1, !.json = JSONMode(o)] /\ batch' = batch
  BY <1>4, <1>5 DEF Fail
<1>7. ~JSONMode(o) BY <1>3, ProviderAssumption DEF JSONMode, Shapes
<1>8. call'.round = 1 /\ call'.kind = call.kind /\ ~call'.json
  <2>1. call \in Calls BY <1>2 DEF Asking
  <2> QED BY <1>4, <1>6, <1>7, <2>1 DEF Calls
<1>9. IdsOf(Current)' = IdsOf(Current) BY <1>2, SameChunk
<1>10. call.kind # "batch" => \A q \in IdsOf(Current) : batch[q] # NoReply BY <1>2, <1>3 DEF Lucky
<1> QED BY <1>2, <1>4, <1>6, <1>8, <1>9, <1>10 DEF Lucky

LEMMA BatchLucky ==
  ASSUME ReaderKeeps, Shapes, Asking, Lucky, BatchSaid
  PROVE  Lucky'
<1>1. SUFFICES ASSUME provider'.rejects, ~unlucky' PROVE Lucky' BY DEF Lucky
<1>2. PICK r \in BatchTalk[Current] : SayBatch(r, BatchRead[r].taken, BatchRead[r].full) BY DEF BatchSaid
<1>3. PICK p, full : p = BatchRead[r].taken /\ full = BatchRead[r].full OBVIOUS
<1>4. /\ status = "running" /\ call.kind = "batch" /\ sheet' = sheet /\ provider' = provider /\ chunk' = chunk
      /\ progress' = progress /\ expired' = expired /\ status' = status
      /\ p.read => /\ GoOn(batch', 0)
                   /\ batch' = [q \in IdsOf(Current) |-> IF q \in DOMAIN p.replies THEN p.replies[q] ELSE NoReply]
  BY <1>2, <1>3, BatchTaken
<1>5. unlucky' = (unlucky \/ Cardinality(full) < Len(Current)
                          \/ \E i \in DOMAIN r.said : r.said[i].say # Usual)
  BY <1>2, <1>3, Zenon DEF SayBatch
<1>6. ~unlucky /\ ~(Cardinality(full) < Len(Current)) BY <1>1, <1>5 DEF Shapes
<1>7. PICK c : c = Current OBVIOUS
<1>8. /\ c \in AllChunks /\ c \in Seq(Question) /\ Len(c) \in Nat \ {0} /\ DOMAIN c = 1 .. Len(c)
      /\ \A q \in IdsOf(c) : \E i \in DOMAIN c : q = c[i].id
  BY <1>4, <1>7, Here
<1>9. full = DOMAIN c /\ \A i \in DOMAIN c : r.said[i].id = c[i].id
  <2>1. full = SaidInFull(r) BY <1>2, <1>3, <1>7, <1>8, BatchIsRead
  <2>2. /\ DOMAIN r.said \subseteq DOMAIN c /\ \A i \in DOMAIN r.said : r.said[i].id = c[i].id
        /\ full \subseteq DOMAIN r.said
    BY <1>2, <1>7, <1>8, <2>1, RepliesAreAbout
  <2>3. PICK n \in Nat : n = Len(c) BY <1>8
  <2>4. IsFiniteSet(1 .. n) /\ Cardinality(1 .. n) = n BY UpToN
  <2>5. full \in SUBSET (1 .. n) BY <1>8, <2>2, <2>3
  <2>6. /\ IsFiniteSet(full) /\ Cardinality(full) <= n
        /\ Cardinality(1 .. n) = Cardinality(full) => 1 .. n = full
    BY <2>4, <2>5, FS_Subset
  <2>7. Cardinality(full) \in Nat BY <2>6, FS_CardinalityType
  <2>8. full = 1 .. n BY <1>6, <1>7, <2>3, <2>4, <2>6, <2>7
  <2> QED BY <1>8, <2>2, <2>3, <2>8
<1>10. /\ full # {} => p.read
       /\ \A i \in full : r.said[i].id \in DOMAIN p.replies
  BY <1>2, <1>3, <1>7, <1>8, Zenon DEF ReaderKeeps
<1>11. p.read
  <2>1. 1 \in full BY <1>8, <1>9
  <2> QED BY <1>10, <2>1
<1>12. \A q \in DOMAIN p.replies : p.replies[q] # NoReply
  BY <1>2, <1>3, <1>7, <1>8, BatchIsRead, ResultFacts
<1>13. \A q \in IdsOf(c) : q \in DOMAIN p.replies BY <1>8, <1>9, <1>10
<1>14. \A q \in IdsOf(c) : batch'[q] # NoReply BY <1>4, <1>7, <1>11, <1>12, <1>13
<1>15. call'.round = 1 /\ call'.attempt = 0 BY <1>4, <1>11 DEF GoOn, NoCall, Call
<1>16. IdsOf(Current)' = IdsOf(c) BY <1>4, <1>7, SameChunk
<1>17. ~expired /\ progress.failed = 0 BY <1>1, <1>4, <1>6 DEF Lucky
<1> QED BY <1>4, <1>14, <1>15, <1>16, <1>17 DEF Lucky

LEMMA SingleLucky ==
  ASSUME Shapes, Lucky, SingleSaid
  PROVE  Lucky'
<1>1. SUFFICES ASSUME provider'.rejects, ~unlucky' PROVE Lucky' BY DEF Lucky
<1>2. PICK r \in SingleTalk[Current[call.at].id] : SaySingle(r) BY DEF SingleSaid
<1>3. /\ status = "running" /\ call.kind = "single" /\ sheet' = sheet /\ provider' = provider /\ chunk' = chunk
      /\ progress' = progress /\ expired' = expired /\ status' = status /\ batch' = batch
      /\ GoOn(batch, call.at)
  BY <1>2 DEF SaySingle
<1>4. ~unlucky
  <2>1. \E full : unlucky' = (unlucky \/ ~full) BY <1>2 DEF SaySingle
  <2> QED BY <1>1, <2>1 DEF Shapes
<1>5. call'.round = 1 /\ call'.attempt = 0 BY <1>3 DEF GoOn, NoCall, Call
<1>6. IdsOf(Current)' = IdsOf(Current) BY <1>3, SameChunk
<1>7. /\ ~expired /\ progress.failed = 0
      /\ \A q \in IdsOf(Current) : batch[q] # NoReply
  BY <1>1, <1>3, <1>4 DEF Lucky
<1> QED BY <1>3, <1>5, <1>6, <1>7 DEF Lucky

LEMMA EndLucky ==
  ASSUME Shapes, Asking, Lucky, EndChunk
  PROVE  Lucky'
<1>1. SUFFICES ASSUME provider'.rejects, ~unlucky' PROVE Lucky' BY DEF Lucky
<1>2. status = "running" /\ sheet' = sheet /\ provider' = provider /\ expired' = expired /\ unlucky' = unlucky
  BY AnswersStored
<1>3. call = NoCall BY DEF EndChunk
<1>4. /\ ~expired /\ progress.failed = 0
      /\ \A q \in IdsOf(Current) : batch[q] # NoReply
  BY <1>1, <1>2, <1>3 DEF Lucky, NoCall, Call
<1>5. /\ chunk' = chunk + 1
      /\ stored' = [q \in SheetIds |-> IF q \in Answered THEN NormalizeResult(Answer(q)) ELSE stored[q]]
      /\ progress' = [done   |-> progress.done + Cardinality(Answered),
                      failed |-> progress.failed + Len(Current) - Cardinality(Answered)]
  BY <1>4, AnswersStored, Zenon
<1>6. Answered = IdsOf(Current)
  <2>1. \A q \in IdsOf(Current) : Answer(q) # NoReply BY <1>4 DEF Answer, Settle
  <2> QED BY <2>1 DEF Answered
<1>7. progress'.failed = 0
  <2>1. PICK n \in Nat : n = Len(Current) /\ Cardinality(Answered) = n BY <1>2, <1>6, Here
  <2>2. progress'.failed = 0 + n - n BY <1>4, <1>5, <2>1
  <2> QED BY <2>1, <2>2
<1>8. CASE chunk < Len(ChunkList)
  <2>1. call' = Call("batch", 0) /\ status' = status BY <1>4, <1>8, AnswersStored, Zenon
  <2>2. call'.round = 1 /\ call'.attempt = 0 /\ call'.kind = "batch" BY <2>1 DEF Call
  <2> QED BY <1>2, <1>4, <1>7, <2>1, <2>2 DEF Lucky
<1>9. CASE ~(chunk < Len(ChunkList))
  <2>1. status' = IF \A q \in SheetIds : stored'[q] = NoReply THEN "failed" ELSE "reviewed"
    BY <1>4, <1>9, AnswersStored, Zenon
  <2>2. Stored' # {}
    <3>1. Stored' = Stored \cup Answered BY <1>4, StoredGrows
    <3>2. 1 \in DOMAIN Current BY <1>2, Here
    <3>3. Current[1].id \in Answered BY <1>2, <1>6, <3>2, Here
    <3> QED BY <3>1, <3>3
  <2>3. SheetIds' = SheetIds BY <1>2 DEF SheetIds
  <2>4. \E q \in SheetIds : stored'[q] # NoReply BY <2>2, <2>3 DEF Stored
  <2>5. status' = "reviewed" BY <2>1, <2>4
  <2> QED BY <1>2, <1>4, <1>7, <2>5 DEF Lucky
<1> QED BY <1>8, <1>9

LEMMA StayLucky ==
  ASSUME ReaderKeeps, MaxRetries > 0, Shapes, Asking, Lucky, [Next]_vars
  PROVE  Lucky'
<1>1. CASE \E o \in Failures : Fail(o) BY <1>1, FailLucky
<1>2. CASE BatchSaid BY <1>2, BatchLucky
<1>3. CASE SingleSaid BY <1>3, SingleLucky
<1>4. CASE Expire BY <1>4 DEF Expire, Lucky
<1>5. CASE EndChunk BY <1>5, EndLucky
<1>6. CASE UNCHANGED vars
  <2>1. /\ UNCHANGED <<sheet, provider, chunk, call, batch>>
        /\ UNCHANGED <<progress, expired, status, unlucky>>
    BY <1>6 DEF vars
  <2>2. IdsOf(Current)' = IdsOf(Current) BY <2>1, SameChunk
  <2> QED BY <2>1, <2>2 DEF Lucky
<1> QED BY <1>1, <1>2, <1>3, <1>4, <1>5, <1>6, Steps

LEMMA InitLucky ==
  ASSUME Init
  PROVE  Lucky
<1>1. /\ call = Call("batch", 0) /\ progress = [done |-> 0, failed |-> 0] /\ expired = FALSE
      /\ status = "running"
  BY DEF Init
<1>2. call.round = 1 /\ call.attempt = 0 /\ call.kind = "batch" BY <1>1 DEF Call
<1> QED BY <1>1, <1>2 DEF Lucky

\* Where a failed call is tried again at all, a refused response_format costs nothing.
THEOREM RefusalIsHarmless ==
  ASSUME ReaderKeeps, MaxRetries > 0
  PROVE  Spec => []RejectingBackendIsUsable
<1>1. Init => Lucky BY InitLucky
<1>2. Shapes /\ Asking /\ Budget /\ Lucky /\ [Next]_vars => Lucky' BY StayLucky
<1>3. Lucky => RejectingBackendIsUsable BY DEF Lucky, RejectingBackendIsUsable
<1> QED BY <1>1, <1>2, <1>3, TypesHold, PTL DEF Spec

(***************************************************************************)
(* The figures of a reviewed assessment                                    *)
(***************************************************************************)
\* The questions as the aggregation sees them, and the results on record.
LEMMA DraftedAre ==
  ASSUME Shapes
  PROVE  \E X : \E d \in Seq(X) :
           /\ d = Drafted /\ DOMAIN d = DOMAIN sheet /\ Len(d) = Len(sheet)
           /\ \A i \in DOMAIN d : d[i].id = sheet[i].id /\ d[i].domain = sheet[i].domain
           /\ DistinctIds(d) /\ IdsOf(d) = SheetIds
<1>1. PICK s \in Seq(Question) : s = sheet /\ DistinctIds(s) BY SheetsAreCut DEF Shapes
<1>2. PICK n \in Nat : n = Len(s) /\ DOMAIN s = 1 .. n OBVIOUS
<1>3. PICK st : st = [i \in 1 .. n |-> IF stored[s[i].id] # NoReply /\ Results[s[i].id].draft
                                       THEN "ai_drafted" ELSE "pending"]
  OBVIOUS
<1>4. PICK d : d = [i \in 1 .. n |-> [id |-> s[i].id, domain |-> s[i].domain,
                                      blank |-> s[i].blank, status |-> st[i]]]
  OBVIOUS
<1>5. d = Drafted BY <1>1, <1>2, <1>3, <1>4 DEF Drafted
<1>6. PICK X : X = {d[i] : i \in 1 .. n} OBVIOUS
<1>7. d \in Seq(X) /\ DOMAIN d = 1 .. n /\ Len(d) = n BY <1>4, <1>6
<1>8. \A i \in 1 .. n : d[i].id = s[i].id /\ d[i].domain = s[i].domain BY <1>4
<1>9. DistinctIds(d) BY <1>1, <1>2, <1>7, <1>8 DEF DistinctIds
<1>10. IdsOf(d) = SheetIds
  <2>1. SheetIds = {s[i].id : i \in 1 .. n} BY <1>1, <1>2 DEF SheetIds
  <2>2. IdsOf(d) = {d[i].id : i \in 1 .. n} BY <1>7 DEF IdsOf
  <2> QED BY <1>8, <2>1, <2>2
<1>11. DOMAIN sheet = DOMAIN d /\ Len(sheet) = Len(d) BY <1>1, <1>2, <1>7
<1>12. \A i \in DOMAIN d : d[i].id = sheet[i].id /\ d[i].domain = sheet[i].domain BY <1>1, <1>7, <1>8
<1> QED BY <1>5, <1>7, <1>9, <1>10, <1>11, <1>12

LEMMA ResultsAre ==
  ASSUME Shapes
  PROVE  /\ DOMAIN Results = SheetIds
         /\ \A q \in SheetIds :
              /\ q \in Stored => /\ Results[q] = stored[q] /\ IsResult(Results[q])
                                 /\ Results[q] # NoResult /\ Results[q].score \in Scale
              /\ q \notin Stored => Results[q] = NoResult /\ ~ValidRiskScore(Results[q].score)
<1>1. DOMAIN Results = SheetIds BY DEF Results
<1>2. ASSUME NEW q \in SheetIds, q \in Stored
      PROVE  /\ Results[q] = stored[q] /\ IsResult(Results[q])
             /\ Results[q] # NoResult /\ Results[q].score \in Scale
  <2>1. Results[q] = stored[q] BY <1>2 DEF Results, Stored
  <2>2. IsResult(stored[q]) BY <1>2 DEF Shapes, IsReply, Stored
  <2>3. stored[q].score \in Scale BY <2>2, ResultFacts
  <2>4. stored[q] # NoResult
    <3>1. NoResult.score = 0 BY DEF NoResult
    <3> QED BY <2>3, <3>1 DEF Scale, RiskMin, RiskMax
  <2> QED BY <2>1, <2>2, <2>3, <2>4
<1>3. ASSUME NEW q \in SheetIds, q \notin Stored
      PROVE  Results[q] = NoResult /\ ~ValidRiskScore(Results[q].score)
  <2>1. Results[q] = NoResult BY <1>3 DEF Results, Stored
  <2>2. NoResult.score = 0 BY DEF NoResult
  <2> QED BY <2>1, <2>2 DEF ValidRiskScore, Scale, RiskMin, RiskMax
<1> QED BY <1>1, <1>2, <1>3

\* The assessment's averages are those of the scores on record.
LEMMA OverallIs ==
  ASSUME NEW d, NEW R
  PROVE  /\ Aggregate(d, R).overall = Blend(Scores(d, R)).weighted
         /\ Aggregate(d, R).mean = Blend(Scores(d, R)).mean
         /\ Aggregate(d, R).worst = Blend(Scores(d, R)).worst
BY DEF Aggregate

\* Whatever the risk matrix, an aggregate's band is that of the score it rounds to.
THEOREM BandsAreRounded == Spec => []BandsAgree
<1>1. ASSUME Shapes PROVE BandsAgree
  <2>1. PICK X : \E d \in Seq(X) : d = Drafted BY <1>1, DraftedAre
  <2>2. PICK d \in Seq(X) : d = Drafted BY <2>1
  <2>3. PICK R : R = Results OBVIOUS
  <2>4. PICK s : s = Scores(d, R) OBVIOUS
  <2>5. s \in Seq(Scale) BY <2>2, <2>4, ScoresAre
  <2>6. PICK f : f = Blend(s).weighted OBVIOUS
  <2>7. f \in Int /\ (f = 0 \/ f >= 100) BY <2>5, <2>6, BlendBetween
  <2>8. Figures.overall = f BY <2>2, <2>3, <2>4, <2>6, OverallIs DEF Figures
  <2>9. \A m \in [{"medium", "high", "critical"} -> Scale] : BandFromFloat(f, m) = Band((f + 50) \div 100, m)
    BY <2>7, BandsMeet
  <2> QED BY <2>8, <2>9 DEF BandsAgree
<1>2. Shapes => BandsAgree BY <1>1
<1> QED BY <1>2, TypesHold, PTL

\* Bad news is neither averaged away nor turned into good news.
THEOREM BadNewsIsNotLost == Spec => []BadNewsCounts
<1>1. ASSUME Shapes PROVE BadNewsCounts
  <2>1. PICK X : \E d \in Seq(X) : d = Drafted BY <1>1, DraftedAre
  <2>2. PICK d \in Seq(X) : d = Drafted BY <2>1
  <2>3. PICK R : R = Results OBVIOUS
  <2>4. PICK s : s = Scores(d, R) OBVIOUS
  <2>5. s \in Seq(Scale) BY <2>2, <2>4, ScoresAre
  <2>6. PICK b : b = Blend(s) OBVIOUS
  <2>7. b.mean <= b.weighted /\ b.weighted <= 100 * b.worst BY <2>5, <2>6, BlendBetween
  <2>8. Figures.overall = b.weighted /\ Figures.mean = b.mean /\ Figures.worst = b.worst
    BY <2>2, <2>3, <2>4, <2>6, OverallIs DEF Figures
  <2>9. ASSUME NEW q \in Stored, Results[q].score < RiskMax
        PROVE  Aggregate(Drafted, [Results EXCEPT ![q].score = @ + 1]).overall >= Figures.overall
    <3>1. PICK S : S = [Results EXCEPT ![q].score = @ + 1] OBVIOUS
    <3>2. q \in SheetIds BY DEF Stored
    <3>3. PICK f, c : \E x \in Scale, u \in BOOLEAN, v \in BOOLEAN :
            R[q] = [score |-> x, sure |-> u, draft |-> v, flags |-> f, completeness |-> c]
      BY <1>1, <2>3, <3>2, ResultsAre DEF IsResult
    <3>4. PICK x \in Scale, u \in BOOLEAN, v \in BOOLEAN :
            R[q] = [score |-> x, sure |-> u, draft |-> v, flags |-> f, completeness |-> c]
      BY <3>3
    <3>5. x \in 1 .. 4
      <4>1. R[q].score = x BY <3>4
      <4> QED BY <2>3, <2>9, <4>1 DEF Scale, RiskMin, RiskMax
    <3>6. R[q].score = x /\ S[q].score = x + 1
      <4>1. S[q] = [R[q] EXCEPT !.score = @ + 1] BY <1>1, <2>3, <3>1, <3>2, ResultsAre
      <4> QED BY <3>4, <4>1
    <3>7. \A k \in SheetIds : k # q => S[k] = R[k] BY <1>1, <2>3, <3>1, ResultsAre
    <3>8. \A k \in SheetIds : R[k].score \in 0 .. 5
      <4> TAKE k \in SheetIds
      <4>1. CASE k \in Stored BY <1>1, <2>3, <4>1, ResultsAre DEF Scale, RiskMin, RiskMax
      <4>2. CASE k \notin Stored
        <5>1. R[k] = NoResult BY <1>1, <2>3, <4>2, ResultsAre
        <5> QED BY <5>1 DEF NoResult
      <4> QED BY <4>1, <4>2
    <3>9. ASSUME NEW i \in DOMAIN d
          PROVE  /\ ValidRiskScore(R[d[i].id].score) <=> ValidRiskScore(S[d[i].id].score)
                 /\ ValidRiskScore(R[d[i].id].score) => R[d[i].id].score <= S[d[i].id].score
      <4>1. d[i].id \in SheetIds
        <5>1. IdsOf(d) = SheetIds BY <1>1, <2>2, DraftedAre
        <5> QED BY <5>1 DEF IdsOf
      <4>2. CASE d[i].id = q
        BY <3>5, <3>6, <4>2 DEF ValidRiskScore, Scale, RiskMin, RiskMax
      <4>3. CASE d[i].id # q
        <5>1. S[d[i].id] = R[d[i].id] BY <3>7, <4>1, <4>3
        <5>2. R[d[i].id].score \in Int BY <3>8, <4>1
        <5> QED BY <5>1, <5>2
      <4> QED BY <4>2, <4>3
    <3>10. Blend(Scores(d, R)).weighted <= Blend(Scores(d, S)).weighted BY <3>9, ScoresGrow
    <3>11. Blend(Scores(d, S)).weighted \in Int /\ Blend(Scores(d, R)).weighted \in Int
      <4>1. PICK z : z = Scores(d, S) OBVIOUS
      <4>2. z \in Seq(Scale) BY <4>1, ScoresAre
      <4> QED BY <2>4, <2>5, <4>1, <4>2, BlendBetween
    <3>12. Aggregate(d, S).overall = Blend(Scores(d, S)).weighted BY OverallIs
    <3> QED BY <2>2, <2>4, <2>6, <2>8, <3>1, <3>10, <3>11, <3>12
  <2>10. b.mean \in Int /\ b.weighted \in Int /\ b.worst \in Int BY <2>5, <2>6, BlendBetween
  <2> QED BY <2>7, <2>8, <2>9, <2>10 DEF BadNewsCounts
<1>2. Shapes => BadNewsCounts BY <1>1
<1> QED BY <1>2, TypesHold, PTL

\* The flags of whatever was read, and of what is stored of it, are counted.
Numbered(r) == r # NoReply => r.flags \in Nat

FlagsKnown ==
  /\ \A q \in SheetIds : Numbered(stored[q])
  /\ status = "running" => \A q \in IdsOf(Current) : Numbered(batch[q]) /\ Numbered(singles[q])

LEMMA FlagsNormalized ==
  ASSUME NEW r, IsResult(r)
  PROVE  NormalizeResult(r).flags = r.flags
<1>1. PICK f, c : \E x \in Scale, a, b \in BOOLEAN :
        r = [score |-> x, sure |-> a, draft |-> b, flags |-> f, completeness |-> c]
  BY DEF IsResult
<1>2. PICK x \in Scale, a \in BOOLEAN, b \in BOOLEAN :
        r = [score |-> x, sure |-> a, draft |-> b, flags |-> f, completeness |-> c]
  BY <1>1
<1>3. PICK y, d : NormalizeResult(r) = [r EXCEPT !.score = y, !.completeness = d] BY DEF NormalizeResult
<1> QED BY <1>2, <1>3

LEMMA StayFlags ==
  ASSUME Shapes, Asking, Budget, FlagsKnown, [Next]_vars
  PROVE  FlagsKnown'
<1>1. CASE EndChunk
  <2>1. status = "running" /\ sheet' = sheet BY <1>1, AnswersStored
  <2>2. SheetIds' = SheetIds BY <2>1 DEF SheetIds
  <2>3. CASE expired
    <3>1. status' = "failed" /\ stored' = stored BY <1>1, <2>3, AnswersStored
    <3> QED BY <2>2, <3>1 DEF FlagsKnown
  <2>4. CASE ~expired
    <3>1. /\ chunk' = chunk + 1
          /\ stored' = [q \in SheetIds |->
                          IF q \in Answered THEN NormalizeResult(Answer(q)) ELSE stored[q]]
      BY <1>1, <2>4, AnswersStored, Zenon
    <3>2. ASSUME NEW q \in SheetIds PROVE Numbered(stored'[q])
      <4>1. CASE q \in Answered
        <5>1. q \in IdsOf(Current) /\ Answer(q) # NoReply BY <4>1 DEF Answered
        <5>2. IsResult(Answer(q)) BY <2>1, <5>1, AnswersAreReplies DEF IsReply
        <5>3. Answer(q).flags \in Nat
          <6>1. Answer(q) = batch[q] \/ Answer(q) = singles[q] BY DEF Answer, Settle
          <6>2. Numbered(batch[q]) /\ Numbered(singles[q]) BY <2>1, <5>1 DEF FlagsKnown
          <6> QED BY <5>1, <6>1, <6>2 DEF Numbered
        <5>4. NormalizeResult(Answer(q)).flags \in Nat BY <5>2, <5>3, FlagsNormalized
        <5> QED BY <3>1, <4>1, <5>4 DEF Numbered
      <4>2. CASE q \notin Answered BY <3>1, <4>2 DEF FlagsKnown
      <4> QED BY <4>1, <4>2
    <3>3. ASSUME status' = "running", NEW q \in IdsOf(Current)' PROVE Numbered(batch'[q]) /\ Numbered(singles'[q])
      <4>1. chunk < Len(ChunkList)
        <5>1. SUFFICES ASSUME ~(chunk < Len(ChunkList)) PROVE FALSE OBVIOUS
        <5>2. status' = IF \A u \in SheetIds : stored'[u] = NoReply THEN "failed" ELSE "reviewed"
          BY <1>1, <2>4, <5>1, AnswersStored, Zenon
        <5> QED BY <3>3, <5>2
      <4>2. batch' = Silent(ChunkList[chunk + 1]) /\ singles' = Silent(ChunkList[chunk + 1])
        BY <1>1, <2>4, <4>1, AnswersStored, Zenon
      <4>3. Current' = ChunkList[chunk + 1] BY <2>1, <3>1 DEF Current, ChunkList
      <4>4. q \in IdsOf(ChunkList[chunk + 1]) BY <3>3, <4>3 DEF IdsOf
      <4>5. batch'[q] = NoReply /\ singles'[q] = NoReply BY <4>2, <4>4 DEF Silent
      <4> QED BY <4>5 DEF Numbered
    <3> QED BY <2>2, <3>2, <3>3 DEF FlagsKnown
  <2> QED BY <2>3, <2>4
<1>2. CASE BatchSaid
  <2>1. PICK r \in BatchTalk[Current] : SayBatch(r, BatchRead[r].taken, BatchRead[r].full) BY <1>2 DEF BatchSaid
  <2>2. /\ status = "running" /\ sheet' = sheet /\ chunk' = chunk /\ stored' = stored
        /\ status' = status /\ singles' = singles
        /\ \/ batch' = batch
           \/ batch' = [q \in IdsOf(Current) |->
                          IF q \in DOMAIN BatchRead[r].taken.replies
                          THEN BatchRead[r].taken.replies[q] ELSE NoReply]
    BY <2>1, BatchTaken
  <2>3. SheetIds' = SheetIds /\ IdsOf(Current)' = IdsOf(Current) BY <2>2, SameChunk
  <2>4. Current \in AllChunks BY <2>2, Here
  <2>5. \A q \in DOMAIN BatchRead[r].taken.replies : BatchRead[r].taken.replies[q].flags \in Nat
    BY <2>1, <2>4, FlagsCounted DEF FlagsAreCounted
  <2>6. \A q \in IdsOf(Current) : Numbered(batch'[q])
    <3> TAKE q \in IdsOf(Current)
    <3>1. Numbered(batch[q]) BY <2>2 DEF FlagsKnown
    <3>2. \/ batch'[q] = batch[q] \/ batch'[q] = NoReply
          \/ q \in DOMAIN BatchRead[r].taken.replies /\ batch'[q] = BatchRead[r].taken.replies[q]
      BY <2>2
    <3> QED BY <2>5, <3>1, <3>2 DEF Numbered
  <2> QED BY <2>2, <2>3, <2>6 DEF FlagsKnown
<1>3. CASE SingleSaid
  <2>1. PICK r \in SingleTalk[Current[call.at].id] : SaySingle(r) BY <1>3 DEF SingleSaid
  <2>2. PICK u : u = Current[call.at].id OBVIOUS
  <2>3. /\ status = "running" /\ call.kind = "single" /\ singles' = [singles EXCEPT ![u] = SingleRead[r]]
        /\ sheet' = sheet /\ chunk' = chunk /\ stored' = stored /\ batch' = batch /\ status' = status
    BY <2>1, <2>2 DEF SaySingle
  <2>4. u \in Ids
    <3>1. call.at \in DOMAIN Current /\ Current \in Seq(Question) BY <2>3, Here DEF Asking
    <3>2. PICK x \in Question : x = Current[call.at] BY <3>1
    <3> QED BY <2>2, <3>2 DEF Question
  <2>5. Numbered(SingleRead[r]) BY <2>1, <2>2, <2>4, FlagsCounted DEF FlagsAreCounted, Numbered
  <2>6. SheetIds' = SheetIds /\ IdsOf(Current)' = IdsOf(Current) BY <2>3, SameChunk
  <2>7. \A q \in IdsOf(Current) : Numbered(singles'[q])
    <3> TAKE q \in IdsOf(Current)
    <3>1. Numbered(singles[q]) /\ q \in DOMAIN singles BY <2>3 DEF FlagsKnown, Asking
    <3>2. singles'[q] = singles[q] \/ singles'[q] = SingleRead[r] BY <2>3, <3>1
    <3> QED BY <2>5, <3>1, <3>2
  <2> QED BY <2>3, <2>6, <2>7 DEF FlagsKnown
<1>4. CASE /\ sheet' = sheet /\ chunk' = chunk /\ batch' = batch /\ singles' = singles
           /\ stored' = stored /\ status' = status
  <2>1. SheetIds' = SheetIds /\ IdsOf(Current)' = IdsOf(Current) BY <1>4, SameChunk
  <2> QED BY <1>4, <2>1 DEF FlagsKnown
<1>5. CASE \E o \in Failures : Fail(o)
  <2>1. PICK o \in Failures : Fail(o) BY <1>5
  <2>2. batch' = batch /\ singles' = singles BY <2>1 DEF Fail, GiveUp
  <2> QED BY <1>4, <2>1, <2>2 DEF Fail
<1>6. CASE Expire BY <1>4, <1>6 DEF Expire
<1>7. CASE UNCHANGED vars BY <1>4, <1>7 DEF vars
<1> QED BY <1>1, <1>2, <1>3, <1>5, <1>6, <1>7, Steps

LEMMA InitFlags ==
  ASSUME Init
  PROVE  FlagsKnown
<1>1. /\ batch = Silent(Current) /\ singles = Silent(Current) /\ stored = [q \in SheetIds |-> NoReply]
  BY DEF Init
<1>2. \A q \in IdsOf(Current) : batch[q] = NoReply /\ singles[q] = NoReply BY <1>1 DEF Silent
<1> QED BY <1>1, <1>2 DEF FlagsKnown, Numbered

\* The counts of the domains are those of the assessment; and no score escapes them.
LEMMA CountsHold ==
  ASSUME Shapes
  PROVE  CountsAddUp(Figures, Figures.domains)
<1>1. PICK X : \E d \in Seq(X) :
                 d = Drafted /\ DistinctIds(d) /\ IdsOf(d) = SheetIds
  BY DraftedAre
<1>2. PICK d \in Seq(X) : d = Drafted /\ DistinctIds(d) /\ IdsOf(d) = SheetIds BY <1>1
<1>3. PICK R : R = Results OBVIOUS
<1>4. PICK f : f = Figures /\ f = Aggregate(d, R) BY <1>2, <1>3 DEF Figures
<1>5. /\ f.scored = Cardinality(ScoredAt(d, R)) /\ f.flagged = CountOf(d, Flagged(R))
      /\ Total([i \in DOMAIN f.domains |-> f.domains[i].questions]) = f.questions
      /\ Total([i \in DOMAIN f.domains |-> f.domains[i].scored]) = f.scored
      /\ Total([i \in DOMAIN f.domains |-> f.domains[i].flagged]) = f.flagged
      /\ Total([i \in DOMAIN f.domains |-> f.domains[i].incomplete]) = f.incomplete
  <2>1. Sums(Aggregate(d, R), d, R) BY FiguresSum
  <2> QED BY <1>4, <2>1 DEF Sums
<1>6. \A i \in DOMAIN d : d[i].id \in SheetIds BY <1>2 DEF IdsOf
<1>7. \A x \in SheetIds : \E i \in DOMAIN d : d[i].id = x BY <1>2 DEF IdsOf
<1>8. \A x \in SheetIds :
        /\ x \in Stored => /\ R[x] = stored[x] /\ R[x] # NoResult /\ R[x].score \in Scale
        /\ x \notin Stored => ~ValidRiskScore(R[x].score)
  BY <1>3, ResultsAre
<1>9. f.scored = Cardinality(Stored)
  <2>1. ScoredAt(d, R) = With(d, Stored) BY <1>6, <1>8 DEF ScoredAt, With, ValidRiskScore
  <2>2. \A x \in Stored : \E i \in DOMAIN d : d[i].id = x BY <1>7 DEF Stored
  <2>3. Cardinality(Stored) = Cardinality(With(d, Stored)) BY <1>2, <2>2, IdsPlaced
  <2> QED BY <1>5, <2>1, <2>3
<1>10. f.flagged >= Cardinality({q \in Stored : stored[q].score >= RiskFlagThreshold})
  <2>1. PICK S : S = {q \in Stored : stored[q].score >= RiskFlagThreshold} OBVIOUS
  <2>2. \A x \in S : \E i \in DOMAIN d : d[i].id = x BY <1>7, <2>1 DEF Stored
  <2>3. Cardinality(S) = Cardinality(With(d, S)) BY <1>2, <2>2, IdsPlaced
  <2>4. DOMAIN R = SheetIds BY <1>3, ResultsAre
  <2>5. \A x \in S : x \in Flagged(R)
    <3> TAKE x \in S
    <3>1. x \in Stored /\ x \in SheetIds /\ stored[x].score >= RiskFlagThreshold BY <2>1 DEF Stored
    <3>2. R[x] = stored[x] /\ R[x] # NoResult BY <1>8, <3>1
    <3> QED BY <2>4, <3>1, <3>2 DEF Flagged
  <2>6. PICK P, Q : P = With(d, S) /\ Q = With(d, Flagged(R)) OBVIOUS
  <2>7. P \in SUBSET Q BY <2>5, <2>6 DEF With
  <2>8. IsFiniteSet(Q)
    <3>1. PICK n \in Nat : DOMAIN d = 1 .. n BY <1>2
    <3>2. IsFiniteSet(1 .. n) BY UpToN
    <3>3. Q \in SUBSET (1 .. n) BY <2>6, <3>1 DEF With
    <3> QED BY <3>2, <3>3, FS_Subset
  <2>9. IsFiniteSet(P) /\ Cardinality(P) <= Cardinality(Q) BY <2>7, <2>8, FS_Subset
  <2>10. Cardinality(P) \in Nat /\ Cardinality(Q) \in Nat BY <2>8, <2>9, FS_CardinalityType
  <2>11. f.flagged = Cardinality(Q) BY <1>5, <2>6 DEF CountOf, With
  <2> QED BY <2>1, <2>3, <2>6, <2>9, <2>10, <2>11
<1> QED BY <1>4, <1>5, <1>9, <1>10 DEF CountsAddUp

LEMMA WorstAreShown ==
  ASSUME Shapes, FlagsKnown
  PROVE  WorstFindingsAreShown
<1>1. PICK X : \E d \in Seq(X) :
                 d = Drafted /\ DistinctIds(d) /\ IdsOf(d) = SheetIds
  BY DraftedAre
<1>2. PICK d \in Seq(X) : d = Drafted /\ DistinctIds(d) /\ IdsOf(d) = SheetIds BY <1>1
<1>3. PICK R : R = Results OBVIOUS
<1>4. PICK limit \in Nat : limit = TopFindingLimit BY FindingsAssumption
<1>5. \A i \in DOMAIN d : d[i].id \in SheetIds BY <1>2 DEF IdsOf
<1>6. \A x \in SheetIds : \E i \in DOMAIN d : d[i].id = x BY <1>2 DEF IdsOf
<1>7. \A x \in SheetIds :
        /\ x \in Stored => /\ R[x] = stored[x] /\ R[x] # NoResult /\ R[x].score \in Int /\ R[x].flags \in Int
        /\ x \notin Stored => R[x] = NoResult
  <2> TAKE x \in SheetIds
  <2>1. /\ x \in Stored => /\ R[x] = stored[x] /\ R[x] # NoResult /\ R[x].score \in Scale
        /\ x \notin Stored => R[x] = NoResult
    BY <1>3, ResultsAre
  <2>2. x \in Stored => stored[x].flags \in Nat BY DEF FlagsKnown, Numbered, Stored
  <2> QED BY <2>1, <2>2 DEF Scale, RiskMin, RiskMax
<1>8. \A i \in DOMAIN d : i \in Found(d, R) <=> d[i].id \in Stored BY <1>5, <1>7 DEF Found
<1>9. \A i \in Found(d, R) : i \in DOMAIN d /\ R[d[i].id].score \in Int /\ R[d[i].id].flags \in Int
  <2> TAKE i \in Found(d, R)
  <2>1. i \in DOMAIN d BY DEF Found
  <2> QED BY <1>5, <1>7, <1>8, <2>1
<1>10. PICK n \in Nat : \E at : Heads(TopFindings(d, R, limit), at, n, d, R, limit)
  <2>1. Rated(d, R) BY <1>9 DEF Rated
  <2> QED BY <2>1, TopFindingsAre
<1>11. PICK at :
           /\ Findings(at, n, d, R) /\ Shown(n, limit) \in 0 .. n
           /\ TopFindings(d, R, limit) = [k \in 1 .. Shown(n, limit) |-> d[at[k]]]
  BY <1>10 DEF Heads
<1>12. PICK m \in 0 .. n : m = Shown(n, limit) BY <1>11
<1>13. PICK top : top = TopFindings(d, R, limit) /\ top = [k \in 1 .. m |-> d[at[k]]] BY <1>11, <1>12
<1>14. Len(top) = m /\ DOMAIN top = 1 .. m BY <1>12, <1>13
<1>15. PICK shown : shown = {top[i].id : i \in DOMAIN top} OBVIOUS
<1>16. /\ \A k \in 1 .. n : at[k] \in DOMAIN d /\ d[at[k]].id \in Stored
       /\ \A q \in Stored : \E k \in 1 .. n : d[at[k]].id = q
  <2>1. \A k \in 1 .. n : at[k] \in Found(d, R) BY <1>11 DEF Findings
  <2>2. \A q \in Stored : \E k \in 1 .. n : d[at[k]].id = q
    <3> TAKE q \in Stored
    <3>1. PICK i \in DOMAIN d : d[i].id = q BY <1>6 DEF Stored
    <3>2. i \in Found(d, R) BY <1>8, <3>1
    <3>3. PICK k \in 1 .. n : at[k] = i BY <1>11, <3>2 DEF Findings
    <3> QED BY <3>1, <3>3
  <2> QED BY <1>8, <1>9, <2>1, <2>2
<1>17. \A i, k \in 1 .. n : d[at[i]].id = d[at[k]].id => i = k
  <2> TAKE i, k \in 1 .. n
  <2> HAVE d[at[i]].id = d[at[k]].id
  <2>1. at[i] = at[k] BY <1>2, <1>16 DEF DistinctIds
  <2> QED BY <1>11, <2>1 DEF Findings
<1>18. Cardinality(shown) = Len(top)
  <2>1. top \in Seq({d[at[k]] : k \in 1 .. n}) BY <1>12, <1>13
  <2>2. DistinctIds(top)
    <3>1. ASSUME NEW i \in 1 .. m, NEW k \in 1 .. m, top[i].id = top[k].id PROVE i = k
      <4>1. i \in 1 .. n /\ k \in 1 .. n BY <1>12
      <4>2. top[i] = d[at[i]] /\ top[k] = d[at[k]] BY <1>13
      <4> QED BY <1>17, <3>1, <4>1, <4>2
    <3> QED BY <1>14, <3>1 DEF DistinctIds
  <2>3. shown = IdsOf(top) BY <1>15 DEF IdsOf
  <2>4. PICK Y : Y = {d[at[k]] : k \in 1 .. n} OBVIOUS
  <2>5. top \in Seq(Y) BY <2>1, <2>4
  <2> QED BY <2>2, <2>3, <2>5, IdsCounted
<1>19. ASSUME NEW q \in shown, NEW k \in Stored \ shown PROVE stored[k].score <= stored[q].score
  <2>1. PICK i \in 1 .. m : q = d[at[i]].id BY <1>13, <1>14, <1>15
  <2>2. PICK j \in 1 .. n : d[at[j]].id = k BY <1>16
  <2>3. i \in 1 .. n BY <1>12
  <2>4. ~(j \in 1 .. m)
    <3>1. SUFFICES ASSUME j \in 1 .. m PROVE FALSE OBVIOUS
    <3>2. top[j].id = k BY <1>13, <2>2, <3>1
    <3> QED BY <1>14, <1>15, <3>1, <3>2
  <2>5. i < j BY <1>12, <2>4
  <2>6. R[d[at[i]].id].score >= R[d[at[j]].id].score BY <1>11, <2>3, <2>5 DEF Findings
  <2>7. q \in Stored /\ q \in SheetIds /\ k \in SheetIds BY <1>16, <2>1, <2>3 DEF Stored
  <2>8. PICK a \in Int, b \in Int : a = stored[q].score /\ b = stored[k].score /\ a = R[q].score /\ b = R[k].score
    BY <1>7, <2>7
  <2>9. a >= b BY <2>1, <2>2, <2>6, <2>8
  <2> QED BY <2>8, <2>9
<1>20. Stored \subseteq shown \/ Len(top) = TopFindingLimit
  <2>1. CASE limit > 0 /\ n > limit BY <1>4, <1>12, <1>14, <2>1 DEF Shown
  <2>2. CASE ~(limit > 0 /\ n > limit)
    <3>1. m = n BY <1>12, <2>2 DEF Shown
    <3>2. \A q \in Stored : q \in shown
      <4> TAKE q \in Stored
      <4>1. PICK k \in 1 .. n : d[at[k]].id = q BY <1>16
      <4>2. k \in DOMAIN top /\ top[k].id = q BY <1>13, <1>14, <3>1, <4>1
      <4> QED BY <1>15, <4>2
    <3> QED BY <3>2
  <2> QED BY <2>1, <2>2
<1>21. top = TopFindings(Drafted, Results, TopFindingLimit) BY <1>2, <1>3, <1>4, <1>13
<1> QED BY <1>15, <1>18, <1>19, <1>20, <1>21, Zenon DEF WorstFindingsAreShown

\* The figures of a reviewed assessment are those of its results, whole and domain by
\* domain, and the findings shown are the worst ones.
THEOREM NothingIsLeftOut == Spec => []FiguresAddUp
<1>1. Init => FlagsKnown BY InitFlags
<1>2. Shapes /\ Asking /\ Budget /\ FlagsKnown /\ [Next]_vars => FlagsKnown' BY StayFlags
<1>3. Shapes /\ FlagsKnown => FiguresAddUp BY CountsHold, WorstAreShown DEF FiguresAddUp
<1> QED BY <1>1, <1>2, <1>3, TypesHold, PTL DEF Spec
=============================================================================
