--------------------------- MODULE AggregateProofs ---------------------------
(***************************************************************************)
(* What the operators of Aggregate and ReviewBatches return: the chunks of *)
(* a run and the peers sent along with them, and what the figures of a     *)
(* summary say of the scores and the flags they are made of: averages,     *)
(* counts by domain, and the worst findings.                               *)
(***************************************************************************)
EXTENDS ReviewBatches, OrdersProofs

(***************************************************************************)
(* Sums                                                                    *)
(***************************************************************************)
\* A total is reached one score at a time.
LEMMA TotalSteps ==
  ASSUME NEW s \in Seq(Int)
  PROVE  \E sum \in [0 .. Len(s) -> Int] :
           /\ sum[0] = 0 /\ \A k \in 1 .. Len(s) : sum[k] = sum[k - 1] + s[k]
           /\ Total(s) = sum[Len(s)]
<1> DEFINE n == Len(s)
           Sums(f) == f = [k \in 0 .. n |-> IF k = 0 THEN 0 ELSE f[k - 1] + s[k]]
           step == [k \in 1 .. n |-> [x \in Int |-> x + s[k]]]
<1>1. n \in Nat /\ \A k \in 1 .. n : s[k] \in Int OBVIOUS
<1>2. step \in [1 .. n -> [Int -> Int]] BY <1>1
<1>3. \A k \in 1 .. n, x \in Int : step[k][x] = x + s[k] OBVIOUS
<1> HIDE DEF step
<1>4. PICK f \in [0 .. n -> Int] : f[0] = 0 /\ \A k \in 1 .. n : f[k] = step[k][f[k - 1]]
  <2>1. PICK X, zero, m, st : X = Int /\ zero = 0 /\ m = n /\ st = step OBVIOUS
  <2>2. zero \in X /\ m \in Nat /\ st \in [1 .. m -> [X -> X]] BY <1>1, <1>2, <2>1
  <2>3. \E f \in [0 .. m -> X] : f[0] = zero /\ \A k \in 1 .. m : f[k] = st[k][f[k - 1]]
    BY <2>2, Recursion
  <2> QED BY <2>1, <2>3
<1>5. \A k \in 1 .. n : f[k] = f[k - 1] + s[k]
  <2> TAKE k \in 1 .. n
  <2>0. k - 1 \in 0 .. n BY <1>1
  <2>1. f[k - 1] \in Int BY <2>0
  <2> QED BY <1>3, <1>4, <2>1
<1>6. Sums(f) BY <1>4, <1>5
<1> DEFINE g == CHOOSE h : Sums(h)
<1>7. Sums(g) BY <1>6
<1>8. Total(s) = g[n] BY DEF Total
<1> HIDE DEF g
<1>9. g[0] = 0 /\ \A k \in 1 .. n : g[k] = g[k - 1] + s[k] BY <1>1, <1>7
<1>10. \A k \in 0 .. n : g[k] \in Int
  <2> DEFINE P == {k \in 0 .. n : g[k] \in Int}
  <2>1. 0 \in P BY <1>1, <1>9
  <2>2. ASSUME NEW k \in 0 .. (n - 1), k \in P PROVE k + 1 \in P
    <3>1. k + 1 \in 1 .. n /\ (k + 1) - 1 = k BY <1>1
    <3> QED BY <1>1, <1>9, <2>2, <3>1
  <2>3. P \in SUBSET (0 .. n) OBVIOUS
  <2> HIDE DEF P, n
  <2>4. P = 0 .. n BY <1>1, <2>1, <2>2, <2>3, UpTo
  <2> QED BY <2>4 DEF P
<1>11. g \in [0 .. n -> Int] BY <1>7, <1>10
<1> QED BY <1>8, <1>9, <1>11

\* A total lies between as many times the lowest and the highest value.
LEMMA TotalBounds ==
  ASSUME NEW s \in Seq(Int), NEW lo \in Int, NEW hi \in Int,
         \A k \in DOMAIN s : lo <= s[k] /\ s[k] <= hi
  PROVE  Total(s) \in Int /\ Len(s) * lo <= Total(s) /\ Total(s) <= Len(s) * hi
<1>1. PICK n \in Nat : n = Len(s) /\ DOMAIN s = 1 .. n /\ \A k \in 1 .. n : s[k] \in Int OBVIOUS
<1>2. PICK sum \in [0 .. n -> Int] :
        /\ sum[0] = 0 /\ \A k \in 1 .. n : sum[k] = sum[k - 1] + s[k]
        /\ Total(s) = sum[n]
  BY <1>1, TotalSteps
<1> DEFINE P == {k \in 0 .. n : k * lo <= sum[k] /\ sum[k] <= k * hi}
<1>3. 0 \in P BY <1>2
<1>4. ASSUME NEW k \in 0 .. (n - 1), k \in P PROVE k + 1 \in P
  <2>1. k + 1 \in 1 .. n /\ k \in 0 .. n BY <1>1
  <2>2. sum[k + 1] = sum[k] + s[k + 1] BY <1>2, <2>1
  <2>3. sum[k] \in Int /\ s[k + 1] \in Int BY <1>1, <1>2, <2>1
  <2>4. lo <= s[k + 1] /\ s[k + 1] <= hi BY <1>1, <2>1
  <2>5. PICK a \in Int, b \in Int : a = k * lo /\ b = k * hi BY <2>1
  <2>6. (k + 1) * lo = a + lo /\ (k + 1) * hi = b + hi BY <2>1, <2>5
  <2>7. a <= sum[k] /\ sum[k] <= b BY <1>4, <2>5
  <2>8. a + lo <= sum[k + 1] /\ sum[k + 1] <= b + hi
    <3>1. PICK x \in Int, y \in Int : x = sum[k] /\ y = s[k + 1] BY <2>3
    <3>2. a <= x /\ x <= b /\ lo <= y /\ y <= hi BY <2>4, <2>7, <3>1
    <3>3. a + lo <= x + y /\ x + y <= b + hi BY <3>2
    <3> QED BY <2>2, <3>1, <3>3
  <2> QED BY <2>1, <2>6, <2>8
<1>5. P \in SUBSET (0 .. n) OBVIOUS
<1> HIDE DEF P
<1>6. P = 0 .. n BY <1>3, <1>4, <1>5, UpTo
<1>7. n \in P BY <1>6
<1> QED BY <1>1, <1>2, <1>7 DEF P

(***************************************************************************)
(* Chunks                                                                  *)
(***************************************************************************)
\* Multiples grow with their factor, and a quotient is the next multiple below.
LEMMA Multiples ==
  ASSUME NEW a \in Int, NEW b \in Int, NEW s \in Nat, a <= b
  PROVE  a * s <= b * s
<1>1. PICK d \in Nat : b = a + d BY SMT
<1>2. b * s = a * s + d * s BY <1>1
<1>3. d * s \in Nat BY SMT
<1> QED BY <1>2, <1>3

LEMMA Division ==
  ASSUME NEW a \in Int, NEW b \in Nat \ {0}
  PROVE  /\ a \div b \in Int /\ (a \div b) * b <= a /\ a < (a \div b) * b + b
OBVIOUS

\* Every question is in one part, at one place of it; no part is empty.
Partition(q, parts) ==
  /\ \A p \in DOMAIN parts : parts[p] # <<>>
  /\ \A p \in DOMAIN parts : \A i \in DOMAIN parts[p] : \E j \in DOMAIN q : parts[p][i] = q[j]
  /\ \A p, r \in DOMAIN parts : \A i \in DOMAIN parts[p], k \in DOMAIN parts[r] :
       parts[p][i].id = parts[r][k].id => p = r /\ i = k
  /\ \A j \in DOMAIN q : \E p \in DOMAIN parts : \E i \in DOMAIN parts[p] : parts[p][i] = q[j]

\* The c-th piece starts behind c - 1 whole ones.
Pieces(q, size, pieces) ==
  /\ \A c \in DOMAIN pieces :
       /\ pieces[c] # <<>> /\ Len(pieces[c]) <= size
       /\ \A i \in DOMAIN pieces[c] : /\ i \in 1 .. size /\ (c - 1) * size + i \in DOMAIN q
                                       /\ pieces[c][i] = q[(c - 1) * size + i]
  /\ \A j \in DOMAIN q :
       \E c \in DOMAIN pieces : \E i \in DOMAIN pieces[c] : j = (c - 1) * size + i

LEMMA PieceAt ==
  ASSUME NEW X, NEW q \in Seq(X), NEW size \in Nat \ {0}
  PROVE  /\ ChunkQuestions(q, size) \in Seq(Seq(X))
         /\ Pieces(q, size, ChunkQuestions(q, size))
<1>1. PICK len \in Nat : len = Len(q) /\ DOMAIN q = 1 .. len OBVIOUS
<1>2. PICK count \in Int : /\ count = (len + size - 1) \div size
                           /\ count * size <= len + size - 1 /\ len + size - 1 < count * size + size
  <2>1. PICK a \in Int : a = len + size - 1 OBVIOUS
  <2>2. a \div size \in Int /\ (a \div size) * size <= a /\ a < (a \div size) * size + size
    BY Division
  <2> QED BY <2>1, <2>2
<1> DEFINE end(c) == IF c * size > len THEN len ELSE c * size
           pieces == ChunkQuestions(q, size)
<1>3. pieces = [c \in 1 .. count |-> SubSeq(q, (c - 1) * size + 1, end(c))]
  <2>1. ~(size < 1) OBVIOUS
  <2> QED BY <1>1, <1>2, <2>1, Zenon DEF ChunkQuestions
<1>4. count \in Nat
  <2>1. SUFFICES ASSUME count < 0 PROVE FALSE OBVIOUS
  <2>2. (count + 1) * size <= 0 * size BY <2>1, Multiples
  <2>3. (count + 1) * size = count * size + size OBVIOUS
  <2> QED BY <1>2, <2>2, <2>3
<1>5. ASSUME NEW c \in 1 .. count
      PROVE  /\ (c - 1) * size \in Nat /\ (c - 1) * size + 1 <= len /\ end(c) \in Nat
             /\ c * size = (c - 1) * size + size
             /\ (c - 1) * size + 1 <= end(c) /\ end(c) <= len /\ end(c) <= (c - 1) * size + size
  <2>1. (c - 1) * size \in Nat /\ c * size = (c - 1) * size + size
    <3>1. c \in Int /\ c - 1 \in Nat BY <1>4
    <3>2. PICK d \in Nat : d = c - 1 BY <3>1
    <3>3. d * size \in Nat /\ (d + 1) * size = d * size + size BY SMT
    <3> QED BY <3>1, <3>2, <3>3
  <2>2. c * size <= count * size BY <1>4, Multiples
  <2>3. count * size \in Int BY <1>4
  <2> QED BY <1>1, <1>2, <2>1, <2>2, <2>3
<1>6. ASSUME NEW c \in 1 .. count
      PROVE  /\ pieces[c] \in Seq(X) /\ Len(pieces[c]) = end(c) - (c - 1) * size
             /\ DOMAIN pieces[c] = 1 .. (end(c) - (c - 1) * size)
             /\ \A i \in DOMAIN pieces[c] : pieces[c][i] = q[(c - 1) * size + i]
  <2>1. PICK from \in Int, to \in Int : from = (c - 1) * size + 1 /\ to = end(c) BY <1>5
  <2>2. 1 <= from /\ from <= to /\ to <= len BY <1>5, <2>1
  <2>3. pieces[c] = SubSeq(q, from, to) BY <1>3, <2>1
  <2>4. PICK w : w = SubSeq(q, from, to) OBVIOUS
  <2>5. /\ w \in Seq(X) /\ Len(w) = to - from + 1 /\ DOMAIN w = 1 .. (to - from + 1)
        /\ \A i \in 1 .. (to - from + 1) : w[i] = q[from + i - 1]
    BY <1>1, <2>2, <2>4
  <2>6. to - from + 1 = end(c) - (c - 1) * size BY <1>5, <2>1
  <2>7. \A i \in Int : from + i - 1 = (c - 1) * size + i BY <1>5, <2>1
  <2> QED BY <2>3, <2>4, <2>5, <2>6, <2>7
<1> HIDE DEF pieces
<1>7. pieces \in Seq(Seq(X))
  <2>1. DOMAIN pieces = 1 .. count BY <1>3
  <2>2. pieces \in [1 .. count -> Seq(X)] BY <1>3, <1>6
  <2> QED BY <1>4, <2>2
<1>8. DOMAIN pieces = 1 .. count BY <1>3
<1>9. ASSUME NEW c \in DOMAIN pieces
      PROVE  /\ pieces[c] # <<>> /\ Len(pieces[c]) <= size
             /\ \A i \in DOMAIN pieces[c] : /\ i \in 1 .. size /\ (c - 1) * size + i \in DOMAIN q
                                             /\ pieces[c][i] = q[(c - 1) * size + i]
  <2>1. c \in 1 .. count BY <1>8
  <2>2. PICK before \in Nat, last \in Nat : before = (c - 1) * size /\ last = end(c) BY <1>5, <2>1
  <2>3. before + 1 <= last /\ last <= len /\ last <= before + size BY <1>5, <2>1, <2>2
  <2>4. /\ Len(pieces[c]) = last - before /\ DOMAIN pieces[c] = 1 .. (last - before)
        /\ pieces[c] \in Seq(X) /\ \A i \in DOMAIN pieces[c] : pieces[c][i] = q[before + i]
    BY <1>6, <2>1, <2>2
  <2>5. pieces[c] # <<>> BY <2>3, <2>4
  <2>6. \A i \in DOMAIN pieces[c] : i \in 1 .. size /\ before + i \in DOMAIN q
    BY <1>1, <2>3, <2>4
  <2> QED BY <2>2, <2>3, <2>4, <2>5, <2>6
<1>10. ASSUME NEW j \in DOMAIN q
       PROVE  \E c \in DOMAIN pieces : \E i \in DOMAIN pieces[c] : j = (c - 1) * size + i
  <2>1. j \in 1 .. len BY <1>1
  <2>2. PICK d \in Int : d * size <= j - 1 /\ j - 1 < d * size + size
    <3>1. PICK a \in Int : a = j - 1 BY <2>1
    <3>2. a \div size \in Int /\ (a \div size) * size <= a /\ a < (a \div size) * size + size
      BY Division
    <3> QED BY <3>1, <3>2
  <2>3. d >= 0
    <3>1. SUFFICES ASSUME d < 0 PROVE FALSE BY <2>2
    <3>2. (d + 1) * size <= 0 * size BY <3>1, Multiples
    <3>3. (d + 1) * size = d * size + size OBVIOUS
    <3> QED BY <2>1, <2>2, <3>2, <3>3
  <2>4. d + 1 <= count
    <3>1. SUFFICES ASSUME count <= d PROVE FALSE BY <2>2, <1>4
    <3>2. count * size <= d * size BY <1>4, <3>1, Multiples
    <3> QED BY <1>2, <2>1, <2>2, <3>2
  <2>5. PICK c : c = d + 1 OBVIOUS
  <2>6. c \in 1 .. count /\ c - 1 = d BY <2>3, <2>4, <2>5
  <2>7. PICK before \in Int : before = d * size OBVIOUS
  <2>8. PICK i \in Int : i = j - before BY <2>1
  <2>9. i \in 1 .. size /\ before + i = j /\ (c - 1) * size = before
    BY <2>1, <2>2, <2>6, <2>7, <2>8
  <2>10. PICK last \in Nat : last = end(c) BY <1>5, <2>6
  <2>11. DOMAIN pieces[c] = 1 .. (last - before) BY <1>6, <2>6, <2>9, <2>10
  <2>12. j <= last
    <3>1. c * size = before + size BY <1>5, <2>6, <2>9
    <3>2. last = IF before + size > len THEN len ELSE before + size BY <2>10, <3>1
    <3> QED BY <2>1, <2>9, <3>2
  <2>13. i \in DOMAIN pieces[c] BY <2>8, <2>9, <2>11, <2>12
  <2> QED BY <1>8, <2>6, <2>9, <2>13
<1>11. Pieces(q, size, pieces) BY <1>9, <1>10, Zenon DEF Pieces
<1> QED BY <1>7, <1>11 DEF pieces

LEMMA PiecesPartition ==
  ASSUME NEW X, NEW q \in Seq(X), DistinctIds(q), NEW size \in Nat \ {0}
  PROVE  ChunkQuestions(q, size) \in Seq(Seq(X)) /\ Partition(q, ChunkQuestions(q, size))
<1>1. PICK pieces : pieces = ChunkQuestions(q, size) OBVIOUS
<1>2. pieces \in Seq(Seq(X)) /\ Pieces(q, size, pieces) BY <1>1, PieceAt
<1>3. \A c \in DOMAIN pieces :
         /\ pieces[c] # <<>>
         /\ \A i \in DOMAIN pieces[c] : /\ i \in 1 .. size /\ (c - 1) * size + i \in DOMAIN q
                                         /\ pieces[c][i] = q[(c - 1) * size + i]
  BY <1>2, Zenon DEF Pieces
<1>4. \A j \in DOMAIN q :
         \E c \in DOMAIN pieces : \E i \in DOMAIN pieces[c] : j = (c - 1) * size + i
  BY <1>2, Zenon DEF Pieces
<1>5. \A p \in DOMAIN pieces : p \in Int BY <1>2
<1>6. ASSUME NEW p \in DOMAIN pieces, NEW r \in DOMAIN pieces, NEW i \in 1 .. size, NEW k \in 1 .. size,
             (p - 1) * size + i = (r - 1) * size + k
      PROVE  p = r /\ i = k
  <2>1. p \in Int /\ r \in Int BY <1>5
  <2>2. ~(p < r)
    <3>1. SUFFICES ASSUME p < r PROVE FALSE OBVIOUS
    <3>2. p * size <= (r - 1) * size BY <2>1, <3>1, Multiples
    <3>3. p * size = (p - 1) * size + size BY <2>1
    <3> QED BY <1>6, <2>1, <3>2, <3>3
  <2>3. ~(r < p)
    <3>1. SUFFICES ASSUME r < p PROVE FALSE OBVIOUS
    <3>2. r * size <= (p - 1) * size BY <2>1, <3>1, Multiples
    <3>3. r * size = (r - 1) * size + size BY <2>1
    <3> QED BY <1>6, <2>1, <3>2, <3>3
  <2>4. p = r BY <2>1, <2>2, <2>3
  <2>5. (p - 1) * size \in Int BY <2>1
  <2> QED BY <1>6, <2>4, <2>5
<1>7. ASSUME NEW p \in DOMAIN pieces, NEW r \in DOMAIN pieces,
             NEW i \in DOMAIN pieces[p], NEW k \in DOMAIN pieces[r], pieces[p][i].id = pieces[r][k].id
      PROVE  p = r /\ i = k
  <2>1. /\ i \in 1 .. size /\ (p - 1) * size + i \in DOMAIN q /\ pieces[p][i] = q[(p - 1) * size + i]
        /\ k \in 1 .. size /\ (r - 1) * size + k \in DOMAIN q /\ pieces[r][k] = q[(r - 1) * size + k]
    BY <1>3, Zenon
  <2>2. (p - 1) * size + i = (r - 1) * size + k BY <1>7, <2>1, Zenon DEF DistinctIds
  <2> QED BY <1>6, <2>1, <2>2
<1>8. ASSUME NEW p \in DOMAIN pieces, NEW i \in DOMAIN pieces[p]
      PROVE  \E j \in DOMAIN q : pieces[p][i] = q[j]
  BY <1>3, Zenon
<1>9. ASSUME NEW j \in DOMAIN q PROVE \E p \in DOMAIN pieces : \E i \in DOMAIN pieces[p] : pieces[p][i] = q[j]
  <2>1. PICK p \in DOMAIN pieces : \E i \in DOMAIN pieces[p] : j = (p - 1) * size + i BY <1>4, Zenon
  <2>2. PICK i \in DOMAIN pieces[p] : j = (p - 1) * size + i BY <2>1
  <2> QED BY <1>3, <2>2, Zenon
<1>10. \A p \in DOMAIN pieces : pieces[p] # <<>> BY <1>3, Zenon
<1>11. Partition(q, pieces) BY <1>7, <1>8, <1>9, <1>10, Zenon DEF Partition
<1> QED BY <1>1, <1>2, <1>11

\* The order of the domains has each of them once.
DomainsOnce(q, order) ==
  /\ \A k \in DOMAIN order : \E i \in DOMAIN q : order[k] = q[i].domain
  /\ \A k, l \in DOMAIN order : order[k] = order[l] => k = l
  /\ \A i \in DOMAIN q : \E k \in DOMAIN order : order[k] = q[i].domain

LEMMA DomainsInOrder ==
  ASSUME NEW X, NEW q \in Seq(X)
  PROVE  /\ \E n \in Nat : DOMAIN DomainOrder(q) = 1 .. n
         /\ DomainsOnce(q, DomainOrder(q))
<1> DEFINE first == {i \in DOMAIN q : \A j \in 1 .. (i - 1) : q[j].domain # q[i].domain}
           with  == Sublist(q, first)
           n     == Cardinality(first)
           order == DomainOrder(q)
<1>1. DOMAIN q \in SUBSET Nat OBVIOUS
<1>2. order = [k \in DOMAIN with |-> with[k].domain] BY DEF DomainOrder
<1>3. \A i, j \in first : q[i].domain = q[j].domain => i = j
  <2> SUFFICES ASSUME NEW i \in first, NEW j \in first, q[i].domain = q[j].domain PROVE i = j
    OBVIOUS
  <2>1. i \in Nat /\ j \in Nat /\ i \in DOMAIN q /\ j \in DOMAIN q BY <1>1
  <2>2. i >= 1 /\ j >= 1 OBVIOUS
  <2>3. ~(i < j)
    <3>1. SUFFICES ASSUME i < j PROVE FALSE OBVIOUS
    <3>2. i \in 1 .. (j - 1) BY <2>1, <2>2, <3>1
    <3> QED BY <3>2
  <2>4. ~(j < i)
    <3>1. SUFFICES ASSUME j < i PROVE FALSE OBVIOUS
    <3>2. j \in 1 .. (i - 1) BY <2>1, <2>2, <3>1
    <3> QED BY <3>2
  <2> QED BY <2>1, <2>3, <2>4
<1>4. ASSUME NEW j \in DOMAIN q PROVE \E i \in first : q[i].domain = q[j].domain
  <2> DEFINE same == {i \in DOMAIN q : q[i].domain = q[j].domain}
  <2>1. same \in SUBSET Nat /\ same # {} BY <1>1
  <2>2. PICK i \in same : \A k \in same : i <= k
    <3> HIDE DEF same
    <3> QED BY <2>1, LeastNatural
  <2>3. \A k \in 1 .. (i - 1) : k \notin same BY <1>1, <2>2
  <2>4. \A k \in 1 .. (i - 1) : k \in DOMAIN q OBVIOUS
  <2>5. i \in first BY <2>2, <2>3, <2>4
  <2> QED BY <2>2, <2>5
<1>5. first \in SUBSET DOMAIN q OBVIOUS
<1> HIDE DEF first
<1>6. PICK at : GoesThrough(at, n, first) /\ with = [k \in 1 .. n |-> q[at[k]]]
  BY <1>5, SublistPlaces
<1>7. n \in Nat BY <1>5, SublistPlaces
<1> HIDE DEF n, with, order
<1>8. DOMAIN order = 1 .. n /\ \A k \in 1 .. n : order[k] = q[at[k]].domain BY <1>2, <1>6
<1>9. \A k \in 1 .. n : at[k] \in first /\ at[k] \in DOMAIN q BY <1>5, <1>6 DEF GoesThrough
<1>10. ASSUME NEW k \in 1 .. n, NEW l \in 1 .. n, order[k] = order[l] PROVE k = l
  <2>1. at[k] = at[l] BY <1>3, <1>8, <1>9, <1>10
  <2>2. at[k] \in Int BY <1>1, <1>9
  <2>3. ~(k < l) /\ ~(l < k) BY <1>6, <2>1, <2>2 DEF GoesThrough
  <2> QED BY <2>3
<1>11. ASSUME NEW i \in DOMAIN q PROVE \E k \in 1 .. n : order[k] = q[i].domain
  <2>1. PICK j \in first : q[j].domain = q[i].domain BY <1>4
  <2>2. PICK k \in 1 .. n : at[k] = j BY <1>6 DEF GoesThrough
  <2> QED BY <1>8, <2>1, <2>2
<1>12. DomainsOnce(q, order) BY <1>8, <1>9, <1>10, <1>11 DEF DomainsOnce
<1> QED BY <1>7, <1>8, <1>12 DEF order

\* What OfDomain picks out: every question of the domain, once.
LEMMA OfDomainPlaces ==
  ASSUME NEW X, NEW q \in Seq(X), NEW d
  PROVE  /\ OfDomain(q, d) \in Seq(X)
         /\ \A k \in DOMAIN OfDomain(q, d) :
              \E i \in DOMAIN q : q[i].domain = d /\ OfDomain(q, d)[k] = q[i]
         /\ \A i \in DOMAIN q : q[i].domain = d =>
              \E k \in DOMAIN OfDomain(q, d) : OfDomain(q, d)[k] = q[i]
         /\ DistinctIds(q) => DistinctIds(OfDomain(q, d))
<1> DEFINE P == {i \in DOMAIN q : q[i].domain = d}
           n == Cardinality(P)
           w == OfDomain(q, d)
<1>1. P \in SUBSET DOMAIN q /\ \A i \in DOMAIN q : i \in P <=> q[i].domain = d OBVIOUS
<1>0. P \in SUBSET DOMAIN q OBVIOUS
<1>2. w = Sublist(q, P) BY DEF OfDomain
<1> HIDE DEF P
<1>3. PICK at : GoesThrough(at, n, P) /\ Sublist(q, P) = [k \in 1 .. n |-> q[at[k]]]
  BY <1>0, SublistPlaces
<1>4. n \in Nat /\ w \in Seq(X) BY <1>0, <1>2, SublistPlaces
<1> HIDE DEF n, w
<1>5. DOMAIN w = 1 .. n /\ \A k \in 1 .. n : w[k] = q[at[k]] BY <1>2, <1>3
<1>6. \A k \in 1 .. n : at[k] \in P /\ at[k] \in DOMAIN q /\ at[k] \in Int BY <1>1, <1>3 DEF GoesThrough
<1>7. ASSUME NEW k \in DOMAIN w PROVE \E i \in DOMAIN q : q[i].domain = d /\ w[k] = q[i]
  BY <1>1, <1>5, <1>6
<1>8. ASSUME NEW i \in DOMAIN q, q[i].domain = d PROVE \E k \in DOMAIN w : w[k] = q[i]
  <2>1. i \in P BY <1>1, <1>8
  <2>2. PICK k \in 1 .. n : at[k] = i BY <1>3, <2>1 DEF GoesThrough
  <2> QED BY <1>5, <2>2
<1>9. ASSUME DistinctIds(q), NEW k \in DOMAIN w, NEW l \in DOMAIN w, w[k].id = w[l].id PROVE k = l
  <2>1. at[k] = at[l] BY <1>5, <1>6, <1>9 DEF DistinctIds
  <2>2. ~(k < l) /\ ~(l < k) BY <1>3, <1>5, <1>6, <2>1 DEF GoesThrough
  <2> QED BY <1>5, <2>2
<1>10. DistinctIds(q) => DistinctIds(w) BY <1>9 DEF DistinctIds
<1> QED BY <1>4, <1>7, <1>8, <1>10 DEF w

\* The groups split the questions.
LEMMA GroupsPartition ==
  ASSUME NEW X, NEW q \in Seq(X), DistinctIds(q)
  PROVE  /\ GroupByDomain(q) \in Seq(Seq(X)) /\ Partition(q, GroupByDomain(q))
         /\ \A g \in DOMAIN GroupByDomain(q) : DistinctIds(GroupByDomain(q)[g])
<1> DEFINE order == DomainOrder(q)
           groups == GroupByDomain(q)
<1>1. PICK n \in Nat : DOMAIN order = 1 .. n BY DomainsInOrder
<1>2. DomainsOnce(q, order) BY DomainsInOrder
<1>3. groups = [g \in DOMAIN order |-> OfDomain(q, order[g])] BY DEF GroupByDomain
<1> HIDE DEF order, groups
<1>4. DOMAIN groups = 1 .. n /\ \A g \in 1 .. n : groups[g] = OfDomain(q, order[g]) BY <1>1, <1>3
<1>5. ASSUME NEW g \in DOMAIN groups
      PROVE  /\ groups[g] \in Seq(X) /\ DistinctIds(groups[g])
             /\ \A k \in DOMAIN groups[g] : \E i \in DOMAIN q : q[i].domain = order[g] /\ groups[g][k] = q[i]
             /\ \A i \in DOMAIN q : q[i].domain = order[g] => \E k \in DOMAIN groups[g] : groups[g][k] = q[i]
  <2> DEFINE d == order[g]
             w == OfDomain(q, d)
  <2>1. /\ w \in Seq(X)
        /\ \A k \in DOMAIN w : \E i \in DOMAIN q : q[i].domain = d /\ w[k] = q[i]
        /\ \A i \in DOMAIN q : q[i].domain = d => \E k \in DOMAIN w : w[k] = q[i]
        /\ DistinctIds(q) => DistinctIds(w)
    BY OfDomainPlaces, Zenon
  <2> HIDE DEF w
  <2>2. w = groups[g] BY <1>4 DEF w
  <2> QED BY <2>1, <2>2
<1>6. groups \in Seq(Seq(X))
  <2>1. groups \in [1 .. n -> Seq(X)] BY <1>3, <1>4, <1>5
  <2> QED BY <2>1
<1>7. ASSUME NEW g \in DOMAIN groups PROVE groups[g] # <<>>
  <2>1. PICK i \in DOMAIN q : order[g] = q[i].domain BY <1>1, <1>2, <1>4 DEF DomainsOnce
  <2>2. PICK k \in DOMAIN groups[g] : groups[g][k] = q[i] BY <1>5, <2>1
  <2>3. DOMAIN groups[g] # {} BY <2>2
  <2>4. groups[g] \in Seq(X) BY <1>5
  <2> QED BY <2>3, <2>4
<1>8. ASSUME NEW g \in DOMAIN groups, NEW h \in DOMAIN groups, NEW i \in DOMAIN groups[g], NEW k \in DOMAIN groups[h],
             groups[g][i].id = groups[h][k].id
      PROVE  g = h /\ i = k
  <2>1. PICK a \in DOMAIN q : q[a].domain = order[g] /\ groups[g][i] = q[a] BY <1>5
  <2>2. PICK b \in DOMAIN q : q[b].domain = order[h] /\ groups[h][k] = q[b] BY <1>5
  <2>3. a = b BY <1>8, <2>1, <2>2 DEF DistinctIds
  <2>4. g = h BY <1>1, <1>2, <1>4, <2>1, <2>2, <2>3 DEF DomainsOnce
  <2>5. DistinctIds(groups[g]) BY <1>5
  <2> QED BY <1>8, <2>4, <2>5 DEF DistinctIds
<1>9. ASSUME NEW j \in DOMAIN q PROVE \E g \in DOMAIN groups : \E k \in DOMAIN groups[g] : groups[g][k] = q[j]
  <2>1. PICK g \in DOMAIN groups : order[g] = q[j].domain BY <1>1, <1>2, <1>4 DEF DomainsOnce
  <2> QED BY <1>5, <2>1
<1>10. \A g \in DOMAIN groups : \A i \in DOMAIN groups[g] : \E j \in DOMAIN q : groups[g][i] = q[j]
  BY <1>5
<1>11. Partition(q, groups) BY <1>7, <1>8, <1>9, <1>10, Zenon DEF Partition
<1> QED BY <1>4, <1>5, <1>6, <1>11 DEF groups

\* The chunks of a run split its questions.
LEMMA ChunksPartition ==
  ASSUME NEW X, NEW q \in Seq(X), DistinctIds(q), NEW size \in Nat \ {0}
  PROVE  Chunks(q, size) \in Seq(Seq(X)) /\ Partition(q, Chunks(q, size))
<1>1. PICK groups : groups = GroupByDomain(q) OBVIOUS
<1>2. /\ groups \in Seq(Seq(X)) /\ Partition(q, groups)
      /\ \A g \in DOMAIN groups : DistinctIds(groups[g])
  BY <1>1, GroupsPartition
<1>3. PICK n \in Nat : DOMAIN groups = 1 .. n BY <1>2
<1>4. PICK parts : parts = [g \in DOMAIN groups |-> ChunkQuestions(groups[g], size)] OBVIOUS
<1>5. ASSUME NEW g \in 1 .. n
      PROVE  parts[g] \in Seq(Seq(X)) /\ Partition(groups[g], parts[g])
  <2>1. PICK w \in Seq(X) : w = groups[g] BY <1>2, <1>3
  <2>2. DistinctIds(w) BY <1>2, <1>3, <2>1
  <2>3. ChunkQuestions(w, size) \in Seq(Seq(X)) /\ Partition(w, ChunkQuestions(w, size))
    BY <2>2, PiecesPartition
  <2>4. parts[g] = ChunkQuestions(w, size) BY <1>3, <1>4, <2>1
  <2> QED BY <2>1, <2>3, <2>4
<1>6. DOMAIN parts = 1 .. n BY <1>3, <1>4
<1>7. PICK T : T = Seq(X) OBVIOUS
<1>8. parts \in Seq(Seq(T))
  <2>1. parts \in [1 .. n -> Seq(T)] BY <1>3, <1>4, <1>5, <1>7
  <2> QED BY <2>1
<1>9. PICK all : all = Chunks(q, size) OBVIOUS
<1>10. all = FlattenSeq(parts) BY <1>1, <1>4, <1>9 DEF Chunks
<1>11. all \in Seq(T) /\ Flattened(parts, Len(parts), all) BY <1>8, <1>10, FlattenPlaces
<1>12. Len(parts) = n BY <1>6, <1>8
<1>13. PICK part, place : Placed(parts, n, all, part, place) BY <1>11, <1>12 DEF Flattened
<1>14. \A k \in DOMAIN all : /\ part[k] \in 1 .. n /\ place[k] \in DOMAIN parts[part[k]]
                             /\ all[k] = parts[part[k]][place[k]]
  BY <1>13, Zenon DEF Placed
<1>15. \A k, l \in DOMAIN all : part[k] = part[l] /\ place[k] = place[l] => k = l
  BY <1>13, Zenon DEF Placed
<1>16. \A g \in 1 .. n : \A i \in DOMAIN parts[g] : \E k \in DOMAIN all : part[k] = g /\ place[k] = i
  BY <1>13, Zenon DEF Placed
<1>17. ASSUME NEW k \in DOMAIN all
       PROVE  /\ all[k] # <<>>
              /\ \A i \in DOMAIN all[k] : \E j \in DOMAIN groups[part[k]] : all[k][i] = groups[part[k]][j]
  <2>1. PICK v, a : v = parts[part[k]] /\ a = place[k] OBVIOUS
  <2>2. PICK w : w = groups[part[k]] OBVIOUS
  <2>3. Partition(w, v) /\ a \in DOMAIN v /\ all[k] = v[a] BY <1>5, <1>14, <2>1, <2>2
  <2>4. v[a] # <<>> /\ \A i \in DOMAIN v[a] : \E j \in DOMAIN w : v[a][i] = w[j]
    BY <2>3, Zenon DEF Partition
  <2> QED BY <2>2, <2>3, <2>4
<1>18. ASSUME NEW k \in DOMAIN all, NEW i \in DOMAIN all[k] PROVE \E j \in DOMAIN q : all[k][i] = q[j]
  <2>1. PICK g \in DOMAIN groups : g = part[k] BY <1>3, <1>14
  <2>2. PICK j \in DOMAIN groups[g] : all[k][i] = groups[g][j] BY <1>17, <2>1
  <2>3. \E h \in DOMAIN q : groups[g][j] = q[h] BY <1>2 DEF Partition
  <2> QED BY <2>2, <2>3
<1>19. ASSUME NEW k \in DOMAIN all, NEW l \in DOMAIN all, NEW i \in DOMAIN all[k], NEW j \in DOMAIN all[l],
              all[k][i].id = all[l][j].id
       PROVE  k = l /\ i = j
  <2>1. PICK g \in DOMAIN groups, h \in DOMAIN groups : g = part[k] /\ h = part[l] BY <1>3, <1>14
  <2>2. PICK a \in DOMAIN groups[g] : all[k][i] = groups[g][a] BY <1>17, <2>1
  <2>3. PICK b \in DOMAIN groups[h] : all[l][j] = groups[h][b] BY <1>17, <2>1
  <2>4. groups[g][a].id = groups[h][b].id BY <1>19, <2>2, <2>3
  <2>5. g = h BY <1>2, <2>4, Zenon DEF Partition
  <2>6. PICK v, c, d : v = parts[g] /\ c = place[k] /\ d = place[l] OBVIOUS
  <2>7. /\ c \in DOMAIN v /\ d \in DOMAIN v /\ all[k] = v[c] /\ all[l] = v[d]
    BY <1>14, <2>1, <2>5, <2>6
  <2>8. i \in DOMAIN v[c] /\ j \in DOMAIN v[d] /\ v[c][i].id = v[d][j].id BY <1>19, <2>7
  <2>9. Partition(groups[g], v) BY <1>3, <1>5, <2>6
  <2>10. c = d /\ i = j BY <2>7, <2>8, <2>9 DEF Partition
  <2> QED BY <1>15, <2>1, <2>5, <2>6, <2>10
<1>20. ASSUME NEW j \in DOMAIN q PROVE \E k \in DOMAIN all : \E i \in DOMAIN all[k] : all[k][i] = q[j]
  <2>1. PICK g \in 1 .. n : \E i \in DOMAIN groups[g] : groups[g][i] = q[j]
    BY <1>2, <1>3, Zenon DEF Partition
  <2>2. PICK a \in DOMAIN groups[g] : groups[g][a] = q[j] BY <2>1
  <2>3. PICK p \in DOMAIN parts[g] : \E i \in DOMAIN parts[g][p] : parts[g][p][i] = groups[g][a]
    BY <1>5, Zenon DEF Partition
  <2>4. PICK k \in DOMAIN all : part[k] = g /\ place[k] = p BY <1>16
  <2> QED BY <1>14, <2>2, <2>3, <2>4, Zenon
<1>21. Partition(q, all) BY <1>17, <1>18, <1>19, <1>20, Zenon DEF Partition
<1> QED BY <1>7, <1>9, <1>11, <1>21

(***************************************************************************)
(* Peers                                                                   *)
(***************************************************************************)
\* Answered questions of q, none twice, not more than the limit.
SampleOf(q, limit, peers) ==
  /\ Len(peers) <= limit
  /\ \A k \in DOMAIN peers : \E i \in DOMAIN q : ~q[i].blank /\ peers[k] = q[i]
  /\ DistinctIds(peers)

LEMMA PeersAreASample ==
  ASSUME NEW X, NEW q \in Seq(X), DistinctIds(q), NEW limit \in Nat \ {0}
  PROVE  BuildPeers(q, limit) \in Seq(X) /\ SampleOf(q, limit, BuildPeers(q, limit))
<1> DEFINE P == {i \in DOMAIN q : ~q[i].blank}
<1>1. PICK w : w = Sublist(q, P) OBVIOUS
<1>2. /\ w \in Seq(X) /\ DistinctIds(w)
      /\ \A k \in DOMAIN w : \E i \in P : w[k] = q[i]
  <2>1. P \in SUBSET DOMAIN q OBVIOUS
  <2> HIDE DEF P
  <2> QED BY <1>1, <2>1, SublistKeeps
<1>3. \A k \in DOMAIN w : \E i \in DOMAIN q : ~q[i].blank /\ w[k] = q[i] BY <1>2
<1>4. PICK n \in Nat : n = Len(w) /\ DOMAIN w = 1 .. n BY <1>2
<1>5. PICK step \in Nat \ {0} : step = IF n > limit /\ limit > 0 THEN n \div limit ELSE 1
  <2>1. CASE n > limit
    <3>1. n \div limit \in Int /\ (n \div limit) * limit <= n /\ n < (n \div limit) * limit + limit
      BY Division
    <3>2. PICK d \in Int : d = n \div limit BY <3>1
    <3>3. d >= 1
      <4>1. SUFFICES ASSUME d <= 0 PROVE FALSE BY <3>2
      <4>2. d * limit <= 0 * limit BY <4>1, Multiples
      <4>3. d * limit \in Int /\ n < d * limit + limit BY <3>1, <3>2
      <4> QED BY <2>1, <4>2, <4>3
    <3> QED BY <2>1, <3>2, <3>3
  <2>2. CASE ~(n > limit) BY <2>2
  <2> QED BY <2>1, <2>2
<1>6. PICK all \in Int : all = (n + step - 1) \div step /\ all * step <= n + step - 1
  <2>1. PICK a \in Int : a = n + step - 1 OBVIOUS
  <2>2. a \div step \in Int /\ (a \div step) * step <= a BY Division
  <2> QED BY <2>1, <2>2
<1>7. PICK size \in Int : size = (IF all > limit THEN limit ELSE all) OBVIOUS
<1>8. size <= all /\ size <= limit BY <1>7
<1>9. PICK peers : peers = [k \in 1 .. size |-> w[(k - 1) * step + 1]] OBVIOUS
<1>10. peers = BuildPeers(q, limit) BY <1>1, <1>4, <1>5, <1>6, <1>7, <1>9, Zenon DEF BuildPeers
<1>11. ASSUME NEW k \in 1 .. size PROVE (k - 1) * step + 1 \in 1 .. n
  <2>1. k \in Int /\ k <= all /\ k - 1 >= 0 BY <1>8
  <2>2. k * step <= all * step BY <2>1, Multiples
  <2>3. 0 * step <= (k - 1) * step BY <2>1, Multiples
  <2>4. k * step = (k - 1) * step + step BY <2>1
  <2>5. PICK a \in Int, b \in Int : a = (k - 1) * step /\ b = all * step BY <2>1
  <2>6. 0 <= a /\ a + step <= b /\ b <= n + step - 1 BY <1>6, <2>2, <2>3, <2>4, <2>5
  <2> QED BY <2>5, <2>6
<1>12. DOMAIN peers = 1 .. size /\ \A k \in 1 .. size : peers[k] = w[(k - 1) * step + 1] BY <1>9
<1>13. Len(peers) <= limit /\ peers \in Seq(X)
  <2>1. PICK m \in Nat : 1 .. size = 1 .. m /\ m <= limit
    <3>1. CASE size >= 0 BY <1>8, <3>1
    <3>2. CASE size < 0 BY <3>2
    <3> QED BY <3>1, <3>2
  <2>2. ASSUME NEW k \in 1 .. m PROVE peers[k] \in X
    <3>1. PICK j : j = (k - 1) * step + 1 OBVIOUS
    <3>2. j \in 1 .. n /\ peers[k] = w[j] BY <1>11, <1>12, <2>1, <3>1
    <3> QED BY <1>2, <1>4, <3>2
  <2>3. peers = [k \in 1 .. m |-> w[(k - 1) * step + 1]] BY <1>9, <2>1
  <2>4. peers \in Seq(X) /\ Len(peers) = m BY <2>2, <2>3
  <2> QED BY <2>1, <2>4
<1>14. ASSUME NEW k \in DOMAIN peers PROVE \E i \in DOMAIN q : ~q[i].blank /\ peers[k] = q[i]
  <2>1. PICK j : j = (k - 1) * step + 1 OBVIOUS
  <2>2. j \in DOMAIN w /\ peers[k] = w[j] BY <1>4, <1>11, <1>12, <2>1
  <2> QED BY <1>3, <2>2
<1>15. ASSUME NEW k \in DOMAIN peers, NEW l \in DOMAIN peers, peers[k].id = peers[l].id PROVE k = l
  <2>1. k \in 1 .. size /\ l \in 1 .. size BY <1>12
  <2>2. (k - 1) * step + 1 = (l - 1) * step + 1
    <3>1. PICK i, j : i = (k - 1) * step + 1 /\ j = (l - 1) * step + 1 OBVIOUS
    <3>2. i \in DOMAIN w /\ j \in DOMAIN w /\ w[i].id = w[j].id
      BY <1>4, <1>11, <1>12, <1>15, <2>1, <3>1
    <3> QED BY <1>2, <3>1, <3>2 DEF DistinctIds
  <2>3. (k - 1) * step \in Int /\ (l - 1) * step \in Int BY <2>1
  <2>4. k \in Int /\ l \in Int BY <2>1
  <2>5. ~(k < l)
    <3>1. SUFFICES ASSUME k < l PROVE FALSE OBVIOUS
    <3>2. k * step <= (l - 1) * step BY <2>4, <3>1, Multiples
    <3>3. k * step = (k - 1) * step + step BY <2>4
    <3> QED BY <2>2, <2>3, <3>2, <3>3
  <2>6. ~(l < k)
    <3>1. SUFFICES ASSUME l < k PROVE FALSE OBVIOUS
    <3>2. l * step <= (k - 1) * step BY <2>4, <3>1, Multiples
    <3>3. l * step = (l - 1) * step + step BY <2>4
    <3> QED BY <2>2, <2>3, <3>2, <3>3
  <2> QED BY <2>4, <2>5, <2>6
<1>16. SampleOf(q, limit, peers) BY <1>13, <1>14, <1>15 DEF SampleOf, DistinctIds
<1> QED BY <1>10, <1>13, <1>16

\* What is left without the chunk's own questions.
LEMMA OthersAreASample ==
  ASSUME NEW X, NEW q \in Seq(X), NEW limit \in Nat, NEW peers \in Seq(X), SampleOf(q, limit, peers),
         NEW chunk
  PROVE  /\ SampleOf(q, limit, ExcludeSelf(peers, chunk))
         /\ \A k \in DOMAIN ExcludeSelf(peers, chunk) :
              \A i \in DOMAIN chunk : chunk[i].id # ExcludeSelf(peers, chunk)[k].id
<1> DEFINE P == {k \in DOMAIN peers : \A i \in DOMAIN chunk : chunk[i].id # peers[k].id}
<1>1. PICK w : w = ExcludeSelf(peers, chunk) OBVIOUS
<1>2. /\ w \in Seq(X) /\ Len(w) <= Len(peers) /\ \A k \in DOMAIN w : \E i \in P : w[k] = peers[i]
      /\ DistinctIds(peers) => DistinctIds(w)
  <2>1. P \in SUBSET DOMAIN peers /\ w = Sublist(peers, P) BY <1>1 DEF ExcludeSelf
  <2> HIDE DEF P
  <2> QED BY <2>1, SublistKeeps
<1>3. \A k \in DOMAIN w : \E i \in DOMAIN peers :
        w[k] = peers[i] /\ \A j \in DOMAIN chunk : chunk[j].id # w[k].id
  BY <1>2
<1>4. Len(w) <= limit
  <2>1. PICK a \in Nat, b \in Nat : a = Len(w) /\ b = Len(peers) BY <1>2
  <2> QED BY <1>2, <2>1 DEF SampleOf
<1>5. \A k \in DOMAIN w : \E i \in DOMAIN q : ~q[i].blank /\ w[k] = q[i] BY <1>3 DEF SampleOf
<1>6. SampleOf(q, limit, w) BY <1>2, <1>4, <1>5 DEF SampleOf
<1> QED BY <1>1, <1>3, <1>6

(***************************************************************************)
(* Scores in order                                                         *)
(***************************************************************************)
ScoredAt(q, results) == {i \in DOMAIN q : ValidRiskScore(results[q[i].id].score)}

\* The scores are those on the scale, in the order of the questions.
LEMMA ScoresAre ==
  ASSUME NEW X, NEW q \in Seq(X), NEW results
  PROVE  /\ IsFiniteSet(ScoredAt(q, results)) /\ Cardinality(ScoredAt(q, results)) \in Nat
         /\ Cardinality(ScoredAt(q, results)) <= Len(q)
         /\ Scores(q, results) \in Seq(Scale) /\ Len(Scores(q, results)) = Cardinality(ScoredAt(q, results))
         /\ \E at : /\ GoesThrough(at, Cardinality(ScoredAt(q, results)), ScoredAt(q, results))
                    /\ Scores(q, results) =
                         [k \in 1 .. Cardinality(ScoredAt(q, results)) |-> results[q[at[k]].id].score]
<1>1. PICK P : P = ScoredAt(q, results) OBVIOUS
<1>2. P \in SUBSET DOMAIN q BY <1>1 DEF ScoredAt
<1>3. PICK w : w = Sublist(q, P) OBVIOUS
<1>4. PICK n \in Nat : n = Cardinality(P) /\ n <= Len(q) BY <1>2, SublistPlaces
<1>5. IsFiniteSet(P) BY <1>2, SublistPlaces
<1>6. \E at : GoesThrough(at, Cardinality(P), P) /\ Sublist(q, P) = [k \in 1 .. Cardinality(P) |-> q[at[k]]]
  BY <1>2, SublistPlaces
<1>7. PICK at : GoesThrough(at, n, P) /\ w = [k \in 1 .. n |-> q[at[k]]] BY <1>3, <1>4, <1>6
<1>8. Scores(q, results) = [i \in DOMAIN w |-> results[w[i].id].score] BY <1>1, <1>3 DEF Scores, ScoredAt
<1>9. Scores(q, results) = [k \in 1 .. n |-> results[q[at[k]].id].score] BY <1>7, <1>8
<1>10. \A k \in 1 .. n : results[q[at[k]].id].score \in Scale
  <2>1. \A k \in 1 .. n : at[k] \in P BY <1>7 DEF GoesThrough
  <2> QED BY <1>1, <2>1 DEF ScoredAt, ValidRiskScore
<1>11. Scores(q, results) \in Seq(Scale) /\ Len(Scores(q, results)) = n BY <1>9, <1>10
<1> QED BY <1>1, <1>4, <1>5, <1>7, <1>9, <1>11

\* at lists the places of s from the highest value down.
Ranks(at, s) ==
  /\ at \in [DOMAIN s -> DOMAIN s]
  /\ \A p \in DOMAIN s : \E k \in DOMAIN s : at[k] = p
  /\ \A i, k \in DOMAIN s : at[i] = at[k] => i = k
  /\ \A i, k \in DOMAIN s : i < k => s[at[i]] >= s[at[k]]

LEMMA DescendingRanks ==
  ASSUME NEW s \in Seq(Int)
  PROVE  \E at : Ranks(at, s) /\ Descending(s) = [k \in DOMAIN s |-> s[at[k]]]
<1>1. PICK n \in Nat : n = Len(s) /\ DOMAIN s = 1 .. n OBVIOUS
<1>2. PICK P : P = 1 .. n OBVIOUS
<1>3. IsFiniteSet(P) /\ Cardinality(P) = n BY <1>2, UpToN
<1>4. PICK order : order = {p \in P \X P : \/ s[p[1]] > s[p[2]]
                                           \/ s[p[1]] = s[p[2]] /\ p[1] < p[2]}
  OBVIOUS
<1>5. \A x, y \in P : <<x, y>> \in order <=> s[x] > s[y] \/ (s[x] = s[y] /\ x < y) BY <1>4
<1>6. \A x \in P : s[x] \in Int /\ x \in Int BY <1>1, <1>2
<1>7. Ordering(P, order)
  <2>1. \A x \in P : <<x, x>> \notin order BY <1>5, <1>6
  <2>2. ASSUME NEW x \in P, NEW y \in P, NEW z \in P, <<x, y>> \in order, <<y, z>> \in order
        PROVE  <<x, z>> \in order
    <3>1. s[x] > s[y] \/ (s[x] = s[y] /\ x < y) BY <1>5, <2>2
    <3>2. s[y] > s[z] \/ (s[y] = s[z] /\ y < z) BY <1>5, <2>2
    <3>3. s[x] > s[z] \/ (s[x] = s[z] /\ x < z) BY <1>6, <3>1, <3>2
    <3> QED BY <1>5, <3>3
  <2>3. ASSUME NEW x \in P, NEW y \in P PROVE x = y \/ <<x, y>> \in order \/ <<y, x>> \in order
    <3>1. PICK a \in Int, b \in Int : a = s[x] /\ b = s[y] BY <1>6
    <3>2. x \in Int /\ y \in Int BY <1>6
    <3>3. x = y \/ (a > b \/ (a = b /\ x < y)) \/ (b > a \/ (b = a /\ y < x)) BY <3>2
    <3> QED BY <1>5, <3>1, <3>3
  <2> QED BY <2>1, <2>2, <2>3, Zenon DEF Ordering
<1> DEFINE at == InOrder(P, order)
<1>9. /\ at \in [1 .. n -> P]
      /\ \A x \in P : \E k \in 1 .. n : at[k] = x
      /\ \A i, k \in 1 .. n : i < k <=> <<at[i], at[k]>> \in order
  <2>1. /\ at \in [1 .. Cardinality(P) -> P]
        /\ \A x \in P : \E k \in 1 .. Cardinality(P) : at[k] = x
        /\ \A i, k \in 1 .. Cardinality(P) : i < k <=> <<at[i], at[k]>> \in order
    BY <1>3, <1>7, InOrderRanks
  <2> HIDE DEF at
  <2> QED BY <1>3, <2>1
<1> HIDE DEF at
<1>10. \A i, k \in 1 .. n : i < k => s[at[i]] >= s[at[k]]
  <2> TAKE i, k \in 1 .. n
  <2> HAVE i < k
  <2>1. PICK x \in P, y \in P : x = at[i] /\ y = at[k] /\ <<x, y>> \in order BY <1>9
  <2>2. PICK a \in Int, b \in Int : a = s[x] /\ b = s[y] BY <1>6
  <2>3. a > b \/ a = b BY <1>5, <2>1, <2>2, Zenon
  <2>4. a >= b BY <2>3
  <2> QED BY <2>1, <2>2, <2>4
<1>11. \A i, k \in 1 .. n : at[i] = at[k] => i = k
  <2> TAKE i, k \in 1 .. n
  <2> HAVE at[i] = at[k]
  <2>1. at[i] \in P /\ at[k] \in P BY <1>9
  <2>2. <<at[i], at[k]>> \notin order /\ <<at[k], at[i]>> \notin order BY <1>7, <2>1 DEF Ordering
  <2>3. ~(i < k) /\ ~(k < i) BY <1>9, <2>2
  <2> QED BY <2>3
<1>12. Ranks(at, s) BY <1>1, <1>2, <1>9, <1>10, <1>11 DEF Ranks
<1>13. Descending(s) = [k \in DOMAIN at |-> s[at[k]]] BY <1>1, <1>2, <1>4, Zenon DEF Descending, at
<1>14. Descending(s) = [k \in DOMAIN s |-> s[at[k]]] BY <1>1, <1>9, <1>13
<1> QED BY <1>12, <1>14

(***************************************************************************)
(* Counting                                                                *)
(***************************************************************************)
LEMMA CountStep ==
  ASSUME NEW k \in Nat, NEW Y
  PROVE  /\ IsFiniteSet((1 .. k) \cap Y) /\ Cardinality((1 .. k) \cap Y) \in 0 .. k
         /\ Cardinality((1 .. (k + 1)) \cap Y) =
              Cardinality((1 .. k) \cap Y) + (IF k + 1 \in Y THEN 1 ELSE 0)
<1>1. PICK S, T : S = (1 .. k) \cap Y /\ T = (1 .. (k + 1)) \cap Y OBVIOUS
<1>2. IsFiniteSet(1 .. k) /\ Cardinality(1 .. k) = k BY UpToN
<1>3. S \in SUBSET (1 .. k) BY <1>1
<1>4. IsFiniteSet(S) /\ Cardinality(S) <= k BY <1>2, <1>3, FS_Subset
<1>5. Cardinality(S) \in Nat BY <1>4, FS_CardinalityType
<1>6. k + 1 \notin S BY <1>1
<1>7. Cardinality(T) = Cardinality(S) + (IF k + 1 \in Y THEN 1 ELSE 0)
  <2>1. CASE k + 1 \in Y
    <3>1. T = S \cup {k + 1} BY <1>1, <2>1
    <3>2. Cardinality(S \cup {k + 1}) = Cardinality(S) + 1 BY <1>4, <1>6, FS_AddElement
    <3> QED BY <2>1, <3>1, <3>2
  <2>2. CASE k + 1 \notin Y
    <3>1. T = S BY <1>1, <2>2
    <3> QED BY <1>5, <2>2, <3>1
  <2> QED BY <2>1, <2>2
<1>8. Cardinality(S) \in 0 .. k BY <1>4, <1>5
<1> QED BY <1>1, <1>4, <1>7, <1>8, Zenon

\* A set of places that has, with each of them, those before it.
LEMMA FromTheFirst ==
  ASSUME NEW n \in Nat, NEW D \in SUBSET (1 .. n), \A k \in D : \A j \in 1 .. k : j \in D
  PROVE  Cardinality(D) \in 0 .. n /\ D = 1 .. Cardinality(D)
<1>1. PICK out : out = {k \in 1 .. (n + 1) : k \notin D} OBVIOUS
<1>2. out \in SUBSET Nat /\ n + 1 \in out BY <1>1
<1>3. PICK m \in out : \A k \in out : m <= k BY <1>2, LeastNatural
<1>4. m \in 1 .. (n + 1) /\ m \notin D BY <1>1, <1>3
<1>5. PICK l \in 0 .. n : m = l + 1 BY <1>4
<1>6. \A k \in 1 .. l : k \in D
  <2> TAKE k \in 1 .. l
  <2>1. k \in 1 .. (n + 1) /\ ~(m <= k) BY <1>5
  <2> QED BY <1>1, <1>3, <2>1
<1>7. \A k \in D : k \in 1 .. l
  <2> TAKE k \in D
  <2>1. k \in 1 .. n OBVIOUS
  <2>2. ~(m \in 1 .. k) BY <1>4
  <2> QED BY <1>4, <1>5, <2>1, <2>2
<1>8. D = 1 .. l BY <1>6, <1>7
<1>9. Cardinality(1 .. l) = l BY UpToN
<1> QED BY <1>8, <1>9

(***************************************************************************)
(* Scores by layers: a score of 3 counts in the layers 1, 2 and 3          *)
(***************************************************************************)
AtLeast(s, v) == {i \in DOMAIN s : s[i] >= v}
Layer(s, v)   == Cardinality(AtLeast(s, v))

LEMMA LayerBounds ==
  ASSUME NEW s \in Seq(Scale), NEW v
  PROVE  /\ IsFiniteSet(AtLeast(s, v)) /\ Layer(s, v) \in Nat /\ Layer(s, v) <= Len(s)
         /\ Layer(s, 1) = Len(s)
<1>1. PICK n \in Nat : n = Len(s) /\ DOMAIN s = 1 .. n OBVIOUS
<1>2. IsFiniteSet(1 .. n) /\ Cardinality(1 .. n) = n BY UpToN
<1>3. PICK A : A = AtLeast(s, v) /\ A \in SUBSET (1 .. n) BY <1>1 DEF AtLeast
<1>4. IsFiniteSet(A) /\ Cardinality(A) <= n BY <1>2, <1>3, FS_Subset
<1>5. Cardinality(A) \in Nat BY <1>4, FS_CardinalityType
<1>6. AtLeast(s, 1) = 1 .. n
  <2>1. \A i \in 1 .. n : s[i] >= 1 BY <1>1 DEF Scale, RiskMin, RiskMax
  <2> QED BY <1>1, <2>1 DEF AtLeast
<1> QED BY <1>1, <1>2, <1>3, <1>4, <1>5, <1>6 DEF Layer

\* A total is the sum of its layers.
LEMMA TotalByLayers ==
  ASSUME NEW s \in Seq(Scale)
  PROVE  Total(s) = Layer(s, 1) + Layer(s, 2) + Layer(s, 3) + Layer(s, 4) + Layer(s, 5)
<1>1. PICK n \in Nat : n = Len(s) /\ DOMAIN s = 1 .. n /\ \A k \in 1 .. n : s[k] \in 1 .. 5
  BY DEF Scale, RiskMin, RiskMax
<1>2. s \in Seq(Int) BY DEF Scale, RiskMin, RiskMax
<1>3. PICK sum \in [0 .. n -> Int] :
        /\ sum[0] = 0 /\ \A k \in 1 .. n : sum[k] = sum[k - 1] + s[k]
        /\ Total(s) = sum[n]
  BY <1>1, <1>2, TotalSteps
<1>4. PICK C : C = [k \in 0 .. n |-> [v \in 1 .. 5 |-> Cardinality((1 .. k) \cap AtLeast(s, v))]] OBVIOUS
<1> DEFINE P == {k \in 0 .. n : sum[k] = C[k][1] + C[k][2] + C[k][3] + C[k][4] + C[k][5]}
<1>5. 0 \in P
  <2>1. ASSUME NEW v \in 1 .. 5 PROVE C[0][v] = 0
    <3>1. (1 .. 0) \cap AtLeast(s, v) = {} OBVIOUS
    <3>2. Cardinality({}) = 0 BY FS_EmptySet
    <3> QED BY <1>4, <3>1, <3>2
  <2> QED BY <1>3, <2>1
<1>6. ASSUME NEW k \in 0 .. (n - 1), k \in P PROVE k + 1 \in P
  <2>1. k \in Nat /\ k + 1 \in 1 .. n /\ k \in 0 .. n /\ k + 1 \in 0 .. n /\ (k + 1) - 1 = k OBVIOUS
  <2>2. PICK x \in 1 .. 5 : x = s[k + 1] BY <1>1, <2>1
  <2>3. ASSUME NEW v \in 1 .. 5 PROVE C[k][v] \in Nat /\ C[k + 1][v] = C[k][v] + (IF x >= v THEN 1 ELSE 0)
    <3>1. k + 1 \in AtLeast(s, v) <=> x >= v BY <1>1, <2>1, <2>2 DEF AtLeast
    <3>2. PICK Z : Z = AtLeast(s, v) OBVIOUS
    <3>3. /\ Cardinality((1 .. k) \cap Z) \in 0 .. k
          /\ Cardinality((1 .. (k + 1)) \cap Z) = Cardinality((1 .. k) \cap Z) + (IF k + 1 \in Z THEN 1 ELSE 0)
      BY <2>1, CountStep
    <3>4. C[k][v] = Cardinality((1 .. k) \cap Z) /\ C[k + 1][v] = Cardinality((1 .. (k + 1)) \cap Z)
      BY <1>4, <2>1, <3>2
    <3> QED BY <3>1, <3>2, <3>3, <3>4
  <2>4. sum[k + 1] = sum[k] + x BY <1>3, <2>1, <2>2
  <2>5. sum[k] = C[k][1] + C[k][2] + C[k][3] + C[k][4] + C[k][5] BY <1>6
  <2>6. /\ C[k + 1][1] = C[k][1] + 1 /\ C[k + 1][2] = C[k][2] + (IF x >= 2 THEN 1 ELSE 0)
        /\ C[k + 1][3] = C[k][3] + (IF x >= 3 THEN 1 ELSE 0) /\ C[k + 1][4] = C[k][4] + (IF x >= 4 THEN 1 ELSE 0)
        /\ C[k + 1][5] = C[k][5] + (IF x >= 5 THEN 1 ELSE 0)
    <3>1. 1 \in 1 .. 5 /\ 2 \in 1 .. 5 /\ 3 \in 1 .. 5 /\ 4 \in 1 .. 5 /\ 5 \in 1 .. 5 /\ x >= 1 OBVIOUS
    <3>2. C[k + 1][1] = C[k][1] + (IF x >= 1 THEN 1 ELSE 0) BY <2>3, <3>1
    <3>3. C[k + 1][2] = C[k][2] + (IF x >= 2 THEN 1 ELSE 0) BY <2>3, <3>1
    <3>4. C[k + 1][3] = C[k][3] + (IF x >= 3 THEN 1 ELSE 0) BY <2>3, <3>1
    <3>5. C[k + 1][4] = C[k][4] + (IF x >= 4 THEN 1 ELSE 0) BY <2>3, <3>1
    <3>6. C[k + 1][5] = C[k][5] + (IF x >= 5 THEN 1 ELSE 0) BY <2>3, <3>1
    <3> QED BY <3>1, <3>2, <3>3, <3>4, <3>5, <3>6
  <2>7. C[k][1] \in Nat /\ C[k][2] \in Nat /\ C[k][3] \in Nat /\ C[k][4] \in Nat /\ C[k][5] \in Nat
    <3>1. 1 \in 1 .. 5 /\ 2 \in 1 .. 5 /\ 3 \in 1 .. 5 /\ 4 \in 1 .. 5 /\ 5 \in 1 .. 5 OBVIOUS
    <3>2. \A v \in 1 .. 5 : C[k][v] \in Nat BY <2>3
    <3> QED BY <3>1, <3>2, Zenon
  <2>8. sum[k + 1] = C[k][1] + C[k][2] + C[k][3] + C[k][4] + C[k][5] + x BY <2>4, <2>5
  <2>9. sum[k + 1] = C[k + 1][1] + C[k + 1][2] + C[k + 1][3] + C[k + 1][4] + C[k + 1][5]
    <3>1. PICK a \in Nat : a = C[k][1] BY <2>7
    <3>2. PICK b \in Nat : b = C[k][2] BY <2>7
    <3>3. PICK c \in Nat : c = C[k][3] BY <2>7
    <3>4. PICK d \in Nat : d = C[k][4] BY <2>7
    <3>5. PICK e \in Nat : e = C[k][5] BY <2>7
    <3>6. sum[k + 1] = a + b + c + d + e + x BY <2>8, <3>1, <3>2, <3>3, <3>4, <3>5
    <3>7. /\ C[k + 1][1] = a + 1 /\ C[k + 1][2] = b + (IF x >= 2 THEN 1 ELSE 0)
          /\ C[k + 1][3] = c + (IF x >= 3 THEN 1 ELSE 0) /\ C[k + 1][4] = d + (IF x >= 4 THEN 1 ELSE 0)
          /\ C[k + 1][5] = e + (IF x >= 5 THEN 1 ELSE 0)
      BY <2>6, <3>1, <3>2, <3>3, <3>4, <3>5
    <3>8. a + b + c + d + e + x =
            (a + 1) + (b + (IF x >= 2 THEN 1 ELSE 0)) + (c + (IF x >= 3 THEN 1 ELSE 0))
            + (d + (IF x >= 4 THEN 1 ELSE 0)) + (e + (IF x >= 5 THEN 1 ELSE 0))
      OBVIOUS
    <3> QED BY <3>6, <3>7, <3>8, Zenon
  <2> QED BY <2>1, <2>9
<1>7. P \in SUBSET (0 .. n) OBVIOUS
<1> HIDE DEF P
<1>8. P = 0 .. n BY <1>5, <1>6, <1>7, UpTo
<1>9. sum[n] = C[n][1] + C[n][2] + C[n][3] + C[n][4] + C[n][5]
  <2>1. n \in P BY <1>8
  <2> QED BY <2>1 DEF P
<1>10. \A v \in 1 .. 5 : C[n][v] = Layer(s, v)
  <2> TAKE v \in 1 .. 5
  <2>1. (1 .. n) \cap AtLeast(s, v) = AtLeast(s, v) BY <1>1 DEF AtLeast
  <2>2. n \in 0 .. n OBVIOUS
  <2>3. C[n][v] = Cardinality((1 .. n) \cap AtLeast(s, v)) BY <1>4, <2>2
  <2> QED BY <2>1, <2>3 DEF Layer
<1> QED BY <1>3, <1>9, <1>10

Lesser(a, b) == IF a <= b THEN a ELSE b

\* Of a layer, the n highest scores have as many as they can hold.
LEMMA HeadByLayers ==
  ASSUME NEW s \in Seq(Scale), NEW n \in 1 .. Len(s)
  PROVE  /\ SubSeq(Descending(s), 1, n) \in Seq(Scale) /\ Len(SubSeq(Descending(s), 1, n)) = n
         /\ \A v \in 1 .. 5 : Layer(SubSeq(Descending(s), 1, n), v) = Lesser(n, Layer(s, v))
         /\ Descending(s)[1] \in Scale /\ \A i \in DOMAIN s : s[i] <= Descending(s)[1]
         /\ \A k \in 1 .. n : SubSeq(Descending(s), 1, n)[k] <= Descending(s)[1]
<1>1. PICK len \in Nat : len = Len(s) /\ DOMAIN s = 1 .. len OBVIOUS
<1>2. s \in Seq(Int) /\ \A k \in 1 .. len : s[k] \in Int /\ s[k] \in Scale
  BY <1>1 DEF Scale, RiskMin, RiskMax
<1>3. PICK at : Ranks(at, s) /\ Descending(s) = [k \in DOMAIN s |-> s[at[k]]] BY <1>2, DescendingRanks
<1>4. PICK d : d = Descending(s) OBVIOUS
<1>5. /\ \A k \in 1 .. len : at[k] \in 1 .. len
      /\ \A p \in 1 .. len : \E k \in 1 .. len : at[k] = p
      /\ \A i, k \in 1 .. len : at[i] = at[k] => i = k
      /\ \A i, k \in 1 .. len : i < k => s[at[i]] >= s[at[k]]
  BY <1>1, <1>3 DEF Ranks
<1>6. d = [k \in 1 .. len |-> s[at[k]]] BY <1>1, <1>3, <1>4
<1>7. d \in Seq(Scale) /\ Len(d) = len /\ \A k \in 1 .. len : d[k] = s[at[k]] BY <1>2, <1>5, <1>6
<1>8. n \in 1 .. len BY <1>1
<1>9. PICK head : head = SubSeq(d, 1, n) OBVIOUS
<1>10. /\ head \in Seq(Scale) /\ Len(head) = n /\ DOMAIN head = 1 .. n
       /\ \A k \in 1 .. n : head[k] = d[k]
  BY <1>7, <1>8, <1>9
<1>11. ASSUME NEW v \in 1 .. 5 PROVE Layer(head, v) = Lesser(n, Layer(s, v))
  <2>1. PICK D, A : D = {k \in 1 .. len : d[k] >= v} /\ A = AtLeast(s, v) OBVIOUS
  <2>2. A = {i \in 1 .. len : s[i] >= v} BY <1>1, <2>1 DEF AtLeast
  <2>3. Cardinality(D) \in 0 .. len /\ D = 1 .. Cardinality(D)
    <3>1. D \in SUBSET (1 .. len) BY <2>1
    <3>2. ASSUME NEW k \in D, NEW j \in 1 .. k PROVE j \in D
      <4>1. k \in 1 .. len /\ d[k] >= v /\ j \in 1 .. len BY <2>1
      <4>2. CASE j = k BY <3>2, <4>2
      <4>3. CASE j < k
        <5>1. s[at[j]] >= s[at[k]] /\ s[at[j]] \in Scale /\ s[at[k]] \in Scale BY <1>2, <1>5, <4>1, <4>3
        <5>2. PICK x \in 1 .. 5, y \in 1 .. 5 : x = s[at[j]] /\ y = s[at[k]]
          BY <5>1 DEF Scale, RiskMin, RiskMax
        <5>3. y >= v /\ x >= y BY <1>7, <4>1, <5>1, <5>2
        <5>4. x >= v BY <5>3
        <5> QED BY <1>7, <2>1, <4>1, <5>2, <5>4
      <4> QED BY <4>1, <4>2, <4>3
    <3>3. \A k \in D : \A j \in 1 .. k : j \in D BY <3>2
    <3> QED BY <3>1, <3>3, FromTheFirst
  <2>4. Cardinality(A) = Cardinality(D)
    <3> DEFINE f == [k \in D |-> at[k]]
    <3>1. f \in [D -> A] BY <1>5, <1>7, <2>1, <2>2
    <3>2. \A i, k \in D : f[i] = f[k] => i = k BY <1>5, <2>1
    <3>3. \A p \in A : \E k \in D : f[k] = p
      <4> TAKE p \in A
      <4>1. PICK k \in 1 .. len : at[k] = p BY <1>5, <2>2
      <4>2. k \in D BY <1>7, <2>1, <2>2, <4>1
      <4> QED BY <4>1, <4>2
    <3> HIDE DEF f
    <3>4. f \in Bijection(D, A) BY <3>1, <3>2, <3>3 DEF Bijection, Injection, Surjection, IsInjective
    <3>5. IsFiniteSet(D)
      <4>1. PICK m \in Nat : D = 1 .. m BY <2>3
      <4> QED BY <4>1, UpToN
    <3> QED BY <3>4, <3>5, FS_Bijection DEF ExistsBijection
  <2>5. PICK c \in 0 .. len : c = Cardinality(D) /\ D = 1 .. c BY <2>3
  <2>6. PICK m \in Nat : m = Lesser(n, c) BY <1>8 DEF Lesser
  <2>7. AtLeast(head, v) = 1 .. m
    <3>1. AtLeast(head, v) = {k \in 1 .. n : d[k] >= v} BY <1>10 DEF AtLeast
    <3>2. {k \in 1 .. n : d[k] >= v} = {k \in 1 .. n : k \in D} BY <1>8, <2>1
    <3>3. {k \in 1 .. n : k \in D} = 1 .. m
      <4>1. \A k \in 1 .. n : k \in 1 .. c <=> k \in 1 .. m BY <1>8, <2>6 DEF Lesser
      <4>2. \A k \in 1 .. m : k \in 1 .. n BY <1>8, <2>6 DEF Lesser
      <4> QED BY <2>5, <4>1, <4>2
    <3> QED BY <3>1, <3>2, <3>3
  <2>8. Cardinality(1 .. m) = m BY UpToN
  <2> QED BY <2>1, <2>4, <2>5, <2>6, <2>7, <2>8 DEF Layer
<1>12. 1 \in 1 .. len /\ d[1] \in Scale BY <1>7, <1>8
<1>13. ASSUME NEW i \in 1 .. len PROVE s[i] <= d[1]
  <2>1. PICK k \in 1 .. len : at[k] = i BY <1>5
  <2>2. CASE k = 1 BY <1>2, <1>7, <1>12, <2>1, <2>2
  <2>3. CASE 1 < k BY <1>5, <1>7, <1>12, <2>1, <2>3
  <2> QED BY <2>1, <2>2, <2>3
<1>14. ASSUME NEW k \in 1 .. n PROVE head[k] <= d[1]
  <2>1. k \in 1 .. len BY <1>8
  <2>2. head[k] = s[at[k]] /\ at[k] \in 1 .. len BY <1>5, <1>7, <1>10, <2>1
  <2> QED BY <1>13, <2>2
<1> QED BY <1>1, <1>4, <1>9, <1>10, <1>11, <1>12, <1>13, <1>14

(***************************************************************************)
(* Averages                                                                *)
(***************************************************************************)
\* The greater fraction is not the lesser number of hundredths.
LEMMA HundredthsGrow ==
  ASSUME NEW p \in Nat, NEW q \in Nat \ {0}, NEW r \in Nat, NEW u \in Nat \ {0}, p * u <= r * q
  PROVE  Hundredths(p, q) \in Int /\ Hundredths(p, q) <= Hundredths(r, u)
<1>1. PICK a : a = (200 * p + q) \div (2 * q) OBVIOUS
<1>2. PICK b : b = (200 * r + u) \div (2 * u) OBVIOUS
<1>3. a \in Int /\ a * (2 * q) <= 200 * p + q
  <2>1. PICK x, y : x = 200 * p + q /\ y = 2 * q OBVIOUS
  <2>2. x \in Int /\ y \in Nat \ {0} BY <2>1
  <2>3. x \div y \in Int /\ (x \div y) * y <= x BY <2>2, Division
  <2> QED BY <1>1, <2>1, <2>3
<1>4. b \in Int /\ 200 * r + u < b * (2 * u) + 2 * u
  <2>1. PICK x, y : x = 200 * r + u /\ y = 2 * u OBVIOUS
  <2>2. x \in Int /\ y \in Nat \ {0} BY <2>1
  <2>3. x \div y \in Int /\ x < (x \div y) * y + y BY <2>2, Division
  <2> QED BY <1>2, <2>1, <2>3
<1>5. a <= b
  <2>1. SUFFICES ASSUME b + 1 <= a PROVE FALSE BY <1>3, <1>4
  <2>2. PICK m \in Nat : m = q * u OBVIOUS
  <2>3. (a * (2 * q)) * u <= (200 * p + q) * u
    <3>1. PICK x \in Int, y \in Int : x = a * (2 * q) /\ y = 200 * p + q BY <1>3
    <3> QED BY <1>3, <3>1, Multiples
  <2>4. (200 * r + u + 1) * q <= (b * (2 * u) + 2 * u) * q
    <3>1. PICK x \in Int, y \in Int : x = 200 * r + u + 1 /\ y = b * (2 * u) + 2 * u BY <1>4
    <3>2. x <= y BY <1>4, <3>1
    <3> QED BY <3>1, <3>2, Multiples
  <2>5. (b + 1) * (2 * m) <= a * (2 * m) BY <1>3, <1>4, <2>1, Multiples
  <2>6. (a * (2 * q)) * u = a * (2 * m) BY <1>3, <2>2, SMT
  <2>7. (b * (2 * u) + 2 * u) * q = (b + 1) * (2 * m) BY <1>4, <2>2, SMT
  <2>8. (200 * p + q) * u = 200 * (p * u) + m BY <2>2, SMT
  <2>9. (200 * r + u + 1) * q = 200 * (r * q) + m + q BY <2>2, SMT
  <2>10. PICK pu \in Int, rq \in Int : pu = p * u /\ rq = r * q OBVIOUS
  <2>11. PICK am \in Int, bm \in Int : am = a * (2 * m) /\ bm = (b + 1) * (2 * m) BY <1>3, <1>4
  <2>12. am <= 200 * pu + m BY <2>3, <2>6, <2>8, <2>10, <2>11
  <2>13. 200 * rq + m + q <= bm BY <2>4, <2>7, <2>9, <2>10, <2>11
  <2>14. bm <= am /\ pu <= rq BY <2>5, <2>10, <2>11
  <2> QED BY <2>12, <2>13, <2>14
<1> QED BY <1>1, <1>2, <1>3, <1>5 DEF Hundredths

LEMMA WholeHundredths ==
  ASSUME NEW w \in Nat
  PROVE  Hundredths(w, 1) = 100 * w
BY DEF Hundredths

LEMMA SampleSize ==
  ASSUME NEW len \in Nat \ {0}
  PROVE  WorstSample(len) \in 1 .. len
BY DEF WorstSample

\* The n highest of len scores make up at least their share of the total.
LEMMA HeadShare ==
  ASSUME NEW len \in Nat, NEW n \in 1 .. len, NEW c \in 0 .. len
  PROVE  Lesser(n, c) \in Nat /\ c * n <= Lesser(n, c) * len
<1>1. CASE n <= c
  <2>1. c * n <= len * n BY Multiples
  <2> QED BY <1>1, <2>1 DEF Lesser
<1>2. CASE ~(n <= c)
  <2>1. n * c <= len * c BY Multiples
  <2> QED BY <1>2, <2>1 DEF Lesser
<1> QED BY <1>1, <1>2

\* What a blend of len scores is made of: their total t, the n highest of them with
\* their total h, and the highest w.
MadeOf(s, len, n, w, t, h) ==
  /\ len = Len(s) /\ n = WorstSample(len) /\ n <= len
  /\ t = Total(s) /\ h = Total(SubSeq(Descending(s), 1, n))
  /\ Blend(s) = [mean |-> Hundredths(t, len), worst |-> w,
                 weighted |-> Hundredths(2 * t * n + 3 * h * len, 5 * len * n)]
  /\ len <= t /\ t <= len * w /\ n <= h /\ h <= n * w /\ t * n <= h * len
  /\ t = Layer(s, 1) + Layer(s, 2) + Layer(s, 3) + Layer(s, 4) + Layer(s, 5)
  /\ h = Lesser(n, Layer(s, 1)) + Lesser(n, Layer(s, 2)) + Lesser(n, Layer(s, 3))
         + Lesser(n, Layer(s, 4)) + Lesser(n, Layer(s, 5))

LEMMA BlendParts ==
  ASSUME NEW s \in Seq(Scale), s # <<>>
  PROVE  \E len \in Nat \ {0}, n \in Nat \ {0}, w \in Scale, t \in Nat, h \in Nat :
           MadeOf(s, len, n, w, t, h)
<1>1. PICK len \in Nat \ {0} : len = Len(s) /\ DOMAIN s = 1 .. len OBVIOUS
<1>2. PICK n \in 1 .. len : n = WorstSample(len) BY <1>1, SampleSize
<1>3. PICK head : head = SubSeq(Descending(s), 1, n) OBVIOUS
<1>4. PICK w : w = Descending(s)[1] OBVIOUS
<1>5. /\ head \in Seq(Scale) /\ Len(head) = n
      /\ \A v \in 1 .. 5 : Layer(head, v) = Lesser(n, Layer(s, v))
      /\ w \in Scale /\ \A i \in DOMAIN s : s[i] <= w
      /\ \A k \in 1 .. n : head[k] <= w
  BY <1>1, <1>3, <1>4, HeadByLayers
<1>6. w \in 1 .. 5 /\ s \in Seq(Int) /\ head \in Seq(Int) BY <1>5 DEF Scale, RiskMin, RiskMax
<1>7. \A i \in DOMAIN s : 1 <= s[i] /\ s[i] <= w BY <1>5 DEF Scale, RiskMin, RiskMax
<1>8. \A k \in DOMAIN head : 1 <= head[k] /\ head[k] <= w
  <2>1. DOMAIN head = 1 .. n /\ \A k \in 1 .. n : head[k] \in Scale BY <1>5
  <2> QED BY <1>5, <2>1 DEF Scale, RiskMin, RiskMax
<1>9. PICK t : t = Total(s) OBVIOUS
<1>10. PICK h : h = Total(head) OBVIOUS
<1>10a. PICK lo \in Int, hi \in Int : lo = 1 /\ hi = w BY <1>6
<1>11. t \in Int /\ len * 1 <= t /\ t <= len * w
  <2>1. \A i \in DOMAIN s : lo <= s[i] /\ s[i] <= hi BY <1>7, <1>10a
  <2>2. Total(s) \in Int /\ Len(s) * lo <= Total(s) /\ Total(s) <= Len(s) * hi
    BY <1>6, <2>1, TotalBounds
  <2> QED BY <1>1, <1>9, <1>10a, <2>2
<1>12. h \in Int /\ n * 1 <= h /\ h <= n * w
  <2>1. \A i \in DOMAIN head : lo <= head[i] /\ head[i] <= hi BY <1>8, <1>10a
  <2>2. Total(head) \in Int /\ Len(head) * lo <= Total(head) /\ Total(head) <= Len(head) * hi
    BY <1>6, <2>1, TotalBounds
  <2> QED BY <1>5, <1>10, <1>10a, <2>2
<1>13. PICK c : c = [v \in 1 .. 5 |-> Layer(s, v)] OBVIOUS
<1>14. \A v \in 1 .. 5 : c[v] = Layer(s, v) /\ c[v] \in 0 .. len BY <1>1, <1>13, LayerBounds
<1>15. t = c[1] + c[2] + c[3] + c[4] + c[5]
  <2>1. t = Layer(s, 1) + Layer(s, 2) + Layer(s, 3) + Layer(s, 4) + Layer(s, 5) BY <1>9, TotalByLayers
  <2> QED BY <1>14, <2>1
<1>16. PICK e : e = [v \in 1 .. 5 |-> Lesser(n, c[v])] OBVIOUS
<1>17. h = e[1] + e[2] + e[3] + e[4] + e[5]
  <2>1. h = Layer(head, 1) + Layer(head, 2) + Layer(head, 3) + Layer(head, 4) + Layer(head, 5)
    BY <1>5, <1>10, TotalByLayers
  <2>2. \A v \in 1 .. 5 : e[v] = Layer(head, v) BY <1>5, <1>14, <1>16
  <2> QED BY <2>1, <2>2
<1>18. \A v \in 1 .. 5 : e[v] \in Nat /\ c[v] * n <= e[v] * len BY <1>14, <1>16, HeadShare
<1>19. t * n <= h * len
  <2>1. PICK c1 \in Nat, c2 \in Nat, c3 \in Nat, c4 \in Nat, c5 \in Nat :
          c1 = c[1] /\ c2 = c[2] /\ c3 = c[3] /\ c4 = c[4] /\ c5 = c[5]
    <3>1. c[1] \in Nat /\ c[2] \in Nat /\ c[3] \in Nat /\ c[4] \in Nat /\ c[5] \in Nat BY <1>14
    <3> QED BY <3>1
  <2>2. PICK e1 \in Nat, e2 \in Nat, e3 \in Nat, e4 \in Nat, e5 \in Nat :
          e1 = e[1] /\ e2 = e[2] /\ e3 = e[3] /\ e4 = e[4] /\ e5 = e[5]
    <3>1. e[1] \in Nat /\ e[2] \in Nat /\ e[3] \in Nat /\ e[4] \in Nat /\ e[5] \in Nat BY <1>18
    <3> QED BY <3>1
  <2>3. /\ c1 * n <= e1 * len /\ c2 * n <= e2 * len /\ c3 * n <= e3 * len
        /\ c4 * n <= e4 * len /\ c5 * n <= e5 * len
    BY <1>18, <2>1, <2>2
  <2>4. (c1 + c2 + c3 + c4 + c5) * n <= (e1 + e2 + e3 + e4 + e5) * len BY <2>3, SMT
  <2> QED BY <1>15, <1>17, <2>1, <2>2, <2>4
<1>20. Blend(s) = [mean |-> Hundredths(t, len), worst |-> w,
                   weighted |-> Hundredths(2 * t * n + 3 * h * len, 5 * len * n)]
  BY <1>1, <1>2, <1>3, <1>4, <1>9, <1>10, Zenon DEF Blend
<1>21. /\ t = Layer(s, 1) + Layer(s, 2) + Layer(s, 3) + Layer(s, 4) + Layer(s, 5)
       /\ h = Lesser(n, Layer(s, 1)) + Lesser(n, Layer(s, 2)) + Lesser(n, Layer(s, 3))
              + Lesser(n, Layer(s, 4)) + Lesser(n, Layer(s, 5))
  <2>1. \A v \in 1 .. 5 : e[v] = Lesser(n, Layer(s, v)) BY <1>14, <1>16
  <2>2. /\ e[1] = Lesser(n, Layer(s, 1)) /\ e[2] = Lesser(n, Layer(s, 2)) /\ e[3] = Lesser(n, Layer(s, 3))
        /\ e[4] = Lesser(n, Layer(s, 4)) /\ e[5] = Lesser(n, Layer(s, 5))
    BY <2>1
  <2>3. t = Layer(s, 1) + Layer(s, 2) + Layer(s, 3) + Layer(s, 4) + Layer(s, 5) BY <1>9, TotalByLayers
  <2> QED BY <1>17, <2>2, <2>3
<1>22. /\ t \in Nat /\ h \in Nat /\ n \in Nat \ {0} /\ n <= len /\ len <= t /\ n <= h BY <1>11, <1>12
<1>23. len \in Nat \ {0} /\ n \in Nat \ {0} /\ w \in Scale /\ t \in Nat /\ h \in Nat
  BY <1>5, <1>22
<1>24. h = Total(SubSeq(Descending(s), 1, n)) BY <1>3, <1>10
<1>25. MadeOf(s, len, n, w, t, h)
  BY <1>1, <1>2, <1>9, <1>11, <1>12, <1>19, <1>20, <1>21, <1>22, <1>24, Zenon DEF MadeOf
<1> QED BY <1>23, <1>25

\* A blend lies on the scale, between the mean and the worst of its scores.
LEMMA BlendBetween ==
  ASSUME NEW s \in Seq(Scale)
  PROVE  LET b == Blend(s) IN
         /\ b.weighted \in Int /\ b.mean \in Int /\ b.worst \in Int
         /\ b.mean <= b.weighted /\ b.weighted <= 100 * b.worst
         /\ b.weighted = 0 \/ b.weighted >= 100
<1>1. PICK b : b = Blend(s) OBVIOUS
<1>2. CASE s = <<>>
  <2>1. b = [mean |-> 0, worst |-> 0, weighted |-> 0] BY <1>1, <1>2 DEF Blend
  <2> QED BY <1>1, <2>1
<1>3. CASE s # <<>>
  <2>0. PICK len \in Nat \ {0}, n \in Nat \ {0}, w \in Scale, t \in Nat, h \in Nat :
          MadeOf(s, len, n, w, t, h)
    BY <1>3, BlendParts
  <2>1. /\ Blend(s) = [mean |-> Hundredths(t, len), worst |-> w,
                       weighted |-> Hundredths(2 * t * n + 3 * h * len, 5 * len * n)]
        /\ len <= t /\ t <= len * w /\ n <= h /\ h <= n * w /\ t * n <= h * len
    BY <2>0, Zenon DEF MadeOf
  <2>2. w \in 1 .. 5 BY DEF Scale, RiskMin, RiskMax
  <2>3. PICK p \in Nat, q \in Nat \ {0} : p = 2 * t * n + 3 * h * len /\ q = 5 * len * n
    <3>1. t * n \in Nat /\ h * len \in Nat /\ len * n \in Nat \ {0} OBVIOUS
    <3>2. 2 * t * n + 3 * h * len \in Nat /\ 5 * len * n \in Nat \ {0} BY <3>1, SMT
    <3> QED BY <3>2
  <2>4. b = [mean |-> Hundredths(t, len), worst |-> w, weighted |-> Hundredths(p, q)] BY <1>1, <2>1, <2>3
  <2>5. PICK tn \in Nat, hl \in Nat, ln \in Nat : tn = t * n /\ hl = h * len /\ ln = len * n OBVIOUS
  <2>6. p = 2 * tn + 3 * hl /\ q = 5 * ln /\ tn <= hl BY <2>1, <2>3, <2>5
  <2>7. ln <= tn /\ ln <= hl
    <3>1. len * n <= t * n BY <2>1, Multiples
    <3>2. n * len <= h * len BY <2>1, Multiples
    <3>3. n * len = len * n OBVIOUS
    <3> QED BY <2>5, <3>1, <3>2, <3>3
  <2>8. tn <= ln * w /\ hl <= ln * w
    <3>1. t * n <= (len * w) * n BY <2>1, <2>2, Multiples
    <3>2. h * len <= (n * w) * len BY <2>1, <2>2, Multiples
    <3>3. (len * w) * n = (len * n) * w /\ (n * w) * len = (len * n) * w BY <2>2, SMT
    <3> QED BY <2>5, <3>1, <3>2, <3>3
  <2>9. Hundredths(t, len) \in Int /\ Hundredths(t, len) <= Hundredths(p, q)
    <3>1. t * q <= p * len
      <4>1. t * q = 5 * (tn * len) BY <2>3, <2>5, SMT
      <4>2. p * len = 2 * (tn * len) + 3 * (hl * len) BY <2>6, SMT
      <4>3. tn * len <= hl * len BY <2>6, Multiples
      <4>4. PICK x \in Int, y \in Int : x = tn * len /\ y = hl * len OBVIOUS
      <4> QED BY <4>1, <4>2, <4>3, <4>4
    <3> QED BY <3>1, HundredthsGrow
  <2>10. Hundredths(p, q) \in Int /\ Hundredths(p, q) <= Hundredths(w, 1)
    <3>1. p * 1 <= w * q
      <4>1. PICK x \in Int : x = ln * w BY <2>2
      <4>2. w * q = 5 * x BY <2>2, <2>6, <4>1, SMT
      <4> QED BY <2>6, <2>8, <4>1, <4>2
    <3> QED BY <2>2, <3>1, HundredthsGrow
  <2>11. Hundredths(1, 1) <= Hundredths(p, q)
    <3>1. 1 * q <= p * 1 BY <2>6, <2>7
    <3> QED BY <3>1, HundredthsGrow
  <2>12. Hundredths(w, 1) = 100 * w /\ Hundredths(1, 1) = 100 BY <2>2, WholeHundredths
  <2>13. PICK x \in Int, y \in Int : x = Hundredths(p, q) /\ y = Hundredths(t, len) BY <2>9, <2>10
  <2> QED BY <1>1, <2>2, <2>4, <2>9, <2>10, <2>11, <2>12, <2>13
<1> QED BY <1>2, <1>3

LEMMA LesserGrows ==
  ASSUME NEW n \in Nat, NEW a \in Nat, NEW b \in Nat, a <= b
  PROVE  Lesser(n, a) \in Nat /\ Lesser(n, b) \in Nat /\ Lesser(n, a) <= Lesser(n, b)
BY DEF Lesser

LEMMA FiveGrow ==
  ASSUME NEW a, NEW b, \A v \in 1 .. 5 : a[v] \in Nat /\ b[v] \in Nat /\ a[v] <= b[v]
  PROVE  a[1] + a[2] + a[3] + a[4] + a[5] <= b[1] + b[2] + b[3] + b[4] + b[5]
<1>1. ASSUME NEW v \in 1 .. 5 PROVE \E d \in Nat : b[v] = a[v] + d
  <2>1. b[v] = a[v] + (b[v] - a[v]) /\ b[v] - a[v] \in Nat OBVIOUS
  <2> QED BY <2>1
<1>2. /\ a[1] \in Nat /\ a[2] \in Nat /\ a[3] \in Nat /\ a[4] \in Nat /\ a[5] \in Nat OBVIOUS
<1>3. PICK d1 \in Nat : b[1] = a[1] + d1 BY <1>1
<1>4. PICK d2 \in Nat : b[2] = a[2] + d2 BY <1>1
<1>5. PICK d3 \in Nat : b[3] = a[3] + d3 BY <1>1
<1>6. PICK d4 \in Nat : b[4] = a[4] + d4 BY <1>1
<1>7. PICK d5 \in Nat : b[5] = a[5] + d5 BY <1>1
<1> QED BY <1>2, <1>3, <1>4, <1>5, <1>6, <1>7

\* What is no better for any question is no better for the whole.
LEMMA BlendGrows ==
  ASSUME NEW s \in Seq(Scale), NEW z \in Seq(Scale), Len(z) = Len(s),
         \A i \in DOMAIN s : s[i] <= z[i]
  PROVE  Blend(s).weighted <= Blend(z).weighted
<1>1. CASE s = <<>>
  <2>1. z = <<>> BY <1>1
  <2>2. Blend(z) = Blend(s) BY <1>1, <2>1
  <2>3. Blend(s).weighted = 0 BY <1>1 DEF Blend
  <2> QED BY <2>2, <2>3
<1>2. CASE s # <<>>
  <2>1. z # <<>> BY <1>2
  <2>2. PICK len \in Nat \ {0}, n \in Nat \ {0}, w \in Scale, t \in Nat, h \in Nat :
          MadeOf(s, len, n, w, t, h)
    BY <1>2, BlendParts
  <2>3. PICK l \in Nat \ {0}, m \in Nat \ {0}, y \in Scale, u \in Nat, g \in Nat :
          MadeOf(z, l, m, y, u, g)
    BY <2>1, BlendParts
  <2>3a. l = len /\ m = n BY <2>2, <2>3 DEF MadeOf
  <2>3b. /\ t = Layer(s, 1) + Layer(s, 2) + Layer(s, 3) + Layer(s, 4) + Layer(s, 5)
         /\ u = Layer(z, 1) + Layer(z, 2) + Layer(z, 3) + Layer(z, 4) + Layer(z, 5)
    BY <2>2, <2>3, Zenon DEF MadeOf
  <2>3c. /\ h = Lesser(n, Layer(s, 1)) + Lesser(n, Layer(s, 2)) + Lesser(n, Layer(s, 3))
                + Lesser(n, Layer(s, 4)) + Lesser(n, Layer(s, 5))
         /\ g = Lesser(n, Layer(z, 1)) + Lesser(n, Layer(z, 2)) + Lesser(n, Layer(z, 3))
                + Lesser(n, Layer(z, 4)) + Lesser(n, Layer(z, 5))
    <3>1. g = Lesser(m, Layer(z, 1)) + Lesser(m, Layer(z, 2)) + Lesser(m, Layer(z, 3))
              + Lesser(m, Layer(z, 4)) + Lesser(m, Layer(z, 5))
      BY <2>3, Zenon DEF MadeOf
    <3>2. h = Lesser(n, Layer(s, 1)) + Lesser(n, Layer(s, 2)) + Lesser(n, Layer(s, 3))
              + Lesser(n, Layer(s, 4)) + Lesser(n, Layer(s, 5))
      BY <2>2, Zenon DEF MadeOf
    <3> QED BY <2>3a, <3>1, <3>2
  <2>3d. /\ Blend(s).weighted = Hundredths(2 * t * n + 3 * h * len, 5 * len * n)
         /\ Blend(z).weighted = Hundredths(2 * u * n + 3 * g * len, 5 * len * n)
    <3>1. Blend(s) = [mean |-> Hundredths(t, len), worst |-> w,
                      weighted |-> Hundredths(2 * t * n + 3 * h * len, 5 * len * n)]
      BY <2>2, Zenon DEF MadeOf
    <3>2. Blend(z) = [mean |-> Hundredths(u, l), worst |-> y,
                      weighted |-> Hundredths(2 * u * m + 3 * g * l, 5 * l * m)]
      BY <2>3, Zenon DEF MadeOf
    <3> QED BY <2>3a, <3>1, <3>2
  <2>4. ASSUME NEW v \in 1 .. 5
        PROVE  /\ Layer(s, v) \in Nat /\ Layer(z, v) \in Nat /\ Layer(s, v) <= Layer(z, v)
               /\ Lesser(n, Layer(s, v)) \in Nat /\ Lesser(n, Layer(z, v)) \in Nat
               /\ Lesser(n, Layer(s, v)) <= Lesser(n, Layer(z, v))
    <3>1. PICK A, B : A = AtLeast(s, v) /\ B = AtLeast(z, v) OBVIOUS
    <3>2. A \in SUBSET B
      <4>1. DOMAIN s = DOMAIN z OBVIOUS
      <4>2. \A i \in DOMAIN s : s[i] \in 1 .. 5 /\ z[i] \in 1 .. 5 BY <4>1 DEF Scale, RiskMin, RiskMax
      <4>3. \A i \in DOMAIN s : s[i] >= v => z[i] >= v BY <4>2
      <4> QED BY <3>1, <4>1, <4>3 DEF AtLeast
    <3>3. IsFiniteSet(B) BY <3>1, LayerBounds
    <3>4. Cardinality(A) <= Cardinality(B) BY <3>2, <3>3, FS_Subset
    <3>5. Layer(s, v) \in Nat /\ Layer(z, v) \in Nat BY LayerBounds
    <3>6. Layer(s, v) <= Layer(z, v) BY <3>1, <3>4 DEF Layer
    <3> QED BY <3>5, <3>6, LesserGrows
  <2>5. t <= u
    <3>1. \A v \in 1 .. 5 : Layer(s, v) \in Nat /\ Layer(z, v) \in Nat /\ Layer(s, v) <= Layer(z, v)
      BY <2>4
    <3>2. PICK a, b : a = [v \in 1 .. 5 |-> Layer(s, v)] /\ b = [v \in 1 .. 5 |-> Layer(z, v)] OBVIOUS
    <3>3. \A v \in 1 .. 5 : a[v] \in Nat /\ b[v] \in Nat /\ a[v] <= b[v] BY <3>1, <3>2
    <3>4. t = a[1] + a[2] + a[3] + a[4] + a[5] BY <2>3b, <3>2
    <3>5. u = b[1] + b[2] + b[3] + b[4] + b[5] BY <2>3b, <3>2
    <3>6. a[1] + a[2] + a[3] + a[4] + a[5] <= b[1] + b[2] + b[3] + b[4] + b[5] BY <3>3, FiveGrow
    <3> QED BY <3>4, <3>5, <3>6
  <2>6. h <= g
    <3>1. \A v \in 1 .. 5 : /\ Lesser(n, Layer(s, v)) \in Nat /\ Lesser(n, Layer(z, v)) \in Nat
                             /\ Lesser(n, Layer(s, v)) <= Lesser(n, Layer(z, v))
      BY <2>4
    <3>2. PICK a, b : /\ a = [v \in 1 .. 5 |-> Lesser(n, Layer(s, v))]
                      /\ b = [v \in 1 .. 5 |-> Lesser(n, Layer(z, v))]
      OBVIOUS
    <3>3. \A v \in 1 .. 5 : a[v] \in Nat /\ b[v] \in Nat /\ a[v] <= b[v] BY <3>1, <3>2
    <3>4. h = a[1] + a[2] + a[3] + a[4] + a[5] BY <2>3c, <3>2
    <3>5. g = b[1] + b[2] + b[3] + b[4] + b[5] BY <2>3c, <3>2
    <3>6. a[1] + a[2] + a[3] + a[4] + a[5] <= b[1] + b[2] + b[3] + b[4] + b[5] BY <3>3, FiveGrow
    <3> QED BY <3>4, <3>5, <3>6
  <2>7. PICK q \in Nat \ {0}, p \in Nat, r \in Nat :
          q = 5 * len * n /\ p = 2 * t * n + 3 * h * len /\ r = 2 * u * n + 3 * g * len
    <3>1. len * n \in Nat \ {0} /\ t * n \in Nat /\ h * len \in Nat /\ u * n \in Nat /\ g * len \in Nat
      OBVIOUS
    <3>2. 5 * len * n \in Nat \ {0} /\ 2 * t * n + 3 * h * len \in Nat /\ 2 * u * n + 3 * g * len \in Nat
      BY <3>1, SMT
    <3> QED BY <3>2
  <2>8. p <= r
    <3>1. t * n <= u * n /\ h * len <= g * len BY <2>5, <2>6, Multiples
    <3>2. PICK tn \in Int, un \in Int, hl \in Int, gl \in Int :
            tn = t * n /\ un = u * n /\ hl = h * len /\ gl = g * len
      OBVIOUS
    <3>3. p = 2 * tn + 3 * hl /\ r = 2 * un + 3 * gl BY <2>7, <3>2, SMT
    <3> QED BY <3>1, <3>2, <3>3
  <2>9. p * q <= r * q BY <2>8, Multiples
  <2>10. Hundredths(p, q) <= Hundredths(r, q) BY <2>9, HundredthsGrow
  <2> QED BY <2>3d, <2>7, <2>10
<1> QED BY <1>1, <1>2

\* Where no score is lower and the same questions have one, neither is one of the list.
LEMMA ScoresGrow ==
  ASSUME NEW X, NEW q \in Seq(X), NEW R, NEW S,
         \A i \in DOMAIN q : /\ ValidRiskScore(R[q[i].id].score) <=> ValidRiskScore(S[q[i].id].score)
                             /\ ValidRiskScore(R[q[i].id].score) => R[q[i].id].score <= S[q[i].id].score
  PROVE  Blend(Scores(q, R)).weighted <= Blend(Scores(q, S)).weighted
<1>1. PICK P : P = {i \in DOMAIN q : ValidRiskScore(R[q[i].id].score)} OBVIOUS
<1>2. P = {i \in DOMAIN q : ValidRiskScore(S[q[i].id].score)} BY <1>1
<1>3. PICK w : w = Sublist(q, P) OBVIOUS
<1>4. PICK s, z : s = Scores(q, R) /\ z = Scores(q, S) OBVIOUS
<1>5. s = [i \in DOMAIN w |-> R[w[i].id].score] BY <1>1, <1>3, <1>4 DEF Scores
<1>6. z = [i \in DOMAIN w |-> S[w[i].id].score] BY <1>2, <1>3, <1>4 DEF Scores
<1>7. s \in Seq(Scale) /\ z \in Seq(Scale) BY <1>4, ScoresAre
<1>8. \A k \in DOMAIN w : \E i \in P : w[k] = q[i]
  <2>1. P \in SUBSET DOMAIN q BY <1>1
  <2>2. \A k \in DOMAIN Sublist(q, P) : \E i \in P : Sublist(q, P)[k] = q[i] BY <2>1, SublistKeeps
  <2> QED BY <1>3, <2>2
<1>9. \A k \in DOMAIN s : s[k] <= z[k]
  <2> TAKE k \in DOMAIN s
  <2>1. k \in DOMAIN w BY <1>5
  <2>2. PICK i \in P : w[k] = q[i] BY <1>8, <2>1
  <2>3. R[q[i].id].score <= S[q[i].id].score BY <1>1
  <2> QED BY <1>5, <1>6, <2>1, <2>2, <2>3
<1>10. Len(z) = Len(s)
  <2>1. DOMAIN z = DOMAIN s BY <1>5, <1>6
  <2> QED BY <1>7, <2>1
<1>11. Blend(s).weighted <= Blend(z).weighted BY <1>7, <1>9, <1>10, BlendGrows
<1> QED BY <1>4, <1>11

(***************************************************************************)
(* Bands                                                                   *)
(***************************************************************************)
\* A figure of the scale falls into the band of the whole score it rounds to.
LEMMA BandsMeet ==
  ASSUME NEW f \in Int, f = 0 \/ f >= 100, NEW m \in [{"medium", "high", "critical"} -> Scale]
  PROVE  BandFromFloat(f, m) = Band((f + 50) \div 100, m)
<1>1. PICK a \in 1 .. 5, b \in 1 .. 5, c \in 1 .. 5 : a = m.medium /\ b = m.high /\ c = m.critical
  <2>1. m.medium \in 1 .. 5 /\ m.high \in 1 .. 5 /\ m.critical \in 1 .. 5 BY DEF Scale, RiskMin, RiskMax
  <2> QED BY <2>1
<1>2. PICK r : r = (f + 50) \div 100 OBVIOUS
<1>3. r \in Int /\ r * 100 <= f + 50 /\ f + 50 < r * 100 + 100
  <2>1. PICK x \in Int, y \in Nat \ {0} : x = f + 50 /\ y = 100 OBVIOUS
  <2>2. x \div y \in Int /\ (x \div y) * y <= x /\ x < (x \div y) * y + y BY <2>1, Division
  <2> QED BY <1>2, <2>1, <2>2
<1>4. f <= 0 <=> r <= 0 BY <1>3
<1>5. ASSUME NEW k \in 1 .. 5, f > 0 PROVE f < 100 * k - 50 <=> r < k BY <1>3, <1>5
<1>6. BandFromFloat(f, m) = BandAt(f, 100 * a - 50, 100 * b - 50, 100 * c - 50) BY <1>1 DEF BandFromFloat
<1>7. Band(r, m) = BandAt(r, a, b, c) BY <1>1 DEF Band
<1>8. CASE f <= 0
  <2>1. BandFromFloat(f, m) = "unknown"
    <3>1. PICK x, y, z : x = 100 * a - 50 /\ y = 100 * b - 50 /\ z = 100 * c - 50 OBVIOUS
    <3>2. BandAt(f, x, y, z) = "unknown" BY <1>8, Zenon DEF BandAt
    <3> QED BY <1>6, <3>1, <3>2
  <2>2. Band(r, m) = "unknown"
    <3>1. r <= 0 BY <1>4, <1>8
    <3>2. BandAt(r, a, b, c) = "unknown" BY <3>1, Zenon DEF BandAt
    <3> QED BY <1>7, <3>2
  <2> QED BY <1>2, <2>1, <2>2
<1>9. CASE f > 0
  <2>1. /\ ~(f <= 0) /\ ~(r <= 0) /\ (f < 100 * a - 50 <=> r < a)
        /\ (f < 100 * b - 50 <=> r < b) /\ (f < 100 * c - 50 <=> r < c)
    BY <1>4, <1>5, <1>9
  <2>2. BandAt(f, 100 * a - 50, 100 * b - 50, 100 * c - 50) = BandAt(r, a, b, c)
    <3>1. PICK x, y, z : x = 100 * a - 50 /\ y = 100 * b - 50 /\ z = 100 * c - 50 OBVIOUS
    <3>2. /\ ~(f <= 0) /\ ~(r <= 0)
          /\ (f < x <=> r < a) /\ (f < y <=> r < b) /\ (f < z <=> r < c)
      BY <2>1, <3>1
    <3>3. BandAt(f, x, y, z) = BandAt(r, a, b, c)
      <4>1. CASE r < a BY <3>2, <4>1, SMT DEF BandAt
      <4>2. CASE ~(r < a) /\ r < b BY <3>2, <4>2, SMT DEF BandAt
      <4>3. CASE ~(r < a) /\ ~(r < b) /\ r < c BY <3>2, <4>3, SMT DEF BandAt
      <4>4. CASE ~(r < a) /\ ~(r < b) /\ ~(r < c) BY <3>2, <4>4, SMT DEF BandAt
      <4> QED BY <4>1, <4>2, <4>3, <4>4
    <3> QED BY <3>1, <3>3
  <2>3. Band(r, m) = BandAt(r, a, b, c) BY <1>7, <2>1
  <2> QED BY <1>2, <1>6, <2>2, <2>3
<1> QED BY <1>8, <1>9

(***************************************************************************)
(* Counts by domain                                                        *)
(***************************************************************************)
\* D are the positions at which at comes to a place of Y.
Meets(at, n, D, Y) == D \subseteq 1 .. n /\ \A k \in 1 .. n : k \in D <=> at[k] \in Y

\* A sublist has as many elements of a kind as there are places of that kind.
LEMMA PlacesCounted ==
  ASSUME NEW n \in Nat, NEW P \in SUBSET Int, IsFiniteSet(P), NEW at, GoesThrough(at, n, P),
         NEW Y \in SUBSET P, NEW D, Meets(at, n, D, Y)
  PROVE  IsFiniteSet(Y) /\ Cardinality(Y) \in Nat /\ Cardinality(D) = Cardinality(Y)
<1>0. D \in SUBSET (1 .. n) /\ \A k \in 1 .. n : k \in D <=> at[k] \in Y BY DEF Meets
<1>1. IsFiniteSet(Y) BY FS_Subset
<1>2. IsFiniteSet(D)
  <2>1. IsFiniteSet(1 .. n) BY UpToN
  <2> QED BY <1>0, <2>1, FS_Subset
<1>3. PICK f : f = [k \in D |-> at[k]] OBVIOUS
<1>4. f \in [D -> Y] BY <1>0, <1>3
<1>5. \A i, k \in D : f[i] = f[k] => i = k
  <2> TAKE i, k \in D
  <2> HAVE f[i] = f[k]
  <2>1. i \in 1 .. n /\ k \in 1 .. n /\ at[i] = at[k] BY <1>0, <1>3
  <2>2. at[i] \in Int /\ at[k] \in Int BY <2>1 DEF GoesThrough
  <2>3. ~(i < k) /\ ~(k < i) BY <2>1, <2>2 DEF GoesThrough
  <2> QED BY <2>1, <2>3
<1>6. \A p \in Y : \E k \in D : f[k] = p
  <2> TAKE p \in Y
  <2>1. PICK k \in 1 .. n : at[k] = p BY DEF GoesThrough
  <2> QED BY <1>0, <1>3, <2>1
<1>7. f \in Bijection(D, Y) BY <1>4, <1>5, <1>6 DEF Bijection, Injection, Surjection, IsInjective
<1>8. Cardinality(Y) = Cardinality(D) BY <1>2, <1>7, FS_Bijection DEF ExistsBijection
<1>9. Cardinality(Y) \in Nat BY <1>1, FS_CardinalityType
<1> QED BY <1>1, <1>8, <1>9

\* Where the questions with one of the ids are, and those of a domain among them.
With(q, ids) == {i \in DOMAIN q : q[i].id \in ids}
WithIn(q, ids, d) == {i \in With(q, ids) : q[i].domain = d}

\* A domain's questions with one of the ids are the assessment's.
LEMMA DomainCounted ==
  ASSUME NEW X, NEW q \in Seq(X), NEW d, NEW ids
  PROVE  /\ IsFiniteSet(WithIn(q, ids, d)) /\ Cardinality(WithIn(q, ids, d)) \in Nat
         /\ CountOf(OfDomain(q, d), ids) = Cardinality(WithIn(q, ids, d))
<1>1. PICK P : P = {i \in DOMAIN q : q[i].domain = d} OBVIOUS
<1>2. P \in SUBSET DOMAIN q BY <1>1
<1>3. PICK w : w = OfDomain(q, d) OBVIOUS
<1>4. w = Sublist(q, P) BY <1>1, <1>3 DEF OfDomain
<1>5. PICK n \in Nat : n = Cardinality(P) BY <1>2, SublistPlaces
<1>6. IsFiniteSet(P) BY <1>2, SublistPlaces
<1>7. \E at : GoesThrough(at, Cardinality(P), P) /\ Sublist(q, P) = [k \in 1 .. Cardinality(P) |-> q[at[k]]]
  BY <1>2, SublistPlaces
<1>8. PICK at : GoesThrough(at, n, P) /\ w = [k \in 1 .. n |-> q[at[k]]] BY <1>4, <1>5, <1>7
<1>9. PICK D, Y : D = {k \in DOMAIN w : w[k].id \in ids} /\ Y = WithIn(q, ids, d) OBVIOUS
<1>10. D \in SUBSET (1 .. n) BY <1>8, <1>9
<1>11. Y \in SUBSET P /\ P \in SUBSET Int
  <2>1. DOMAIN q \in SUBSET Int OBVIOUS
  <2> QED BY <1>1, <1>9, <2>1 DEF WithIn, With
<1>12. \A k \in 1 .. n : k \in D <=> at[k] \in Y
  <2> TAKE k \in 1 .. n
  <2>1. at[k] \in P BY <1>8 DEF GoesThrough
  <2>2. at[k] \in DOMAIN q /\ q[at[k]].domain = d BY <1>1, <2>1
  <2>3. k \in D <=> q[at[k]].id \in ids BY <1>8, <1>9
  <2> QED BY <1>9, <2>2, <2>3 DEF WithIn, With
<1>13. IsFiniteSet(Y) /\ Cardinality(Y) \in Nat /\ Cardinality(D) = Cardinality(Y)
  <2>1. Meets(at, n, D, Y) BY <1>10, <1>12 DEF Meets
  <2> QED BY <1>6, <1>8, <1>11, <2>1, PlacesCounted
<1>14. CountOf(w, ids) = Cardinality(D) BY <1>9 DEF CountOf
<1> QED BY <1>3, <1>9, <1>13, <1>14

\* The counts of the domains add up to the whole, whatever is counted.
LEMMA LinesAddUp ==
  ASSUME NEW X, NEW q \in Seq(X), NEW ids, NEW c,
         c = [g \in DOMAIN DomainOrder(q) |-> CountOf(OfDomain(q, DomainOrder(q)[g]), ids)]
  PROVE  Total(c) = CountOf(q, ids)
<1>1. PICK order : order = DomainOrder(q) OBVIOUS
<1>2. PICK n \in Nat : DOMAIN order = 1 .. n BY <1>1, DomainsInOrder
<1>3. DomainsOnce(q, order) BY <1>1, DomainsInOrder
<1>4. \A g \in 1 .. n : Cardinality(WithIn(q, ids, order[g])) \in Int BY DomainCounted
<1>5. c = [g \in 1 .. n |-> Cardinality(WithIn(q, ids, order[g]))] BY <1>1, <1>2, DomainCounted
<1>6. c \in Seq(Int) /\ Len(c) = n BY <1>4, <1>5
<1>8. PICK sum \in [0 .. n -> Int] :
        sum[0] = 0 /\ (\A k \in 1 .. n : sum[k] = sum[k - 1] + c[k]) /\ Total(c) = sum[n]
  BY <1>6, TotalSteps
<1>9. PICK U : U = [k \in 0 .. n |-> {i \in With(q, ids) : \E g \in 1 .. k : q[i].domain = order[g]}]
  OBVIOUS
<1>10. IsFiniteSet(With(q, ids))
  <2>1. PICK len \in Nat : DOMAIN q = 1 .. len OBVIOUS
  <2>2. IsFiniteSet(1 .. len) BY UpToN
  <2>3. With(q, ids) \in SUBSET (1 .. len) BY <2>1 DEF With
  <2> QED BY <2>2, <2>3, FS_Subset
<1>11. \A k \in 0 .. n : IsFiniteSet(U[k])
  <2> TAKE k \in 0 .. n
  <2>1. U[k] \in SUBSET With(q, ids) BY <1>9
  <2> QED BY <1>10, <2>1, FS_Subset
<1>12. PICK P : P = {k \in 0 .. n : sum[k] = Cardinality(U[k])} OBVIOUS
<1>13. 0 \in P
  <2>1. U[0] = {} BY <1>9
  <2>2. 0 \in 0 .. n OBVIOUS
  <2>3. sum[0] = Cardinality(U[0]) BY <1>8, <2>1, FS_EmptySet
  <2> QED BY <1>12, <2>2, <2>3
<1>14. ASSUME NEW k \in 0 .. (n - 1), k \in P PROVE k + 1 \in P
  <2>1. PICK S, T : S = U[k] /\ T = WithIn(q, ids, order[k + 1]) OBVIOUS
  <2>2. IsFiniteSet(S) /\ IsFiniteSet(T) BY <1>11, <2>1, DomainCounted
  <2>3. k + 1 \in 1 .. n /\ k \in 0 .. n /\ k + 1 \in 0 .. n OBVIOUS
  <2>4. S \cap T = {}
    <3> SUFFICES ASSUME NEW i \in S, i \in T PROVE FALSE OBVIOUS
    <3>1. PICK g \in 1 .. k : q[i].domain = order[g] BY <1>9, <2>1, <2>3
    <3>2. order[g] = order[k + 1] BY <2>1, <3>1 DEF WithIn
    <3>3. g \in 1 .. n /\ g # k + 1 BY <2>3
    <3> QED BY <1>2, <1>3, <2>3, <3>2, <3>3 DEF DomainsOnce
  <2>5. U[k + 1] = S \cup T
    <3>1. 1 .. (k + 1) = (1 .. k) \cup {k + 1} OBVIOUS
    <3>2. \A i : (\E g \in 1 .. (k + 1) : q[i].domain = order[g]) <=>
                   (\E g \in 1 .. k : q[i].domain = order[g]) \/ q[i].domain = order[k + 1]
      BY <3>1
    <3>3. U[k + 1] = {i \in With(q, ids) : \E g \in 1 .. (k + 1) : q[i].domain = order[g]} BY <1>9, <2>3
    <3>4. S = {i \in With(q, ids) : \E g \in 1 .. k : q[i].domain = order[g]} BY <1>9, <2>1, <2>3
    <3>5. T = {i \in With(q, ids) : q[i].domain = order[k + 1]} BY <2>1 DEF WithIn
    <3> QED BY <3>2, <3>3, <3>4, <3>5, Zenon
  <2>6. Cardinality(S \cup T) = Cardinality(S) + Cardinality(T)
    <3>1. /\ IsFiniteSet(S \cap T)
          /\ Cardinality(S \cup T) = Cardinality(S) + Cardinality(T) - Cardinality(S \cap T)
      BY <2>2, <2>4, FS_Union, FS_EmptySet
    <3>2. Cardinality(S \cap T) = 0 BY <2>4, FS_EmptySet
    <3>3. Cardinality(S) \in Nat /\ Cardinality(T) \in Nat BY <2>2, FS_CardinalityType
    <3> QED BY <3>1, <3>2, <3>3
  <2>7. sum[k + 1] = sum[k] + c[k + 1]
    <3>1. sum[k + 1] = sum[(k + 1) - 1] + c[k + 1] BY <1>8, <2>3
    <3>2. (k + 1) - 1 = k OBVIOUS
    <3> QED BY <3>1, <3>2
  <2>8. c[k + 1] = Cardinality(T) BY <1>5, <2>1, <2>3
  <2>9. sum[k] = Cardinality(S) BY <1>12, <1>14, <2>1
  <2> QED BY <1>12, <2>3, <2>5, <2>6, <2>7, <2>8, <2>9
<1>15. P = 0 .. n BY <1>12, <1>13, <1>14, UpTo
<1>16. U[n] = With(q, ids)
  <2>1. \A i \in With(q, ids) : \E g \in 1 .. n : q[i].domain = order[g]
    BY <1>2, <1>3 DEF DomainsOnce, With
  <2>2. n \in 0 .. n OBVIOUS
  <2>3. U[n] = {i \in With(q, ids) : \E g \in 1 .. n : q[i].domain = order[g]} BY <1>9, <2>2
  <2> QED BY <2>1, <2>3
<1>17. sum[n] = Cardinality(U[n])
  <2>1. n \in P BY <1>15
  <2> QED BY <1>12, <2>1
<1>18. CountOf(q, ids) = Cardinality(With(q, ids)) BY DEF CountOf, With
<1> QED BY <1>8, <1>16, <1>17, <1>18

\* The figures of q count what there is, and the domains' lines add up to them.
Sums(f, q, R) ==
  /\ f.questions = Len(q) /\ f.scored = Cardinality(ScoredAt(q, R))
  /\ f.flagged = CountOf(q, Flagged(R)) /\ f.incomplete = CountOf(q, Chased(R))
  /\ Total([i \in DOMAIN f.domains |-> f.domains[i].questions]) = f.questions
  /\ Total([i \in DOMAIN f.domains |-> f.domains[i].scored]) = f.scored
  /\ Total([i \in DOMAIN f.domains |-> f.domains[i].flagged]) = f.flagged
  /\ Total([i \in DOMAIN f.domains |-> f.domains[i].incomplete]) = f.incomplete

LEMMA FiguresSum ==
  ASSUME NEW X, NEW q \in Seq(X), NEW R
  PROVE  Sums(Aggregate(q, R), q, R)
<1>0. PICK f : f = Aggregate(q, R) OBVIOUS
<1>1. PICK order : order = DomainOrder(q) OBVIOUS
<1>2. PICK w : w = [i \in DOMAIN order |-> OfDomain(q, order[i])] OBVIOUS
<1>3. /\ f.questions = Len(q) /\ f.scored = Len(Scores(q, R))
      /\ f.flagged = CountOf(q, Flagged(R)) /\ f.incomplete = CountOf(q, Chased(R))
      /\ f.domains = [i \in DOMAIN order |-> DomainScore(OfDomain(q, order[i]), R)]
  BY <1>0, <1>1 DEF Aggregate
<1>4. Len(Scores(q, R)) = Cardinality(ScoredAt(q, R)) BY ScoresAre
<1>5. /\ DOMAIN f.domains = DOMAIN order
      /\ \A i \in DOMAIN order :
           /\ f.domains[i].questions = Len(w[i]) /\ f.domains[i].scored = Len(Scores(w[i], R))
           /\ f.domains[i].flagged = CountOf(w[i], Flagged(R))
           /\ f.domains[i].incomplete = CountOf(w[i], Chased(R))
  BY <1>2, <1>3 DEF DomainScore
<1>6. \A i \in DOMAIN order :
        w[i] \in Seq(X) /\ \A k \in DOMAIN w[i] : \E j \in DOMAIN q : w[i][k] = q[j]
  BY <1>2, OfDomainPlaces
<1>7. PICK all : all = {q[j].id : j \in DOMAIN q} OBVIOUS
<1>8. PICK some : some = {q[j].id : j \in ScoredAt(q, R)} OBVIOUS
<1>9. \A j \in DOMAIN q : q[j].id \in all /\ (q[j].id \in some <=> j \in ScoredAt(q, R))
  BY <1>7, <1>8 DEF ScoredAt
<1>10. ASSUME NEW u \in Seq(X), \A k \in DOMAIN u : \E j \in DOMAIN q : u[k] = q[j]
       PROVE  CountOf(u, all) = Len(u) /\ CountOf(u, some) = Len(Scores(u, R))
  <2>1. {k \in DOMAIN u : u[k].id \in all} = DOMAIN u BY <1>9, <1>10
  <2>2. {k \in DOMAIN u : u[k].id \in some} = ScoredAt(u, R)
    <3>1. \A k \in DOMAIN u : u[k].id \in some <=> ValidRiskScore(R[u[k].id].score)
      <4> TAKE k \in DOMAIN u
      <4>1. PICK j \in DOMAIN q : u[k] = q[j] BY <1>10
      <4>2. j \in ScoredAt(q, R) <=> ValidRiskScore(R[q[j].id].score) BY DEF ScoredAt
      <4> QED BY <1>9, <4>1, <4>2
    <3> QED BY <3>1 DEF ScoredAt
  <2>3. Cardinality(DOMAIN u) = Len(u)
    <3>1. PICK n \in Nat : n = Len(u) /\ DOMAIN u = 1 .. n OBVIOUS
    <3> QED BY <3>1, UpToN
  <2>4. Len(Scores(u, R)) = Cardinality(ScoredAt(u, R)) BY ScoresAre
  <2> QED BY <2>1, <2>2, <2>3, <2>4 DEF CountOf
<1>11. \A i \in DOMAIN order : Len(w[i]) = CountOf(w[i], all) /\ Len(Scores(w[i], R)) = CountOf(w[i], some)
  BY <1>6, <1>10
<1>12. Len(q) = CountOf(q, all) /\ Len(Scores(q, R)) = CountOf(q, some) BY <1>10
<1>13. \A ids : Total([i \in DOMAIN order |-> CountOf(OfDomain(q, order[i]), ids)]) = CountOf(q, ids)
  BY <1>1, LinesAddUp
<1>14. \A ids : Total([i \in DOMAIN order |-> CountOf(w[i], ids)]) = CountOf(q, ids)
  <2> TAKE ids
  <2>1. [i \in DOMAIN order |-> CountOf(w[i], ids)] = [i \in DOMAIN order |-> CountOf(OfDomain(q, order[i]), ids)]
    BY <1>2
  <2> QED BY <1>13, <2>1
<1>15. /\ [i \in DOMAIN f.domains |-> f.domains[i].questions] = [i \in DOMAIN order |-> CountOf(w[i], all)]
       /\ [i \in DOMAIN f.domains |-> f.domains[i].scored] = [i \in DOMAIN order |-> CountOf(w[i], some)]
  BY <1>5, <1>11
<1>16. /\ [i \in DOMAIN f.domains |-> f.domains[i].flagged]
             = [i \in DOMAIN order |-> CountOf(w[i], Flagged(R))]
       /\ [i \in DOMAIN f.domains |-> f.domains[i].incomplete]
             = [i \in DOMAIN order |-> CountOf(w[i], Chased(R))]
  BY <1>5
<1> QED BY <1>0, <1>3, <1>4, <1>12, <1>14, <1>15, <1>16 DEF Sums

\* Ids that questions have, each one question, are as many as their places.
LEMMA IdsPlaced ==
  ASSUME NEW X, NEW q \in Seq(X), DistinctIds(q), NEW S, \A x \in S : \E i \in DOMAIN q : q[i].id = x
  PROVE  /\ IsFiniteSet(With(q, S)) /\ Cardinality(With(q, S)) \in Nat
         /\ IsFiniteSet(S) /\ Cardinality(S) = Cardinality(With(q, S))
<1>1. PICK P : P = With(q, S) OBVIOUS
<1>2. PICK n \in Nat : DOMAIN q = 1 .. n OBVIOUS
<1>3. IsFiniteSet(P)
  <2>1. IsFiniteSet(1 .. n) BY UpToN
  <2>2. P \in SUBSET (1 .. n) BY <1>1, <1>2 DEF With
  <2> QED BY <2>1, <2>2, FS_Subset
<1>4. PICK f : f = [i \in P |-> q[i].id] OBVIOUS
<1>5. f \in [P -> S] BY <1>1, <1>4 DEF With
<1>6. \A i, k \in P : f[i] = f[k] => i = k BY <1>1, <1>4 DEF With, DistinctIds
<1>7. \A x \in S : \E i \in P : f[i] = x BY <1>1, <1>4 DEF With
<1>8. f \in Bijection(P, S) BY <1>5, <1>6, <1>7 DEF Bijection, Injection, Surjection, IsInjective
<1>9. IsFiniteSet(S) /\ Cardinality(S) = Cardinality(P) BY <1>3, <1>8, FS_Bijection DEF ExistsBijection
<1>10. Cardinality(P) \in Nat BY <1>3, FS_CardinalityType
<1> QED BY <1>1, <1>3, <1>9, <1>10

(***************************************************************************)
(* The worst findings                                                      *)
(***************************************************************************)
\* The questions with a result, and at lists them from the worst score down.
Found(q, R) == {i \in DOMAIN q : R[q[i].id] # NoResult}

Findings(at, n, q, R) ==
  /\ at \in [1 .. n -> Found(q, R)]
  /\ \A i \in Found(q, R) : \E k \in 1 .. n : at[k] = i
  /\ \A i, k \in 1 .. n : at[i] = at[k] => i = k
  /\ \A i, k \in 1 .. n : i < k => R[q[at[i]].id].score >= R[q[at[k]].id].score

\* The length of the list is the limit's, if there is one and it bites.
Shown(n, limit) == IF limit > 0 /\ n > limit THEN limit ELSE n

\* The findings can be ranked.
Rated(q, R) == \A i \in Found(q, R) : R[q[i].id].score \in Int /\ R[q[i].id].flags \in Int

\* The list ends where the findings do, or at the limit.
Heads(top, at, n, q, R, limit) ==
  /\ Findings(at, n, q, R) /\ Shown(n, limit) \in 0 .. n
  /\ top = [k \in 1 .. Shown(n, limit) |-> q[at[k]]]

LEMMA TopFindingsAre ==
  ASSUME NEW X, NEW q \in Seq(X), NEW R, Rated(q, R), NEW limit \in Nat
  PROVE  \E n \in Nat : \E at : Heads(TopFindings(q, R, limit), at, n, q, R, limit)
<1>1. PICK P : P = Found(q, R) OBVIOUS
<1>2. DOMAIN q \in SUBSET Int /\ P \in SUBSET DOMAIN q BY <1>1 DEF Found
<1>3. IsFiniteSet(P)
  <2>1. PICK l \in Nat : DOMAIN q = 1 .. l OBVIOUS
  <2>2. IsFiniteSet(1 .. l) BY UpToN
  <2>3. P \in SUBSET (1 .. l) BY <1>2, <2>1
  <2> QED BY <2>2, <2>3, FS_Subset
<1>4. PICK n \in Nat : n = Cardinality(P) BY <1>3, FS_CardinalityType
<1>5. PICK s, f : s = [i \in P |-> R[q[i].id].score] /\ f = [i \in P |-> R[q[i].id].flags] OBVIOUS
<1>6. \A i \in P : s[i] \in Int /\ f[i] \in Int /\ i \in Int BY <1>1, <1>2, <1>5 DEF Rated
<1>7. PICK order : order = {p \in P \X P :
        \/ R[q[p[1]].id].score > R[q[p[2]].id].score
        \/ R[q[p[1]].id].score = R[q[p[2]].id].score /\ R[q[p[1]].id].flags > R[q[p[2]].id].flags
        \/ R[q[p[1]].id].score = R[q[p[2]].id].score /\ R[q[p[1]].id].flags = R[q[p[2]].id].flags
             /\ p[1] < p[2]}
  OBVIOUS
<1>8. \A x, y \in P : <<x, y>> \in order <=>
        s[x] > s[y] \/ (s[x] = s[y] /\ (f[x] > f[y] \/ (f[x] = f[y] /\ x < y)))
  <2> TAKE x, y \in P
  <2>1. <<x, y>> \in order <=>
          \/ R[q[x].id].score > R[q[y].id].score
          \/ R[q[x].id].score = R[q[y].id].score /\ R[q[x].id].flags > R[q[y].id].flags
          \/ R[q[x].id].score = R[q[y].id].score /\ R[q[x].id].flags = R[q[y].id].flags /\ x < y
    BY <1>7
  <2>2. /\ s[x] = R[q[x].id].score /\ s[y] = R[q[y].id].score
        /\ f[x] = R[q[x].id].flags /\ f[y] = R[q[y].id].flags
    BY <1>5
  <2> QED BY <2>1, <2>2, Zenon
<1>9. Ordering(P, order)
  <2>1. \A x \in P : <<x, x>> \notin order BY <1>6, <1>8
  <2>2. ASSUME NEW x \in P, NEW y \in P, NEW z \in P, <<x, y>> \in order, <<y, z>> \in order
        PROVE  <<x, z>> \in order
    <3>1. PICK a \in Int, b \in Int, c \in Int : a = s[x] /\ b = s[y] /\ c = s[z] BY <1>6
    <3>2. PICK d \in Int, e \in Int, g \in Int : d = f[x] /\ e = f[y] /\ g = f[z] BY <1>6
    <3>3. x \in Int /\ y \in Int /\ z \in Int BY <1>6
    <3>4. a > b \/ (a = b /\ (d > e \/ (d = e /\ x < y))) BY <1>8, <2>2, <3>1, <3>2
    <3>5. b > c \/ (b = c /\ (e > g \/ (e = g /\ y < z))) BY <1>8, <2>2, <3>1, <3>2
    <3>6. a > c \/ (a = c /\ (d > g \/ (d = g /\ x < z))) BY <3>3, <3>4, <3>5
    <3> QED BY <1>8, <3>1, <3>2, <3>6
  <2>3. ASSUME NEW x \in P, NEW y \in P PROVE x = y \/ <<x, y>> \in order \/ <<y, x>> \in order
    <3>1. PICK a \in Int, b \in Int : a = s[x] /\ b = s[y] BY <1>6
    <3>2. PICK d \in Int, e \in Int : d = f[x] /\ e = f[y] BY <1>6
    <3>3. x \in Int /\ y \in Int BY <1>6
    <3>4. \/ x = y \/ (a > b \/ (a = b /\ (d > e \/ (d = e /\ x < y))))
          \/ (b > a \/ (b = a /\ (e > d \/ (e = d /\ y < x))))
      BY <3>3
    <3> QED BY <1>8, <3>1, <3>2, <3>4
  <2> QED BY <2>1, <2>2, <2>3, Zenon DEF Ordering
<1> DEFINE at == InOrder(P, order)
<1>10. /\ at \in [1 .. n -> P]
       /\ \A x \in P : \E k \in 1 .. n : at[k] = x
       /\ \A i, k \in 1 .. n : i < k <=> <<at[i], at[k]>> \in order
  <2>1. /\ at \in [1 .. Cardinality(P) -> P]
        /\ \A x \in P : \E k \in 1 .. Cardinality(P) : at[k] = x
        /\ \A i, k \in 1 .. Cardinality(P) : i < k <=> <<at[i], at[k]>> \in order
    BY <1>3, <1>9, InOrderRanks
  <2> HIDE DEF at
  <2> QED BY <1>4, <2>1
<1>11. at = InOrder(Found(q, R), order) BY <1>1
<1> HIDE DEF at
<1>12. \A i, k \in 1 .. n : i < k => R[q[at[i]].id].score >= R[q[at[k]].id].score
  <2> TAKE i, k \in 1 .. n
  <2> HAVE i < k
  <2>1. at[i] \in P /\ at[k] \in P /\ <<at[i], at[k]>> \in order BY <1>10
  <2>2. s[at[i]] >= s[at[k]] BY <1>6, <1>8, <2>1
  <2> QED BY <1>5, <2>1, <2>2
<1>13. \A i, k \in 1 .. n : at[i] = at[k] => i = k
  <2> TAKE i, k \in 1 .. n
  <2> HAVE at[i] = at[k]
  <2>1. at[i] \in P /\ at[k] \in P BY <1>10
  <2>2. <<at[i], at[k]>> \notin order /\ <<at[k], at[i]>> \notin order BY <1>9, <2>1 DEF Ordering
  <2>3. ~(i < k) /\ ~(k < i) BY <1>10, <2>2
  <2> QED BY <2>3
<1>14. Findings(at, n, q, R) BY <1>1, <1>10, <1>12, <1>13 DEF Findings
<1>15. TopFindings(q, R, limit) = [k \in 1 .. Shown(Len(at), limit) |-> q[at[k]]]
  <2>1. order = {p \in Found(q, R) \X Found(q, R) :
          \/ R[q[p[1]].id].score > R[q[p[2]].id].score
          \/ R[q[p[1]].id].score = R[q[p[2]].id].score /\ R[q[p[1]].id].flags > R[q[p[2]].id].flags
          \/ R[q[p[1]].id].score = R[q[p[2]].id].score /\ R[q[p[1]].id].flags = R[q[p[2]].id].flags
               /\ p[1] < p[2]}
    BY <1>1, <1>7
  <2> QED BY <1>11, <2>1, Zenon DEF TopFindings, Found, Shown
<1>16. Len(at) = n BY <1>10
<1>17. Shown(n, limit) \in 0 .. n BY DEF Shown
<1>18. Heads(TopFindings(q, R, limit), at, n, q, R, limit) BY <1>14, <1>15, <1>16, <1>17 DEF Heads
<1> QED BY <1>18
=============================================================================
