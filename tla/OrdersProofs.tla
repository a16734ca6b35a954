---------------------------- MODULE OrdersProofs ----------------------------
(***************************************************************************)
(* What every proof about lists needs: orders and sublists, flattening,    *)
(* and induction.                                                          *)
(*                                                                         *)
(* Induction over natural numbers is stated for sets and functions here,   *)
(* not for operators: a set of numbers that has 0 and, with each number,   *)
(* the next one.                                                           *)
(***************************************************************************)
EXTENDS Orders, SequencesExt, FiniteSetTheorems, SequenceTheorems, TLAPS

(***************************************************************************)
(* Induction and recursion                                                 *)
(***************************************************************************)
\* A set of naturals that is not empty has a least member.
LEMMA LeastNatural ==
  ASSUME NEW S \in SUBSET Nat, S # {}
  PROVE  \E m \in S : \A n \in S : m <= n
<1> DEFINE R == OpToRel(<, Nat)
<1>1. IsWellFoundedOn(R, Nat) BY NatLessThanWellFounded
<1>2. \A x, y \in Nat : <<x, y>> \in R <=> x < y BY Zenon DEF OpToRel
<1> HIDE DEF R
<1>3. PICK m \in S : \A n \in S : ~ <<n, m>> \in R BY <1>1, WFMin
<1>4. ASSUME NEW n \in S PROVE m <= n
  <2>1. m \in Nat /\ n \in Nat OBVIOUS
  <2>2. ~(n < m) BY <1>2, <1>3, <2>1
  <2> QED BY <2>1, <2>2
<1> QED BY <1>4

\* What holds of 0, and of k + 1 if it holds of k, holds up to n.
LEMMA UpTo ==
  ASSUME NEW n \in Nat, NEW P \in SUBSET (0 .. n), 0 \in P,
         \A k \in 0 .. (n - 1) : k \in P => k + 1 \in P
  PROVE  P = 0 .. n
<1> DEFINE bad == (0 .. n) \ P
<1>1. ASSUME bad # {} PROVE FALSE
  <2>1. bad \in SUBSET Nat OBVIOUS
  <2>2. PICK m \in bad : \A k \in bad : m <= k BY <1>1, <2>1, LeastNatural
  <2>3. m \in 1 .. n BY <2>2
  <2>4. m - 1 \in P BY <2>2, <2>3
  <2> QED BY <2>2, <2>3, <2>4
<1> QED BY <1>1

\* There are n numbers from 1 to n.
LEMMA UpToN ==
  ASSUME NEW n \in Nat
  PROVE  IsFiniteSet(1 .. n) /\ Cardinality(1 .. n) = n
BY FS_Interval

\* A function on 0 .. n is defined by its value at 0 and by its steps.
LEMMA Recursion ==
  ASSUME NEW X, NEW base \in X, NEW n \in Nat, NEW step \in [1 .. n -> [X -> X]]
  PROVE  \E f \in [0 .. n -> X] : f[0] = base /\ \A k \in 1 .. n : f[k] = step[k][f[k - 1]]
<1> DEFINE Follows(f, m) == /\ f \in [0 .. m -> X] /\ f[0] = base
                            /\ \A k \in 1 .. m : f[k] = step[k][f[k - 1]]
           P == {m \in 0 .. n : \E f : Follows(f, m)}
<1>1. 0 \in P
  <2>1. Follows([k \in 0 .. 0 |-> base], 0) OBVIOUS
  <2> HIDE DEF Follows
  <2>2. 0 \in 0 .. n OBVIOUS
  <2> QED BY <2>1, <2>2
<1>2. ASSUME NEW m \in 0 .. (n - 1), m \in P PROVE m + 1 \in P
  <2>1. PICK f : Follows(f, m) BY <1>2
  <2> DEFINE g == [k \in 0 .. (m + 1) |-> IF k = m + 1 THEN step[m + 1][f[m]] ELSE f[k]]
  <2>2. m + 1 \in 1 .. n /\ m \in 0 .. m OBVIOUS
  <2>3. step[m + 1][f[m]] \in X BY <2>1, <2>2
  <2>4. g \in [0 .. (m + 1) -> X] BY <2>1, <2>3
  <2>5. g[0] = base BY <2>1
  <2>6. ASSUME NEW k \in 1 .. (m + 1) PROVE g[k] = step[k][g[k - 1]]
    <3>1. CASE k = m + 1
      <4>1. g[k] = step[m + 1][f[m]] /\ g[k - 1] = f[m] BY <3>1
      <4> QED BY <3>1, <4>1
    <3>2. CASE k # m + 1
      <4>1. k \in 1 .. m BY <3>2
      <4>2. g[k] = f[k] /\ g[k - 1] = f[k - 1] BY <4>1
      <4> QED BY <2>1, <4>1, <4>2
    <3> QED BY <3>1, <3>2
  <2>7. Follows(g, m + 1) BY <2>4, <2>5, <2>6
  <2> HIDE DEF Follows
  <2> QED BY <2>2, <2>7
<1>3. P = 0 .. n
  <2> HIDE DEF Follows
  <2>1. P \in SUBSET (0 .. n) OBVIOUS
  <2> HIDE DEF P
  <2> QED BY <1>1, <1>2, <2>1, UpTo
<1>4. n \in P BY <1>3
<1> QED BY <1>4

\* What rises at each step rises from any place to any later one.
LEMMA Climbing ==
  ASSUME NEW n \in Nat, NEW f \in [0 .. n -> Nat], \A k \in 1 .. n : f[k - 1] < f[k]
  PROVE  \A i, k \in 0 .. n : (i < k <=> f[i] < f[k]) /\ (f[i] = f[k] => i = k)
<1>1. ASSUME NEW i \in 0 .. n, NEW k \in 0 .. n, i < k PROVE f[i] < f[k]
  <2>1. PICK P : P = {d \in 0 .. (n - i) : d = 0 \/ f[i] < f[i + d]} OBVIOUS
  <2>2. n - i \in Nat /\ 0 \in P BY <2>1
  <2>3. ASSUME NEW d \in 0 .. ((n - i) - 1), d \in P PROVE d + 1 \in P
    <3>1. i + (d + 1) \in 1 .. n /\ (i + (d + 1)) - 1 = i + d /\ i + d \in 0 .. n OBVIOUS
    <3>2. f[i + d] < f[i + (d + 1)] BY <3>1
    <3>3. f[i] \in Nat /\ f[i + d] \in Nat /\ f[i + (d + 1)] \in Nat BY <3>1
    <3>4. d = 0 => i + d = i OBVIOUS
    <3>5. f[i] < f[i + (d + 1)] BY <2>1, <2>3, <3>2, <3>3, <3>4
    <3>6. d + 1 \in 0 .. (n - i) OBVIOUS
    <3> QED BY <2>1, <3>5, <3>6
  <2>4. P \in SUBSET (0 .. (n - i)) BY <2>1
  <2>5. P = 0 .. (n - i) BY <2>2, <2>3, <2>4, UpTo
  <2>6. k - i \in P /\ k - i # 0 /\ i + (k - i) = k BY <1>1, <2>5
  <2> QED BY <2>1, <2>6
<1>2. ASSUME NEW i \in 0 .. n, NEW k \in 0 .. n PROVE (i < k <=> f[i] < f[k]) /\ (f[i] = f[k] => i = k)
  <2>1. f[i] \in Nat /\ f[k] \in Nat OBVIOUS
  <2>2. i < k \/ i = k \/ k < i OBVIOUS
  <2>3. (i < k => f[i] < f[k]) /\ (k < i => f[k] < f[i]) BY <1>1
  <2> QED BY <2>1, <2>2, <2>3
<1> QED BY <1>2

(***************************************************************************)
(* Orders and sublists                                                     *)
(***************************************************************************)
\* A strict order in which any two members are comparable.
Ordering(S, order) ==
  /\ \A x \in S : <<x, x>> \notin order
  /\ \A x, y, z \in S : <<x, y>> \in order /\ <<y, z>> \in order => <<x, z>> \in order
  /\ \A x, y \in S : x = y \/ <<x, y>> \in order \/ <<y, x>> \in order

\* Every member stands at one place, and the places follow the order.
LEMMA InOrderRanks ==
  ASSUME NEW S, IsFiniteSet(S), NEW order, Ordering(S, order)
  PROVE  /\ Cardinality(S) \in Nat
         /\ InOrder(S, order) \in [1 .. Cardinality(S) -> S]
         /\ \A x \in S : \E k \in 1 .. Cardinality(S) : InOrder(S, order)[k] = x
         /\ \A i, k \in 1 .. Cardinality(S) :
              i < k <=> <<InOrder(S, order)[i], InOrder(S, order)[k]>> \in order
<1> DEFINE n == Cardinality(S)
           below(x) == {y \in S : <<y, x>> \in order}
           rank == [x \in S |-> Cardinality(below(x)) + 1]
<1>1. n \in Nat BY FS_CardinalityType
<1>2. ASSUME NEW x \in S
      PROVE  /\ IsFiniteSet(below(x)) /\ Cardinality(below(x)) \in Nat
             /\ rank[x] = Cardinality(below(x)) + 1 /\ rank[x] \in 1 .. n
  <2>1. below(x) \in SUBSET (S \ {x}) BY DEF Ordering
  <2>5. rank[x] = Cardinality(below(x)) + 1 OBVIOUS
  <2> HIDE DEF below, rank
  <2>2. IsFiniteSet(S \ {x}) /\ Cardinality(S \ {x}) = n - 1 BY FS_RemoveElement
  <2>3. IsFiniteSet(below(x)) /\ Cardinality(below(x)) <= n - 1 BY <2>1, <2>2, FS_Subset
  <2>4. Cardinality(below(x)) \in Nat BY <2>3, FS_CardinalityType
  <2> QED BY <1>1, <2>3, <2>4, <2>5
<1>3. ASSUME NEW x \in S, NEW y \in S, <<x, y>> \in order PROVE rank[x] < rank[y]
  <2>1. below(x) \cup {x} \in SUBSET below(y) BY <1>3 DEF Ordering
  <2>2. x \notin below(x) BY DEF Ordering
  <2> HIDE DEF below, rank
  <2>3. IsFiniteSet(below(x)) /\ IsFiniteSet(below(y)) BY <1>2
  <2>4. Cardinality(below(x) \cup {x}) = Cardinality(below(x)) + 1 BY <2>2, <2>3, FS_AddElement
  <2>5. Cardinality(below(x) \cup {x}) <= Cardinality(below(y)) BY <2>1, <2>3, FS_Subset
  <2>6. /\ Cardinality(below(x)) \in Nat /\ rank[x] = Cardinality(below(x)) + 1
        /\ Cardinality(below(y)) \in Nat /\ rank[y] = Cardinality(below(y)) + 1
    BY <1>2
  <2> QED BY <2>4, <2>5, <2>6
<1>4. rank \in [S -> 1 .. n] BY <1>2
<1> HIDE DEF rank, below
<1>5. rank \in Injection(S, 1 .. n)
  <2>1. \A x, y \in S : rank[x] \in Int /\ rank[y] \in Int BY <1>1, <1>4
  <2>2. ASSUME NEW x \in S, NEW y \in S, rank[x] = rank[y] PROVE x = y
    <3>1. ~(rank[x] < rank[y]) /\ ~(rank[y] < rank[x]) BY <2>1, <2>2
    <3> QED BY <1>3, <3>1 DEF Ordering
  <2> QED BY <1>4, <2>2 DEF Injection, IsInjective
<1>6. IsFiniteSet(1 .. n) /\ Cardinality(1 .. n) = n BY <1>1, FS_Interval
<1>7. rank \in Surjection(S, 1 .. n) BY <1>5, <1>6, FS_Injection
<1>8. \A k \in 1 .. n : \E x \in S : rank[x] = k BY <1>7 DEF Surjection
<1>9. \A x, y \in S : rank[x] = rank[y] => x = y BY <1>5 DEF Injection, IsInjective
<1>10. \A x \in S, k \in 1 .. n : Cardinality(below(x)) = k - 1 <=> rank[x] = k
  BY <1>2
<1> DEFINE o == InOrder(S, order)
<1>11. o = [k \in 1 .. n |-> CHOOSE x \in S : Cardinality(below(x)) = k - 1] BY DEF InOrder, below
<1> HIDE DEF o
<1>12. \A k \in 1 .. n : o[k] \in S /\ rank[o[k]] = k
  <2> TAKE k \in 1 .. n
  <2>1. o[k] = CHOOSE x \in S : Cardinality(below(x)) = k - 1 BY <1>11
  <2>2. \E x \in S : Cardinality(below(x)) = k - 1 BY <1>8, <1>10
  <2>3. o[k] \in S /\ Cardinality(below(o[k])) = k - 1 BY <2>1, <2>2
  <2> QED BY <1>10, <2>3
<1>13. o \in [1 .. n -> S] BY <1>11, <1>12
<1>14. \A x \in S : rank[x] \in 1 .. n /\ o[rank[x]] = x BY <1>4, <1>9, <1>12
<1>15. \A i, k \in 1 .. n : i < k <=> <<o[i], o[k]>> \in order
  <2> TAKE i, k \in 1 .. n
  <2>1. /\ o[i] \in S /\ o[k] \in S /\ rank[o[i]] = i /\ rank[o[k]] = k BY <1>12
  <2>2. i \in Int /\ k \in Int OBVIOUS
  <2>3. <<o[i], o[k]>> \in order => i < k BY <1>3, <2>1
  <2>4. i < k => o[i] # o[k] BY <2>1
  <2>5. <<o[k], o[i]>> \in order => k < i BY <1>3, <2>1
  <2> QED BY <2>1, <2>2, <2>3, <2>4, <2>5 DEF Ordering
<1> QED BY <1>1, <1>13, <1>14, <1>15 DEF o

\* at goes up from place to place of P and leaves none out.
GoesThrough(at, n, P) ==
  /\ at \in [1 .. n -> P]
  /\ \A p \in P : \E k \in 1 .. n : at[k] = p
  /\ \A i, k \in 1 .. n : i < k <=> at[i] < at[k]

\* A sublist holds the elements at its places, in the order they have.
LEMMA SublistPlaces ==
  ASSUME NEW T, NEW s \in Seq(T), NEW P \in SUBSET DOMAIN s
  PROVE  /\ IsFiniteSet(P) /\ Cardinality(P) \in Nat /\ Cardinality(P) <= Len(s)
         /\ \E at : /\ GoesThrough(at, Cardinality(P), P)
                    /\ Sublist(s, P) = [k \in 1 .. Cardinality(P) |-> s[at[k]]]
         /\ Sublist(s, P) \in Seq(T) /\ Len(Sublist(s, P)) = Cardinality(P)
<1> DEFINE n == Cardinality(P)
           order == {p \in P \X P : p[1] < p[2]}
           at == InOrder(P, order)
<1>1. DOMAIN s = 1 .. Len(s) /\ Len(s) \in Nat OBVIOUS
<1>2. IsFiniteSet(DOMAIN s) /\ Cardinality(DOMAIN s) = Len(s)
  <2>1. PICK len \in Nat : len = Len(s) BY <1>1
  <2>2. IsFiniteSet(1 .. len) /\ Cardinality(1 .. len) = len BY FS_Interval
  <2> QED BY <1>1, <2>1, <2>2
<1>3. IsFiniteSet(P) /\ n <= Len(s) BY <1>2, FS_Subset
<1>4. n \in Nat BY <1>3, FS_CardinalityType
<1>5. \A x, y \in P : x \in Int /\ (<<x, y>> \in order <=> x < y) BY <1>1
<1>6. Sublist(s, P) = [k \in DOMAIN at |-> s[at[k]]] BY DEF Sublist
<1> HIDE DEF order
<1>7. Ordering(P, order) BY <1>5 DEF Ordering
<1>8. /\ at \in [1 .. n -> P]
      /\ \A p \in P : \E k \in 1 .. n : at[k] = p
      /\ \A i, k \in 1 .. n : i < k <=> <<at[i], at[k]>> \in order
  BY <1>3, <1>7, InOrderRanks
<1> HIDE DEF at
<1>9. \A i, k \in 1 .. n : i < k <=> at[i] < at[k] BY <1>5, <1>8
<1>10. GoesThrough(at, n, P) BY <1>8, <1>9 DEF GoesThrough
<1>11. Sublist(s, P) = [k \in 1 .. n |-> s[at[k]]] BY <1>6, <1>8
<1>12. \A k \in 1 .. n : s[at[k]] \in T BY <1>1, <1>8
<1>13. Sublist(s, P) \in Seq(T) /\ Len(Sublist(s, P)) = n BY <1>4, <1>11, <1>12
<1> QED BY <1>3, <1>4, <1>10, <1>11, <1>13

\* No two of the questions have the same id.
DistinctIds(q) == \A i, k \in DOMAIN q : q[i].id = q[k].id => i = k

\* A sublist of questions with distinct ids has distinct ids.
LEMMA SublistKeeps ==
  ASSUME NEW X, NEW q \in Seq(X), NEW P \in SUBSET DOMAIN q
  PROVE  /\ Sublist(q, P) \in Seq(X) /\ Len(Sublist(q, P)) <= Len(q)
         /\ \A k \in DOMAIN Sublist(q, P) : \E i \in P : Sublist(q, P)[k] = q[i]
         /\ DistinctIds(q) => DistinctIds(Sublist(q, P))
<1> DEFINE n == Cardinality(P)
           w == Sublist(q, P)
<1>1. PICK at : GoesThrough(at, n, P) /\ w = [k \in 1 .. n |-> q[at[k]]] BY SublistPlaces
<1>2. n \in Nat /\ n <= Len(q) /\ w \in Seq(X) /\ Len(w) = n BY SublistPlaces
<1> HIDE DEF n, w
<1>3. \A k \in 1 .. n : at[k] \in P /\ at[k] \in DOMAIN q /\ at[k] \in Int
  BY <1>1 DEF GoesThrough
<1>4. ASSUME NEW k \in DOMAIN w PROVE \E i \in P : w[k] = q[i] BY <1>1, <1>3
<1>5. ASSUME DistinctIds(q), NEW k \in DOMAIN w, NEW l \in DOMAIN w, w[k].id = w[l].id PROVE k = l
  <2>1. k \in 1 .. n /\ l \in 1 .. n /\ w[k] = q[at[k]] /\ w[l] = q[at[l]] BY <1>1
  <2>2. at[k] = at[l] BY <1>3, <1>5, <2>1 DEF DistinctIds
  <2>3. ~(k < l) /\ ~(l < k) BY <1>1, <1>3, <2>1, <2>2 DEF GoesThrough
  <2> QED BY <2>1, <2>3
<1>6. DistinctIds(q) => DistinctIds(w) BY <1>5 DEF DistinctIds
<1> QED BY <1>2, <1>4, <1>6 DEF w

(***************************************************************************)
(* Flattening                                                              *)
(***************************************************************************)
\* w holds the elements of the first m parts: part[k] and place[k] say where w[k] is from.
Placed(parts, m, w, part, place) ==
  /\ \A k \in DOMAIN w : /\ part[k] \in 1 .. m /\ place[k] \in DOMAIN parts[part[k]]
                          /\ w[k] = parts[part[k]][place[k]]
  /\ \A k, l \in DOMAIN w : part[k] = part[l] /\ place[k] = place[l] => k = l
  /\ \A p \in 1 .. m : \A i \in DOMAIN parts[p] : \E k \in DOMAIN w : part[k] = p /\ place[k] = i

Flattened(parts, m, w) == \E part, place : Placed(parts, m, w, part, place)

LEMMA OneMorePart ==
  ASSUME NEW X, NEW parts \in Seq(Seq(X)), NEW m \in Nat, m + 1 \in DOMAIN parts,
         NEW w \in Seq(X), Flattened(parts, m, w)
  PROVE  w \o parts[m + 1] \in Seq(X) /\ Flattened(parts, m + 1, w \o parts[m + 1])
<1> DEFINE v == w \o parts[m + 1]
<1>1. m + 1 \notin 1 .. m /\ m + 1 \in 1 .. (m + 1) OBVIOUS
<1>2. parts[m + 1] \in Seq(X) OBVIOUS
<1>3. PICK part, place : Placed(parts, m, w, part, place) BY DEF Flattened
<1>4. PICK len \in Nat : len = Len(w) OBVIOUS
<1>5. PICK more \in Nat : more = Len(parts[m + 1]) BY <1>2
<1>6. DOMAIN w = 1 .. len /\ DOMAIN parts[m + 1] = 1 .. more BY <1>2, <1>4, <1>5
<1>7. /\ v \in Seq(X) /\ DOMAIN v = 1 .. (len + more)
      /\ \A k \in DOMAIN v : v[k] = IF k <= len THEN w[k] ELSE parts[m + 1][k - len]
  BY <1>2, <1>4, <1>5
<1> HIDE DEF v
<1>8. PICK part2 : part2 = [k \in DOMAIN v |-> IF k <= len THEN part[k] ELSE m + 1] OBVIOUS
<1>9. PICK place2 : place2 = [k \in DOMAIN v |-> IF k <= len THEN place[k] ELSE k - len] OBVIOUS
<1>10. \A k \in DOMAIN v : k <= len =>
         /\ k \in DOMAIN w /\ part2[k] = part[k] /\ place2[k] = place[k] /\ v[k] = w[k]
  BY <1>6, <1>7, <1>8, <1>9
<1>11. \A k \in DOMAIN v : ~(k <= len) =>
         /\ part2[k] = m + 1 /\ place2[k] = k - len /\ k - len \in DOMAIN parts[m + 1]
         /\ v[k] = parts[m + 1][k - len]
  BY <1>6, <1>7, <1>8, <1>9
<1>12. ASSUME NEW k \in DOMAIN v
       PROVE  /\ part2[k] \in 1 .. (m + 1) /\ place2[k] \in DOMAIN parts[part2[k]]
              /\ v[k] = parts[part2[k]][place2[k]]
  <2>1. CASE k <= len
    <3>1. k \in DOMAIN w /\ part2[k] = part[k] /\ place2[k] = place[k] /\ v[k] = w[k]
      BY <1>10, <2>1
    <3>2. /\ part[k] \in 1 .. m /\ place[k] \in DOMAIN parts[part[k]]
          /\ w[k] = parts[part[k]][place[k]]
      BY <1>3, <3>1, Zenon DEF Placed
    <3>3. part[k] \in 1 .. (m + 1) BY <3>2
    <3> QED BY <3>1, <3>2, <3>3, Zenon
  <2>2. CASE ~(k <= len) BY <1>1, <1>11, <2>2
  <2> QED BY <2>1, <2>2
<1>13. ASSUME NEW k \in DOMAIN v, NEW l \in DOMAIN v, part2[k] = part2[l], place2[k] = place2[l]
       PROVE  k = l
  <2>1. k \in Int /\ l \in Int BY <1>7
  <2>2. k <= len => part2[k] # m + 1 BY <1>1, <1>3, <1>10 DEF Placed
  <2>3. l <= len => part2[l] # m + 1 BY <1>1, <1>3, <1>10 DEF Placed
  <2>4. CASE k <= len /\ l <= len BY <1>3, <1>10, <1>13, <2>4 DEF Placed
  <2>5. CASE ~(k <= len) /\ ~(l <= len) BY <1>11, <1>13, <2>1, <2>5
  <2> QED BY <1>11, <1>13, <2>2, <2>3, <2>4, <2>5
<1>14. ASSUME NEW p \in 1 .. (m + 1), NEW i \in DOMAIN parts[p]
       PROVE  \E k \in DOMAIN v : part2[k] = p /\ place2[k] = i
  <2>1. CASE p = m + 1
    <3>1. i \in 1 .. more BY <1>6, <2>1
    <3>2. PICK k \in Int : k = len + i BY <3>1
    <3>3. k \in 1 .. (len + more) /\ ~(k <= len) /\ k - len = i BY <3>1, <3>2
    <3> QED BY <1>7, <1>11, <2>1, <3>3
  <2>2. CASE p # m + 1
    <3>1. p \in 1 .. m BY <2>2
    <3>2. PICK k \in DOMAIN w : part[k] = p /\ place[k] = i BY <1>3, <3>1 DEF Placed
    <3>3. k \in DOMAIN v /\ k <= len BY <1>6, <1>7, <3>2
    <3> QED BY <1>10, <3>2, <3>3
  <2> QED BY <2>1, <2>2
<1>15. Placed(parts, m + 1, v, part2, place2)
  <2>1. \A k \in DOMAIN v : /\ part2[k] \in 1 .. (m + 1) /\ place2[k] \in DOMAIN parts[part2[k]]
                            /\ v[k] = parts[part2[k]][place2[k]]
    BY <1>12, Zenon
  <2>2. \A k, l \in DOMAIN v : part2[k] = part2[l] /\ place2[k] = place2[l] => k = l
    BY <1>13, Zenon
  <2>3. \A p \in 1 .. (m + 1) : \A i \in DOMAIN parts[p] :
          \E k \in DOMAIN v : part2[k] = p /\ place2[k] = i
    BY <1>14, Zenon
  <2> QED BY <2>1, <2>2, <2>3, Zenon DEF Placed
<1>16. v \in Seq(X) /\ Flattened(parts, m + 1, v) BY <1>7, <1>15 DEF Flattened
<1> QED BY <1>16 DEF v

\* f gives the wholes of the first k parts.
Appends(f, X, n, parts) ==
  f \in [0 .. n -> Seq(X)] /\ f[0] = <<>> /\ \A k \in 1 .. n : f[k] = f[k - 1] \o parts[k]

LEMMA Appending ==
  ASSUME NEW X, NEW n \in Nat, NEW parts
  PROVE  (\A p \in 1 .. n : parts[p] \in Seq(X)) => \E f : Appends(f, X, n, parts)
<1>1. PICK S, empty, step : /\ S = Seq(X) /\ empty = <<>>
                            /\ step = [k \in 1 .. n |-> [w \in S |-> w \o parts[k]]]
  OBVIOUS
<1>2. ASSUME empty \in S, step \in [1 .. n -> [S -> S]]
      PROVE  \E f \in [0 .. n -> S] : f[0] = empty /\ \A k \in 1 .. n : f[k] = step[k][f[k - 1]]
  BY <1>2, Recursion
<1>3. ASSUME \A p \in 1 .. n : parts[p] \in Seq(X) PROVE \E f : Appends(f, X, n, parts)
  <2>1. empty \in S /\ step \in [1 .. n -> [S -> S]] BY <1>1, <1>3
  <2>2. PICK f \in [0 .. n -> S] : f[0] = empty /\ \A k \in 1 .. n : f[k] = step[k][f[k - 1]]
    BY <1>2, <2>1
  <2>3. \A k \in 1 .. n : f[k] = f[k - 1] \o parts[k]
    <3> TAKE k \in 1 .. n
    <3>1. f[k - 1] \in S BY <2>2
    <3> QED BY <1>1, <2>2, <3>1
  <2>4. Appends(f, X, n, parts) BY <1>1, <2>2, <2>3 DEF Appends
  <2> QED BY <2>4
<1> QED BY <1>3

\* Flattening appends one part after another.
LEMMA Flattening ==
  ASSUME NEW X, NEW parts
  PROVE  parts \in Seq(Seq(X)) =>
           \E f : Appends(f, X, Len(parts), parts) /\ FlattenSeq(parts) = f[Len(parts)]
<1> SUFFICES ASSUME parts \in Seq(Seq(X))
             PROVE  \E f : Appends(f, X, Len(parts), parts) /\ FlattenSeq(parts) = f[Len(parts)]
  OBVIOUS
<1>1. PICK n \in Nat : n = Len(parts) /\ DOMAIN parts = 1 .. n OBVIOUS
<1>2. \A p \in 1 .. n : parts[p] \in Seq(X) BY <1>1
<1>3. PICK f : Appends(f, X, n, parts) BY <1>2, Appending
<1>4. f[0] = <<>> /\ \A k \in 1 .. n : f[k] = f[k - 1] \o parts[k] BY <1>3, Zenon DEF Appends
<1>5. CASE n = 0
  <2>1. FlattenSeq(parts) = <<>> BY <1>1, <1>5 DEF FlattenSeq
  <2> QED BY <1>1, <1>3, <1>4, <1>5, <2>1
<1>6. CASE n # 0
  <2> DEFINE Flat(h) == h = [i \in 1 .. n |-> IF i = 1 THEN parts[i] ELSE h[i - 1] \o parts[i]]
             g == CHOOSE h : Flat(h)
  <2>1. f[1] = parts[1]
    <3>1. 1 \in 1 .. n BY <1>6
    <3>2. <<>> \o parts[1] = parts[1] BY <1>2, <3>1
    <3>3. f[1] = f[1 - 1] \o parts[1] BY <1>4, <3>1
    <3>4. 1 - 1 = 0 OBVIOUS
    <3>5. f[1] = f[0] \o parts[1] BY <3>3, <3>4
    <3> QED BY <1>4, <3>2, <3>5
  <2>2. \E h : Flat(h)
    <3>1. PICK h : h = [i \in 1 .. n |-> f[i]] OBVIOUS
    <3>2. \A i \in 1 .. n : h[i] = IF i = 1 THEN parts[i] ELSE h[i - 1] \o parts[i]
      <4> TAKE i \in 1 .. n
      <4>1. CASE i = 1 BY <2>1, <3>1, <4>1
      <4>2. CASE i # 1
        <5>1. i - 1 \in 1 .. n BY <4>2
        <5> QED BY <1>4, <3>1, <4>2, <5>1
      <4> QED BY <4>1, <4>2
    <3>3. Flat(h) BY <3>1, <3>2
    <3> HIDE DEF Flat
    <3> QED BY <3>3
  <2>3. FlattenSeq(parts) = g[n] BY <1>1, <1>6 DEF FlattenSeq
  <2>4. Flat(g)
    <3> HIDE DEF Flat
    <3> QED BY <2>2
  <2> HIDE DEF g
  <2>5. \A k \in 1 .. n : g[k] = IF k = 1 THEN parts[k] ELSE g[k - 1] \o parts[k] BY <2>4
  <2> HIDE DEF Flat
  <2>6. PICK P : P = {k \in 0 .. n : k = 0 \/ g[k] = f[k]} OBVIOUS
  <2>7. ASSUME NEW k \in 0 .. (n - 1), k \in P PROVE k + 1 \in P
    <3>1. k + 1 \in 1 .. n /\ (k + 1) - 1 = k OBVIOUS
    <3>2. CASE k = 0 BY <2>1, <2>5, <2>6, <3>1, <3>2
    <3>3. CASE k # 0
      <4>1. g[k] = f[k] /\ k + 1 # 1 BY <2>6, <2>7, <3>3
      <4>2. g[k + 1] = g[k] \o parts[k + 1] BY <2>5, <3>1, <4>1
      <4>3. f[k + 1] = f[k] \o parts[k + 1] BY <1>4, <3>1
      <4>4. g[k + 1] = f[k + 1] BY <4>1, <4>2, <4>3
      <4>5. k + 1 \in 0 .. n OBVIOUS
      <4> QED BY <2>6, <4>4, <4>5
    <3> QED BY <3>2, <3>3
  <2>8. P \in SUBSET (0 .. n) /\ 0 \in P BY <2>6
  <2>9. P = 0 .. n BY <2>7, <2>8, UpTo
  <2>10. g[n] = f[n] BY <1>6, <2>6, <2>9
  <2> QED BY <1>1, <1>3, <2>3, <2>10
<1> QED BY <1>5, <1>6

\* Every element of the parts stands at one place of the whole, and nothing else does.
LEMMA FlattenPlaces ==
  ASSUME NEW X, NEW parts
  PROVE  parts \in Seq(Seq(X)) =>
           FlattenSeq(parts) \in Seq(X) /\ Flattened(parts, Len(parts), FlattenSeq(parts))
<1> SUFFICES ASSUME parts \in Seq(Seq(X))
             PROVE  FlattenSeq(parts) \in Seq(X) /\ Flattened(parts, Len(parts), FlattenSeq(parts))
  OBVIOUS
<1>1. PICK n \in Nat : n = Len(parts) /\ DOMAIN parts = 1 .. n OBVIOUS
<1>2. PICK f : Appends(f, X, n, parts) /\ FlattenSeq(parts) = f[n] BY <1>1, Flattening
<1>3. f[0] = <<>> /\ \A k \in 1 .. n : f[k] = f[k - 1] \o parts[k] BY <1>2, Zenon DEF Appends
<1>4. PICK P : P = {m \in 0 .. n : f[m] \in Seq(X) /\ Flattened(parts, m, f[m])} OBVIOUS
<1>5. 0 \in P
  <2>1. Placed(parts, 0, <<>>, <<>>, <<>>) BY DEF Placed
  <2>2. <<>> \in Seq(X) /\ Flattened(parts, 0, <<>>) BY <2>1 DEF Flattened
  <2>3. f[0] \in Seq(X) /\ Flattened(parts, 0, f[0]) BY <1>3, <2>2, Zenon
  <2>4. 0 \in 0 .. n OBVIOUS
  <2> QED BY <1>4, <2>3, <2>4
<1>6. ASSUME NEW m \in 0 .. (n - 1), m \in P PROVE m + 1 \in P
  <2>1. m + 1 \in 1 .. n /\ m + 1 \in DOMAIN parts /\ (m + 1) - 1 = m /\ m \in Nat /\ m + 1 \in 0 .. n BY <1>1
  <2>2. f[m + 1] = f[m] \o parts[m + 1] BY <1>3, <2>1
  <2>3. f[m] \in Seq(X) /\ Flattened(parts, m, f[m]) BY <1>4, <1>6
  <2>4. f[m] \o parts[m + 1] \in Seq(X) /\ Flattened(parts, m + 1, f[m] \o parts[m + 1])
    BY <2>1, <2>3, OneMorePart
  <2>5. f[m + 1] \in Seq(X) /\ Flattened(parts, m + 1, f[m + 1]) BY <2>2, <2>4
  <2> QED BY <1>4, <2>1, <2>5
<1>7. P \in SUBSET (0 .. n) BY <1>4
<1>8. P = 0 .. n BY <1>5, <1>6, <1>7, UpTo
<1>9. n \in P BY <1>8
<1> QED BY <1>1, <1>2, <1>4, <1>9

\* w goes on as v does, as far as v goes.
Begins(v, w) == Len(v) <= Len(w) /\ \A j \in 1 .. Len(v) : w[j] = v[j]

\* What was appended stays where it is, and whatever stands in the whole was appended
\* with one of the parts.
LEMMA Wholes ==
  ASSUME NEW X, NEW n \in Nat, NEW parts, NEW f, Appends(f, X, n, parts),
         \A k \in 1 .. n : parts[k] \in Seq(X)
  PROVE  /\ \A k \in 0 .. n : f[k] \in Seq(X) /\ Begins(f[k], f[n])
         /\ Len(f[0]) = 0
         /\ \A k \in 1 .. n : /\ Len(f[k]) = Len(f[k - 1]) + Len(parts[k])
                              /\ \A i \in 1 .. Len(parts[k]) : f[k][Len(f[k - 1]) + i] = parts[k][i]
         /\ \A j \in 1 .. Len(f[n]) : \E k \in 1 .. n : j \in (Len(f[k - 1]) + 1) .. Len(f[k])
<1>1. f \in [0 .. n -> Seq(X)] /\ f[0] = <<>> /\ \A k \in 1 .. n : f[k] = f[k - 1] \o parts[k]
  BY Zenon DEF Appends
<1>2. ASSUME NEW k \in 1 .. n
      PROVE  /\ k - 1 \in 0 .. n /\ Len(f[k - 1]) \in Nat /\ Len(f[k]) \in Nat /\ Len(parts[k]) \in Nat
             /\ Len(f[k]) = Len(f[k - 1]) + Len(parts[k])
             /\ \A i \in 1 .. Len(parts[k]) : f[k][Len(f[k - 1]) + i] = parts[k][i]
             /\ \A i \in 1 .. Len(f[k - 1]) : f[k][i] = f[k - 1][i]
  <2>1. k - 1 \in 0 .. n OBVIOUS
  <2>2. PICK a, b, c : a = f[k - 1] /\ b = parts[k] /\ c = f[k] OBVIOUS
  <2>3. a \in Seq(X) /\ b \in Seq(X) /\ c = a \o b BY <1>1, <2>1, <2>2
  <2>4. c \in Seq(X) /\ Len(c) = Len(a) + Len(b) BY <2>3
  <2>5. \A i \in 1 .. Len(b) : c[Len(a) + i] = b[i]
    <3> TAKE i \in 1 .. Len(b)
    <3>1. Len(a) \in Nat /\ Len(b) \in Nat BY <2>3
    <3>2. Len(a) + i \in 1 .. (Len(a) + Len(b)) /\ ~(Len(a) + i <= Len(a)) /\ (Len(a) + i) - Len(a) = i BY <3>1
    <3> QED BY <2>3, <3>1, <3>2
  <2>6. \A i \in 1 .. Len(a) : c[i] = a[i]
    <3> TAKE i \in 1 .. Len(a)
    <3>1. Len(a) \in Nat /\ Len(b) \in Nat BY <2>3
    <3>2. i \in 1 .. (Len(a) + Len(b)) /\ i <= Len(a) BY <3>1
    <3> QED BY <2>3, <3>1, <3>2
  <2>7. Len(a) \in Nat /\ Len(b) \in Nat /\ Len(c) \in Nat BY <2>3, <2>4
  <2>8. Len(c) = Len(a) + Len(b) BY <2>4
  <2> QED BY <2>1, <2>2, <2>5, <2>6, <2>7, <2>8, Zenon
<1>3. ASSUME NEW k \in 0 .. n PROVE Begins(f[k], f[n])
  <2>1. PICK P : P = {d \in 0 .. (n - k) : Begins(f[k], f[k + d])} OBVIOUS
  <2>2. n - k \in Nat OBVIOUS
  <2>3. 0 \in P
    <3>1. k + 0 = k /\ Len(f[k]) \in Nat BY <1>1
    <3>2. Begins(f[k], f[k]) BY <3>1 DEF Begins
    <3> QED BY <2>1, <2>2, <3>1, <3>2
  <2>4. ASSUME NEW d \in 0 .. ((n - k) - 1), d \in P PROVE d + 1 \in P
    <3>1. PICK l \in 1 .. n : l = k + (d + 1) /\ l - 1 = k + d OBVIOUS
    <3>2. PICK a, b, c : a = f[k] /\ b = f[l - 1] /\ c = f[l] OBVIOUS
    <3>3. Len(a) \in Nat /\ Len(a) <= Len(b) /\ \A j \in 1 .. Len(a) : b[j] = a[j]
      BY <1>1, <2>1, <2>4, <3>1, <3>2 DEF Begins
    <3>4. Len(b) \in Nat /\ Len(c) \in Nat /\ Len(b) <= Len(c) /\ \A j \in 1 .. Len(b) : c[j] = b[j]
      <4>1. PICK p \in Nat : p = Len(parts[l]) BY <1>2
      <4>2. Len(c) = Len(b) + p /\ Len(b) \in Nat /\ Len(c) \in Nat BY <1>2, <3>2, <4>1
      <4>3. Len(b) <= Len(c) BY <4>2
      <4>4. \A j \in 1 .. Len(b) : c[j] = b[j] BY <1>2, <3>2
      <4> QED BY <4>2, <4>3, <4>4
    <3>5. Begins(a, c) BY <3>3, <3>4 DEF Begins
    <3> QED BY <2>1, <3>1, <3>2, <3>5
  <2>5. P \in SUBSET (0 .. (n - k)) BY <2>1
  <2>6. P = 0 .. (n - k) BY <2>2, <2>3, <2>4, <2>5, UpTo
  <2>7. n - k \in P /\ k + (n - k) = n BY <2>2, <2>6
  <2> QED BY <2>1, <2>7
<1>4. Len(f[0]) = 0 BY <1>1
<1>5. \A j \in 1 .. Len(f[n]) : \E k \in 1 .. n : j \in (Len(f[k - 1]) + 1) .. Len(f[k])
  <2> DEFINE In(m) == \A j \in 1 .. Len(f[m]) : \E k \in 1 .. m : j \in (Len(f[k - 1]) + 1) .. Len(f[k])
  <2>1. PICK P : P = {m \in 0 .. n : In(m)} OBVIOUS
  <2>2. 0 \in P BY <1>4, <2>1
  <2>3. ASSUME NEW m \in 0 .. (n - 1), m \in P PROVE m + 1 \in P
    <3>1. m + 1 \in 1 .. n /\ (m + 1) - 1 = m OBVIOUS
    <3>2. Len(f[m]) \in Nat /\ Len(f[m + 1]) \in Nat BY <1>2, <3>1
    <3>3. ASSUME NEW j \in 1 .. Len(f[m + 1]) PROVE \E k \in 1 .. (m + 1) : j \in (Len(f[k - 1]) + 1) .. Len(f[k])
      <4>1. CASE j <= Len(f[m])
        <5>1. j \in 1 .. Len(f[m]) BY <3>2, <4>1
        <5>2. PICK k \in 1 .. m : j \in (Len(f[k - 1]) + 1) .. Len(f[k]) BY <2>1, <2>3, <5>1
        <5>3. k \in 1 .. (m + 1) OBVIOUS
        <5> QED BY <5>2, <5>3
      <4>2. CASE ~(j <= Len(f[m]))
        <5>1. j \in (Len(f[m]) + 1) .. Len(f[m + 1]) BY <3>2, <4>2
        <5>2. m + 1 \in 1 .. (m + 1) OBVIOUS
        <5> QED BY <3>1, <5>1, <5>2
      <4> QED BY <4>1, <4>2
    <3>4. In(m + 1) BY <3>3
    <3> HIDE DEF In
    <3> QED BY <2>1, <3>1, <3>4
  <2>4. P \in SUBSET (0 .. n) BY <2>1
  <2>5. P = 0 .. n BY <2>2, <2>3, <2>4, UpTo
  <2>6. n \in P BY <2>5
  <2> QED BY <2>1, <2>6
<1> QED BY <1>1, <1>2, <1>3, <1>4, <1>5
(***************************************************************************)
(* Least and greatest members                                              *)
(***************************************************************************)
LEMMA MinIs ==
  ASSUME NEW S \in SUBSET Nat, S # {}
  PROVE  Min(S) \in S /\ \A n \in S : Min(S) <= n
<1>1. \E m \in S : \A n \in S : m <= n BY LeastNatural
<1> QED BY <1>1 DEF Min

\* A set of naturals with an upper bound has a greatest member.
LEMMA MaxIs ==
  ASSUME NEW S \in SUBSET Nat, S # {}, NEW b \in Nat, \A n \in S : n <= b
  PROVE  Max(S) \in S /\ \A n \in S : n <= Max(S)
<1>1. PICK D : D = {b - n : n \in S} OBVIOUS
<1>2. D \in SUBSET Nat /\ D # {}
  <2>1. \A n \in S : b - n \in Nat /\ b - n \in D BY <1>1
  <2>2. \A d \in D : d \in Nat BY <1>1, <2>1
  <2> QED BY <2>1, <2>2
<1>3. PICK d \in D : \A e \in D : d <= e BY <1>2, LeastNatural
<1>4. PICK m \in S : d = b - m BY <1>1
<1>5. ASSUME NEW n \in S PROVE n <= m
  <2>1. b - n \in D BY <1>1
  <2>2. b - m <= b - n BY <1>3, <1>4, <2>1
  <2> QED BY <2>2
<1> QED BY <1>5 DEF Max

\* What the first value is, and each value if the one before is, all values are.
LEMMA StaysIn ==
  ASSUME NEW X, NEW n \in Nat, NEW g, g[0] \in X, \A k \in 1 .. n : g[k - 1] \in X => g[k] \in X
  PROVE  \A k \in 0 .. n : g[k] \in X
<1>1. PICK P : P = {k \in 0 .. n : g[k] \in X} OBVIOUS
<1>2. ASSUME NEW k \in 0 .. (n - 1), k \in P PROVE k + 1 \in P
  <2>1. k + 1 \in 1 .. n /\ (k + 1) - 1 = k OBVIOUS
  <2>2. g[(k + 1) - 1] \in X BY <1>1, <1>2, <2>1
  <2> QED BY <1>1, <2>1, <2>2
<1>3. P \in SUBSET (0 .. n) /\ 0 \in P BY <1>1
<1>4. P = 0 .. n BY <1>2, <1>3, UpTo
<1> QED BY <1>1, <1>4

\* Finitely many naturals have an upper bound.
LEMMA Bounded ==
  ASSUME NEW n \in Nat, NEW f, \A k \in 1 .. n : f[k] \in Nat
  PROVE  \E b \in Nat : \A k \in 1 .. n : f[k] <= b
<1> DEFINE Bound(k, b) == \A i \in 1 .. k : f[i] <= b
<1>1. PICK P : P = {k \in 0 .. n : \E b \in Nat : Bound(k, b)} OBVIOUS
<1>2. Bound(0, 0) OBVIOUS
<1>3. ASSUME NEW k \in 0 .. (n - 1), k \in P PROVE k + 1 \in P
  <2>1. PICK b \in Nat : Bound(k, b) BY <1>1, <1>3
  <2>2. f[k + 1] \in Nat OBVIOUS
  <2>3. PICK c \in Nat : b <= c /\ f[k + 1] <= c BY <2>2
  <2>4. ASSUME NEW i \in 1 .. (k + 1) PROVE f[i] <= c
    <3>1. f[i] \in Nat OBVIOUS
    <3>2. CASE i = k + 1 BY <2>3, <3>2
    <3>3. CASE i # k + 1
      <4>1. f[i] <= b BY <2>1, <3>3
      <4> QED BY <2>3, <3>1, <4>1
    <3> QED BY <3>2, <3>3
  <2>5. Bound(k + 1, c) BY <2>4
  <2> HIDE DEF Bound
  <2> QED BY <1>1, <2>5
<1>4. P \in SUBSET (0 .. n) /\ 0 \in P
  <2> HIDE DEF Bound
  <2> QED BY <1>1, <1>2
<1>5. P = 0 .. n BY <1>3, <1>4, UpTo
<1>6. n \in P BY <1>5
<1> QED BY <1>1, <1>6
=============================================================================
