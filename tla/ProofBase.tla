----------------------------- MODULE ProofBase -----------------------------
(***************************************************************************)
(* What several of the proofs rest on. Induction without an operator as a  *)
(* parameter: what does not hold of all natural numbers, or of all subsets *)
(* of a finite set, fails for a smallest one. And the arithmetic of        *)
(* counters that wrap and of quotients that are rounded.                   *)
(***************************************************************************)
EXTENDS Integers, Sequences, FiniteSets, FiniteSetTheorems, TLAPS

(***************************************************************************)
(* A set of natural numbers has a least one.                               *)
(***************************************************************************)
LEMMA LeastNatural ==
    ASSUME NEW S \in SUBSET Nat, S # {}
    PROVE  \E n \in S : \A m \in S : n <= m
<1> DEFINE Less == {pair \in Nat \X Nat : pair[1] < pair[2]}
<1>1. IsWellFoundedOn(Less, Nat)
  BY NatLessThanWellFounded DEF OpToRel
<1>2. PICK n \in S : \A m \in S : ~(<<m, n>> \in Less)
  <2> HIDE DEF Less
  <2> QED
    BY <1>1, WFMin
<1>3. \A m \in S : ~(m < n)
  BY <1>2
<1> QED
  BY <1>3

(***************************************************************************)
(* Among some subsets of a finite set, there is one that holds none of the *)
(* others.                                                                 *)
(***************************************************************************)
LEMMA SmallestSubset ==
    ASSUME NEW S, IsFiniteSet(S), NEW Bad \in SUBSET SUBSET S, Bad # {}
    PROVE  \E s \in Bad : \A r \in SUBSET s : r # s => r \notin Bad
<1>1. \A s \in Bad : IsFiniteSet(s) /\ Cardinality(s) \in Nat
  BY FS_Subset, FS_CardinalityType
<1>2. PICK n \in {Cardinality(s) : s \in Bad} :
          \A m \in {Cardinality(s) : s \in Bad} : n <= m
  <2>1. {Cardinality(s) : s \in Bad} \in SUBSET Nat
    BY <1>1
  <2>2. {Cardinality(s) : s \in Bad} # {}
    OBVIOUS
  <2> QED
    BY <2>1, <2>2, LeastNatural
<1>3. PICK s \in Bad : n = Cardinality(s)
  BY <1>2
<1>4. ASSUME NEW r \in SUBSET s, r # s PROVE r \notin Bad
  <2>1. Cardinality(r) \in Nat /\ Cardinality(s) \in Nat
    BY <1>1, FS_Subset, FS_CardinalityType
  <2>2. Cardinality(r) <= Cardinality(s) /\ Cardinality(r) # Cardinality(s)
    BY <1>1, <1>4, FS_Subset
  <2>3. ~(n <= Cardinality(r))
    BY <1>3, <2>1, <2>2
  <2> QED
    BY <1>2, <2>3
<1> QED
  BY <1>4

-----------------------------------------------------------------------------
(***************************************************************************)
(* Division with remainder, for the provers.                               *)
(***************************************************************************)
LEMMA Divided ==
    ASSUME NEW a \in Nat, NEW c \in Nat \ {0}
    PROVE  /\ a \div c \in Nat /\ a % c \in 0..(c - 1)
           /\ c * (a \div c) <= a /\ a < c * (a \div c) + c
           /\ a % c = a - c * (a \div c)
<1>1. a \div c \in Nat /\ a % c \in 0..(c - 1)
  OBVIOUS
<1>2. c * (a \div c) <= a /\ a < c * (a \div c) + c
  OBVIOUS
<1>3. a % c = a - c * (a \div c)
  BY Z3
<1> QED
  BY <1>1, <1>2, <1>3

(***************************************************************************)
(* What is added to whole multiples is the remainder.                      *)
(***************************************************************************)
LEMMA RemainderOf ==
    ASSUME NEW c \in Nat \ {0}, NEW q \in Int, NEW r \in 0..(c - 1)
    PROVE  (c * q + r) % c = r
  OBVIOUS

(***************************************************************************)
(* The quotient is the largest number whose multiple fits.                 *)
(***************************************************************************)
LEMMA QuotientLeast ==
    ASSUME NEW a \in Nat, NEW c \in Nat \ {0}, NEW q \in Int, c * q <= a
    PROVE  q <= a \div c
  OBVIOUS

(***************************************************************************)
(* A counter that wraps, less an earlier value of it.                      *)
(***************************************************************************)
LEMMA Difference ==
    ASSUME NEW w \in Nat \ {0}, NEW a \in Nat, NEW b \in Nat, a <= b, b - a < w
    PROVE  ((b % w) - (a % w)) % w = b - a
<1> DEFINE qa == a \div w
           qb == b \div w
           k  == qb - qa
<1>1. qa \in Nat /\ qb \in Nat /\ b % w = b - w * qb /\ a % w = a - w * qa
  BY Divided
<1>2. qa <= qb
  BY Z3
<1> HIDE DEF qa, qb
<1>3. (b % w) - (a % w) = w * (-k) + (b - a)
  BY <1>1
<1>4. (w * (-k) + (b - a)) % w = b - a
  <2>1. -k \in Int /\ b - a \in 0..(w - 1)
    BY <1>1
  <2> HIDE DEF k
  <2> QED
    BY <2>1, RemainderOf
<1> QED
  BY <1>3, <1>4

(***************************************************************************)
(* A counter that has not come round and is the same has not moved.        *)
(***************************************************************************)
LEMMA SameRemainder ==
    ASSUME NEW w \in Nat \ {0}, NEW a \in Nat, NEW b \in Nat, a <= b, b - a < w,
           a % w = b % w
    PROVE  a = b
<1>1. ((b % w) - (a % w)) % w = b - a
  BY Difference
<1>2. (b % w) - (a % w) = 0 /\ 0 % w = 0
  OBVIOUS
<1> QED
  BY <1>1, <1>2

(***************************************************************************)
(* Until the next wrap, a counter is what has been added since the last.   *)
(***************************************************************************)
LEMMA AboveAWrap ==
    ASSUME NEW w \in Nat \ {0}, NEW base \in Nat, base % w = 0,
           NEW n \in Nat, base <= n, n - base < w
    PROVE  n % w = n - base
<1>1. ((n % w) - (base % w)) % w = n - base
  BY Difference
<1>2. n % w \in 0..(w - 1)
  OBVIOUS
<1>3. (n % w) % w = n % w
  BY <1>2
<1> QED
  BY <1>1, <1>2, <1>3

(***************************************************************************)
(* A product grows with its factors.                                       *)
(***************************************************************************)
LEMMA TimesMore ==
    ASSUME NEW a \in Int, NEW b \in Int, NEW k \in Nat, a <= b
    PROVE  k * a <= k * b /\ a * k <= b * k
  OBVIOUS

(***************************************************************************)
(* A quotient of no more than the product that fits is a word.             *)
(***************************************************************************)
LEMMA QuotientFits ==
    ASSUME NEW V \in Nat, NEW N \in Nat \ {0}, NEW D \in Nat, N <= D,
           NEW p \in Nat, p < V * N, NEW f \in Nat, D * f <= p
    PROVE  f < V
<1> SUFFICES ASSUME V <= f PROVE FALSE
  OBVIOUS
<1>1. V * N <= f * N
  BY TimesMore
<1>2. f * N <= f * D
  BY TimesMore
<1>3. f * D = D * f
  OBVIOUS
<1>4. V * N \in Nat /\ f * N \in Nat /\ f * D \in Nat
  OBVIOUS
<1> QED
  BY <1>1, <1>2, <1>3, <1>4

(***************************************************************************)
(* Cycles counted over some ticks, at least those asked for, are as many   *)
(* as there are in those ticks but for those lost: then the quotient f is  *)
(* the frequency but for as much.                                          *)
(***************************************************************************)
LEMMA QuotientClose ==
    ASSUME NEW C \in Nat, NEW F \in Nat, NEW N \in Nat \ {0}, NEW D \in Nat, N <= D,
           NEW lost \in Nat, NEW c \in Nat,
           C * D - lost <= c, c <= C * N + lost,
           NEW f \in Nat, D * f <= c * F, c * F < D * f + D
    PROVE  LET off == f - C * F
           IN  (IF off < 0 THEN -off ELSE off) * N <= lost * F + N
<1> DEFINE off == f - C * F
           CF  == C * F
           LF  == lost * F
<1>1. off \in Int /\ CF \in Nat /\ LF \in Nat /\ f = off + CF
  OBVIOUS
<1>2. D * f = D * off + D * CF
  <2> HIDE DEF CF, off
  <2> QED
    BY <1>1
<1>3. D * off <= LF
  <2>1. C * N <= C * D
    BY TimesMore
  <2>2. c * F <= (C * D + lost) * F
    <3>1. c <= C * D + lost /\ C * D + lost \in Int
      BY <2>1
    <3> QED
      BY <3>1, TimesMore
  <2>3. (C * D + lost) * F = D * CF + LF
    OBVIOUS
  <2>4. D * f <= D * CF + LF
    BY <2>2, <2>3
  <2> HIDE DEF CF, LF, off
  <2> QED
    BY <1>1, <1>2, <2>4
<1>4. -LF - D < D * off
  <2>1. (C * D - lost) * F <= c * F
    <3>1. C * D - lost \in Int
      OBVIOUS
    <3> QED
      BY <3>1, TimesMore
  <2>2. (C * D - lost) * F = D * CF - LF
    OBVIOUS
  <2>3. D * CF - LF < D * f + D
    BY <2>1, <2>2
  <2> HIDE DEF CF, LF, off
  <2> QED
    BY <1>1, <1>2, <2>3
<1> HIDE DEF CF, LF, off
<1>5. CASE off >= 0
  <2>1. off * N <= D * off
    BY <1>1, <1>5, TimesMore
  <2>2. off * N <= LF + N
    BY <1>1, <1>3, <2>1
  <2> QED
    BY <1>1, <1>5, <2>2 DEF off, CF, LF
<1>6. CASE off < 0
  <2> DEFINE more == -off - 1
  <2>1. more \in Nat /\ off = -(more + 1)
    BY <1>1, <1>6
  <2>2. D * off = -(D * more) - D
    <3> HIDE DEF more
    <3> QED
      BY <2>1
  <2>3. D * more < LF
    <3>1. D * more \in Int /\ D * off \in Int
      BY <1>1, <2>1
    <3> QED
      BY <1>1, <1>4, <2>2, <3>1
  <2>4. N * more <= D * more
    <3> HIDE DEF more
    <3> QED
      BY <2>1, TimesMore
  <2>5. (-off) * N = N * more + N
    <3> HIDE DEF more
    <3>1. -off = more + 1
      BY <1>1, <2>1
    <3>2. (more + 1) * N = N * more + N
      BY <2>1
    <3> QED
      BY <3>1, <3>2
  <2>6. (-off) * N <= LF + N
    <3>1. N * more \in Int /\ D * more \in Int
      BY <2>1
    <3> QED
      BY <1>1, <2>3, <2>4, <2>5, <3>1
  <2> QED
    BY <1>1, <1>6, <2>6 DEF off, CF, LF
<1> QED
  BY <1>1, <1>5, <1>6

-----------------------------------------------------------------------------
(***************************************************************************)
(* Induction over a set of natural numbers: what holds of a member when it *)
(* holds of all smaller ones holds of them all.                            *)
(***************************************************************************)
LEMMA StrongInduction ==
    ASSUME NEW S \in SUBSET Nat, NEW P,
           \A n \in S : (\A m \in S : m < n => m \in P) => n \in P
    PROVE  S \subseteq P
<1> SUFFICES ASSUME S \ P # {} PROVE FALSE
  OBVIOUS
<1>1. PICK n \in S \ P : \A m \in S \ P : n <= m
  BY LeastNatural
<1>2. \A m \in S : m < n => m \in P
  BY <1>1
<1> QED
  BY <1>1, <1>2

(***************************************************************************)
(* Induction, with the numbers that have the property as a set.            *)
(***************************************************************************)
LEMMA Induction ==
    ASSUME NEW P, 0 \in P, \A n \in Nat : n \in P => n + 1 \in P
    PROVE  Nat \subseteq P
<1>1. ASSUME NEW n \in Nat, \A m \in Nat : m < n => m \in P PROVE n \in P
  <2>1. CASE n = 0
    BY <2>1
  <2>2. CASE n # 0
    <3>1. n - 1 \in Nat /\ n - 1 < n /\ (n - 1) + 1 = n
      BY <2>2
    <3> QED
      BY <1>1, <3>1
  <2> QED
    BY <2>1, <2>2
<1> QED
  BY <1>1, StrongInduction

(***************************************************************************)
(* A step that maps V to V can be taken any number of times: the function  *)
(* that a recursive definition over Nat describes exists.                  *)
(***************************************************************************)
LEMMA Iterated ==
    ASSUME NEW V, NEW v \in V, NEW step \in [V -> V]
    PROVE  \E f \in [Nat -> V] : f[0] = v /\ \A k \in Nat : f[k + 1] = step[f[k]]
<1> DEFINE Good(n) == {f \in [0..n -> V] : f[0] = v /\ \A k \in 0..(n - 1) : f[k + 1] = step[f[k]]}
           P == {n \in Nat : \E f : Good(n) = {f}}
<1>1. 0 \in P
  <2> DEFINE f0 == [k \in 0..0 |-> v]
  <2>1. f0 \in Good(0)
    OBVIOUS
  <2>2. ASSUME NEW f \in Good(0) PROVE f = f0
    OBVIOUS
  <2>3. Good(0) = {f0}
    <3> HIDE DEF f0, Good
    <3> QED
      BY <2>1, <2>2
  <2> QED
    BY <2>3
<1>2. ASSUME NEW n \in Nat, n \in P PROVE n + 1 \in P
  <2>1. PICK f : Good(n) = {f}
    BY <1>2
  <2>2. f \in [0..n -> V] /\ f[0] = v /\ \A k \in 0..(n - 1) : f[k + 1] = step[f[k]]
    <3>1. f \in Good(n)
      BY <2>1
    <3> QED
      BY <3>1
  <2> DEFINE h == [k \in 0..(n + 1) |-> IF k = n + 1 THEN step[f[n]] ELSE f[k]]
  <2>3. h \in Good(n + 1)
    <3>1. step[f[n]] \in V
      BY <2>2
    <3>2. h \in [0..(n + 1) -> V]
      BY <2>2, <3>1
    <3>3. h[0] = v
      BY <2>2
    <3>4. ASSUME NEW k \in 0..((n + 1) - 1) PROVE h[k + 1] = step[h[k]]
      <4>1. CASE k = n
        BY <4>1
      <4>2. CASE k # n
        <5>1. k \in 0..(n - 1) /\ k + 1 \in 0..n /\ k \in 0..n
          BY <4>2
        <5> QED
          BY <2>2, <5>1
      <4> QED
        BY <4>1, <4>2
    <3> HIDE DEF h
    <3> QED
      BY <3>2, <3>3, <3>4
  <2>4. ASSUME NEW g \in Good(n + 1) PROVE g = h
    <3>1. g \in [0..(n + 1) -> V] /\ g[0] = v
              /\ \A k \in 0..((n + 1) - 1) : g[k + 1] = step[g[k]]
      BY <2>4
    <3> DEFINE cut == [k \in 0..n |-> g[k]]
    <3>2. cut \in Good(n)
      <4>1. cut \in [0..n -> V] /\ cut[0] = v
        BY <3>1
      <4>2. ASSUME NEW k \in 0..(n - 1) PROVE cut[k + 1] = step[cut[k]]
        <5>1. k \in 0..((n + 1) - 1) /\ k + 1 \in 0..n /\ k \in 0..n
          OBVIOUS
        <5> QED
          BY <3>1, <5>1
      <4> HIDE DEF cut
      <4> QED
        BY <4>1, <4>2
    <3>3. cut = f
      BY <2>1, <3>2
    <3>4. \A k \in 0..n : g[k] = f[k]
      BY <3>3
    <3>5. g[n + 1] = step[f[n]]
      <4>1. n \in 0..((n + 1) - 1) /\ n \in 0..n
        OBVIOUS
      <4> QED
        BY <3>1, <3>4, <4>1
    <3>6. \A k \in 0..(n + 1) : g[k] = h[k]
      BY <3>4, <3>5
    <3> QED
      BY <3>1, <3>6
  <2>5. Good(n + 1) = {h}
    <3> HIDE DEF h, Good
    <3> QED
      BY <2>3, <2>4
  <2> HIDE DEF Good, h
  <2> QED
    BY <2>5
<1>3. \A n \in Nat : \E f : Good(n) = {f}
  <2> HIDE DEF Good
  <2>1. Nat \subseteq P
    <3> HIDE DEF P
    <3> QED
      BY <1>1, <1>2, Induction
  <2> QED
    BY <2>1
<1> DEFINE First(n) == CHOOSE f : Good(n) = {f}
           all == [n \in Nat |-> First(n)[n]]
<1>4. ASSUME NEW n \in Nat PROVE First(n) \in Good(n)
  <2> HIDE DEF Good
  <2> QED
    BY <1>3
<1>5. all[0] = v
  <2>1. First(0) \in Good(0)
    BY <1>4
  <2> DEFINE f == First(0)
  <2>2. f[0] = v
    <3> HIDE DEF f
    <3>1. f \in Good(0)
      BY <2>1 DEF f
    <3> QED
      BY <3>1
  <2>3. all[0] = f[0]
    OBVIOUS
  <2> QED
    BY <2>2, <2>3
<1>6. ASSUME NEW k \in Nat PROVE all[k] \in V /\ all[k + 1] = step[all[k]]
  <2> DEFINE long == First(k + 1)
             short == First(k)
  <2>1. long \in [0..(k + 1) -> V] /\ long[0] = v
            /\ \A i \in 0..((k + 1) - 1) : long[i + 1] = step[long[i]]
    <3>1. long \in Good(k + 1)
      <4>1. k + 1 \in Nat
        OBVIOUS
      <4> HIDE DEF Good, First
      <4> QED
        BY <1>4, <4>1
    <3> QED
      BY <3>1
  <2>2. short \in [0..k -> V]
    <3>1. short \in Good(k)
      BY <1>4
    <3> QED
      BY <3>1
  <2> DEFINE cut == [i \in 0..k |-> long[i]]
  <2>3. cut \in Good(k)
    <3> HIDE DEF long
    <3>1. cut \in [0..k -> V] /\ cut[0] = v
      BY <2>1
    <3>2. ASSUME NEW i \in 0..(k - 1) PROVE cut[i + 1] = step[cut[i]]
      <4>1. i \in 0..((k + 1) - 1) /\ i + 1 \in 0..k /\ i \in 0..k
        OBVIOUS
      <4> QED
        BY <2>1, <4>1
    <3> HIDE DEF cut
    <3> QED
      BY <3>1, <3>2
  <2>4. cut = short
    <3>1. short \in Good(k)
      BY <1>4
    <3> HIDE DEF cut, short, Good
    <3> QED
      BY <1>3, <2>3, <3>1
  <2>5. all[k + 1] = long[k + 1] /\ all[k] = short[k]
    OBVIOUS
  <2>6. short[k] = long[k]
    <3> HIDE DEF long, short
    <3> QED
      BY <2>4
  <2>7. long[k + 1] = step[long[k]]
    <3> HIDE DEF long
    <3>1. k \in 0..((k + 1) - 1)
      OBVIOUS
    <3> QED
      BY <2>1, <3>1
  <2>8. short[k] \in V
    <3> HIDE DEF short
    <3>1. k \in 0..k
      OBVIOUS
    <3> QED
      BY <2>2, <3>1
  <2> QED
    BY <2>5, <2>6, <2>7, <2>8
<1>7. all \in [Nat -> V]
  <2>1. \A k \in Nat : First(k)[k] \in V
    BY <1>6
  <2> QED
    BY <2>1
<1> HIDE DEF all
<1> QED
  BY <1>5, <1>6, <1>7

(***************************************************************************)
(* Dividing by b and then by c is dividing by their product.               *)
(***************************************************************************)
LEMMA DividedTwice ==
    ASSUME NEW a \in Nat, NEW b \in Nat \ {0}, NEW c \in Nat \ {0}
    PROVE  (a \div b) \div c = a \div (b * c)
<1> DEFINE q == a \div b
           t == q \div c
           s == a \div (b * c)
<1>1. q \in Nat /\ b * q <= a /\ a < b * q + b
  BY Divided
<1>2. t \in Nat /\ c * t <= q /\ q < c * t + c
  BY <1>1, Divided
<1>3. b * c \in Nat \ {0}
  OBVIOUS
<1>4. s \in Nat /\ (b * c) * s <= a /\ a < (b * c) * s + b * c
  BY <1>3, Divided
<1> HIDE DEF q, t, s
<1>5. t <= s
  <2>1. b * (c * t) <= b * q
    BY <1>1, <1>2, TimesMore
  <2>2. b * (c * t) = (b * c) * t
    BY <1>2
  <2>3. (b * c) * t <= a
    <3>1. b * (c * t) \in Int /\ b * q \in Int
      BY <1>1, <1>2
    <3> QED
      BY <1>1, <2>1, <2>2, <3>1
  <2> QED
    BY <1>2, <1>3, <2>3, QuotientLeast DEF s
<1>6. s <= t
  <2>1. b * (c * s) <= a
    BY <1>4
  <2>2. c * s <= q
    <3>1. c * s \in Int
      BY <1>4
    <3> QED
      BY <2>1, <3>1, QuotientLeast DEF q
  <2> QED
    BY <1>1, <1>4, <2>2, QuotientLeast DEF t
<1>7. t = s
  BY <1>2, <1>4, <1>5, <1>6
<1> QED
  BY <1>7 DEF q, t, s

-----------------------------------------------------------------------------
(***************************************************************************)
(* Sequences, for the provers.                                             *)
(***************************************************************************)

(***************************************************************************)
(* A sequence over a set is one over any larger set.                       *)
(***************************************************************************)
LEMMA WiderSeq == ASSUME NEW S, NEW T, S \subseteq T, NEW s \in Seq(S) PROVE s \in Seq(T)
  OBVIOUS

(***************************************************************************)
(* Where the members of a concatenation come from.                         *)
(***************************************************************************)
LEMMA Concatenated ==
    ASSUME NEW S, NEW s \in Seq(S), NEW t \in Seq(S)
    PROVE  /\ s \o t \in Seq(S) /\ Len(s \o t) = Len(s) + Len(t)
           /\ \A i \in 1..Len(s) : (s \o t)[i] = s[i]
           /\ \A i \in 1..Len(t) : (s \o t)[Len(s) + i] = t[i]
  OBVIOUS

(***************************************************************************)
(* Concatenation is associative, and the empty sequence changes nothing.   *)
(***************************************************************************)
LEMMA ConcatAssociates ==
    ASSUME NEW S, NEW s \in Seq(S), NEW t \in Seq(S), NEW u \in Seq(S)
    PROVE  (s \o t) \o u = s \o (t \o u) /\ s \o <<>> = s /\ <<>> \o s = s
  OBVIOUS

(***************************************************************************)
(* The head and the tail of a sequence with a new first member.            *)
(***************************************************************************)
LEMMA AfterFirst ==
    ASSUME NEW S, NEW s \in Seq(S), NEW c \in S
    PROVE  /\ <<c>> \o s \in Seq(S) /\ <<c>> \o s # <<>>
           /\ Head(<<c>> \o s) = c /\ Tail(<<c>> \o s) = s /\ (<<c>> \o s)[1] = c
<1> DEFINE t == <<c>> \o s
<1>1. t \in Seq(S) /\ Len(t) = Len(s) + 1 /\ t[1] = c /\ Len(s) \in Nat
  OBVIOUS
<1>2. \A i \in 1..Len(s) : t[i + 1] = s[i]
  OBVIOUS
<1> HIDE DEF t
<1>3. t # <<>> /\ Head(t) = c
  BY <1>1
<1>4. Tail(t) = s
  <2>1. Tail(t) \in Seq(S) /\ Len(Tail(t)) = Len(s)
    BY <1>1, <1>3
  <2>2. \A i \in 1..Len(s) : Tail(t)[i] = s[i]
    BY <1>1, <1>2, <1>3
  <2> DEFINE u == Tail(t)
  <2>0. u \in Seq(S) /\ Len(u) = Len(s)
    BY <2>1
  <2> HIDE DEF u
  <2>3. u = [i \in 1..Len(s) |-> u[i]] /\ s = [i \in 1..Len(s) |-> s[i]]
    BY <2>0
  <2>4. u = s
    BY <2>2, <2>3 DEF u
  <2> QED
    BY <2>4 DEF u
<1> QED
  BY <1>1, <1>3, <1>4 DEF t

(***************************************************************************)
(* A sequence whose first member is x and whose others are those of s.     *)
(***************************************************************************)
LEMMA Consed ==
    ASSUME NEW S, NEW s \in Seq(S), NEW x \in S, NEW t,
           t = [i \in 1..(Len(s) + 1) |-> t[i]],
           t[1] = x, \A i \in 1..Len(s) : t[i + 1] = s[i]
    PROVE  t = <<x>> \o s
<1> DEFINE u == <<x>> \o s
<1>1. u \in Seq(S) /\ Len(u) = Len(s) + 1
  OBVIOUS
<1>2. u = [i \in 1..(Len(s) + 1) |-> u[i]]
  BY <1>1
<1>3. ASSUME NEW i \in 1..(Len(s) + 1) PROVE u[i] = t[i]
  <2>1. CASE i = 1
    BY <2>1
  <2>2. CASE i # 1
    <3>1. i - 1 \in 1..Len(s) /\ (i - 1) + 1 = i
      BY <2>2
    <3>2. u[i] = s[i - 1]
      BY <2>2
    <3>3. t[i] = s[i - 1]
      BY <3>1
    <3> QED
      BY <3>2, <3>3
  <2> QED
    BY <2>1, <2>2
<1> HIDE DEF u
<1>4. t = u
  BY <1>2, <1>3
<1> QED
  BY <1>4 DEF u

(***************************************************************************)
(* The sequences of at most one member.                                    *)
(***************************************************************************)
LEMMA OneOf == ASSUME NEW S, NEW v \in S PROVE <<>> \in Seq(S) /\ <<v>> \in Seq(S)
  OBVIOUS

(***************************************************************************)
(* Moving the head of t to the end of s leaves what they are together.     *)
(***************************************************************************)
LEMMA MovedOver ==
    ASSUME NEW S, NEW s \in Seq(S), NEW t \in Seq(S), t # <<>>
    PROVE  /\ Append(s, Head(t)) \in Seq(S) /\ Tail(t) \in Seq(S) /\ Head(t) \in S
           /\ Append(s, Head(t)) \o Tail(t) = s \o t
<1> DEFINE h == Head(t)
           r1 == Tail(t)
           hs == <<h>>
<1>1. h \in S /\ r1 \in Seq(S)
  OBVIOUS
<1>2. t = hs \o r1
  OBVIOUS
<1>3. Append(s, h) = s \o hs /\ Append(s, h) \in Seq(S)
  OBVIOUS
<1>0. hs \in Seq(S) /\ r1 \in Seq(S)
  OBVIOUS
<1> HIDE DEF h, r1, hs
<1>4. (s \o hs) \o r1 = s \o (hs \o r1)
  BY <1>0, ConcatAssociates
<1> QED
  BY <1>1, <1>2, <1>3, <1>4 DEF h, r1
=============================================================================
